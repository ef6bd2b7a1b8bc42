------------------------------ MODULE Issuance -----------------------------
(***************************************************************************)
(* RetrievalService with the I/O of its vetting and retrieval stages: the  *)
(* gates an offer passes in ProcessOffering, and the exchange of           *)
(* fetchCredentialData with issuer, authorization server and signer.  The  *)
(* issuer may publish other metadata at any time; intake and acceptance    *)
(* fetch it separately.  step[c] is the I/O that is due within pc[c].      *)
(***************************************************************************)
EXTENDS RetrievalService, IssuerMetadata

CONSTANTS TermsOf,      \* TermsOf[o]: what offer o says
          Docs,         \* the documents an issuer may publish
          AuthDetails,  \* the authorization_details a token may come with
          Policies,     \* the OPA policies configured
          NoNonce       \* the issuer has no nonce endpoint

ASSUME TermsAssumption == TermsOf \in [Offers -> Terms]
ASSUME DocsAssumption == Docs \subseteq Documents
ASSUME DetailsAssumption == AuthDetails \subseteq Seq(Details)
ASSUME PoliciesAssumption == Policies \subseteq {"offering", "metadata"}
ASSUME NoNonceAssumption == NoNonce \notin Calls

VARIABLES published,  \* published[i]: the metadata issuer i serves now
          step,       \* step[c]: the I/O that call c does next in its stage
          doc,        \* doc[c]: the metadata c has fetched last
          details,    \* details[c]: the authorization_details of c's token
          nonce,      \* nonce[c]: the nonce the issuer gave to c
          proof,      \* proof[c]: the holder proof c took from the signer
          signed,     \* the proofs the signer has made
          asked,      \* the credential requests issuers have received
          passed,     \* the gates of ProcessOffering a call has passed
          visited     \* the offers whose issuer was asked for metadata

(* signed is the signer's; asked, passed and visited are history.           *)
callData == <<step, doc, details, nonce, proof>>
flowVars == <<published, callData, signed, asked, passed, visited>>
serviceVars == <<offeringVars, notified, clearanceVars>>
allVars == <<vars, flowVars>>

(* A nonce is fresh, so it goes by the call it was given to.                *)
Proofs == [nonce : Calls \union {NoNonce}, aud : Issuers]
Requests == [call : Calls, proof : Proofs,
             identifier : Identifiers \union {None},
             configuration : Configurations \union {None}]
Gates == {"uri", "document"} \union Policies

FlowTypeOK ==
    /\ published \in [Issuers -> Docs]
    /\ step \in [Calls -> {"resolve", "offering", "fetch", "metadata",
                           "refetch", "redeem", "nonce", "sign"}]
    /\ \A c \in Calls :
          /\ pc[c] \in {"token", "proof", "request"} =>
                step[c] \in {"refetch", "redeem", "nonce", "sign"}
          /\ step[c] \in {"redeem", "nonce", "sign"} => doc[c] \in Docs
          /\ pc[c] = "request" => proof[c] \in Proofs
    /\ nonce \in [Calls -> Calls \union {NoNonce}]
    /\ signed \subseteq Proofs
    /\ asked \subseteq Requests
    /\ passed \subseteq [call : Calls, gate : Gates]
    /\ visited \subseteq Offers

FlowInit ==
    /\ Init
    /\ published \in [Issuers -> Docs]
    /\ step = [c \in Calls |-> "resolve"]
    /\ doc = [c \in Calls |-> None]
    /\ details = [c \in Calls |-> <<>>]
    /\ nonce = [c \in Calls |-> NoNonce]
    /\ proof = [c \in Calls |-> None]
    /\ signed = {} /\ asked = {} /\ passed = {} /\ visited = {}

-----------------------------------------------------------------------------
termsOf(c) == TermsOf[offer[c]]
OfferedDoc(c) == published[termsOf(c).issuer]

Due(c, stage, s) == At(c, stage) /\ step[c] = s

(* The next I/O of the same stage.                                          *)
Then(c, s) ==
    /\ step' = [step EXCEPT ![c] = s]
    /\ UNCHANGED callVars

(* An error path that is a decision of the code.                            *)
Refuse(c) == Fail(c) /\ UNCHANGED step

Pass(c, gate) == passed' = passed \union {[call |-> c, gate |-> gate]}

(* Mutant: the issuer URI is checked with the metadata, after the fetch.    *)
ResolveUnchecked(c) ==
    /\ Due(c, "vet", "resolve")
    /\ Then(c, "offering") /\ Pass(c, "uri")
    /\ UNCHANGED <<serviceVars, published, doc, details, nonce, proof, signed,
                   asked, visited>>

(* GetOfferParameters, and ValidateCredentialIssuerURI before the issuer is *)
(* asked for metadata.  An offer that came by reference is fetched by       *)
(* GetOfferParameters from where it says, before the check; visited is of   *)
(* the metadata alone.                                                      *)
ResolveOffer(c) ==
    /\ Due(c, "vet", "resolve")
    /\ \/ /\ ValidateCredentialIssuerURI(termsOf(c))
          /\ Then(c, "offering") /\ Pass(c, "uri")
       \/ /\ ~ValidateCredentialIssuerURI(termsOf(c))
          /\ Refuse(c) /\ UNCHANGED passed
    /\ UNCHANGED <<serviceVars, published, doc, details, nonce, proof, signed,
                   asked, visited>>

(* GetPolicyResult allows the call to go on; it is asked if configured.     *)
Allowed(c, policy) ==
    \/ policy \in Policies /\ Pass(c, policy)
    \/ policy \notin Policies /\ UNCHANGED passed

Denied(c, policy) == policy \in Policies /\ Refuse(c) /\ UNCHANGED passed

(* Mutant: a policy that denies or cannot be asked is only logged.          *)
OfferingPolicyFailsOpen(c) ==
    /\ Due(c, "vet", "offering")
    /\ Then(c, "fetch") /\ (Allowed(c, "offering") \/ UNCHANGED passed)
    /\ UNCHANGED <<serviceVars, published, doc, details, nonce, proof, signed,
                   asked, visited>>

AskOfferingPolicy(c) ==
    /\ Due(c, "vet", "offering")
    /\ \/ Allowed(c, "offering") /\ Then(c, "fetch")
       \/ Denied(c, "offering")
    /\ UNCHANGED <<serviceVars, published, doc, details, nonce, proof, signed,
                   asked, visited>>

(* getIssuerMetadata and ValidateOffering.  With DISABLETLS a fetch that    *)
(* failed is made once more; the first attempt changes nothing here, and    *)
(* the action stands for the one whose answer counts.                       *)
FetchMetadata(c) ==
    /\ Due(c, "vet", "fetch")
    /\ doc' = [doc EXCEPT ![c] = OfferedDoc(c)]
    /\ visited' = visited \union {offer[c]}
    /\ \/ /\ ValidateOffering(termsOf(c), OfferedDoc(c))
          /\ Then(c, "metadata") /\ Pass(c, "document")
       \/ /\ ~ValidateOffering(termsOf(c), OfferedDoc(c))
          /\ Refuse(c) /\ UNCHANGED passed
    /\ UNCHANGED <<serviceVars, published, details, nonce, proof, signed, asked>>

AskMetadataPolicy(c) ==
    /\ Due(c, "vet", "metadata")
    /\ \/ Allowed(c, "metadata") /\ Goto(c, "store") /\ UNCHANGED step
       \/ Denied(c, "metadata")
    /\ UNCHANGED <<serviceVars, published, doc, details, nonce, proof, signed,
                   asked, visited>>

VetStep(c) ==
    \/ ResolveOffer(c)
    \/ AskOfferingPolicy(c)
    \/ FetchMetadata(c)
    \/ AskMetadataPolicy(c)

-----------------------------------------------------------------------------
(* Mutant: the grants of the offer are not looked at.                       *)
GrantUnchecked(c) ==
    /\ Due(c, "token", "refetch")
    /\ doc' = [doc EXCEPT ![c] = OfferedDoc(c)]
    /\ visited' = visited \union {offer[c]}
    /\ Then(c, "redeem")
    /\ UNCHANGED <<serviceVars, published, details, nonce, proof, signed, asked,
                   passed>>

(* The start of fetchCredentialData: the metadata is fetched again (in one  *)
(* attempt or two, as in FetchMetadata), whatever the row holds, and the    *)
(* row's offer is checked once more.  The issuer the metadata name is not.  *)
RefetchMetadata(c) ==
    /\ Due(c, "token", "refetch")
    /\ doc' = [doc EXCEPT ![c] = OfferedDoc(c)]
    /\ visited' = visited \union {offer[c]}
    /\ \/ /\ termsOf(c).ids # <<>> /\ offer[c] \in PreAuthOffers
          /\ Then(c, "redeem")
       \/ /\ termsOf(c).ids = <<>> \/ offer[c] \notin PreAuthOffers
          /\ Refuse(c)
    /\ UNCHANGED <<serviceVars, published, details, nonce, proof, signed, asked,
                   passed>>

(* Mutant: metadata without a credential_issuer is good enough.             *)
IssuerUnchecked(c) ==
    /\ Due(c, "token", "redeem")
    /\ offer[c] \notin redeemed
    /\ redeemed' = redeemed \union {offer[c]}
    /\ \E a \in AuthDetails : details' = [details EXCEPT ![c] = a]
    /\ Goto(c, "proof")
    /\ step' = [step EXCEPT ![c] = "nonce"]
    /\ UNCHANGED <<offeringVars, notified, issued, next, stored, published, doc,
                   nonce, proof, signed, asked, passed, visited>>

(* Mutant: a code the server has seen is taken to be good, as a cached      *)
(* token would be.                                                          *)
CodeReused(c) ==
    /\ Due(c, "token", "redeem")
    /\ redeemed' = redeemed \union {offer[c]}
    /\ \E a \in AuthDetails : details' = [details EXCEPT ![c] = a]
    /\ Goto(c, "proof")
    /\ step' = [step EXCEPT ![c] = "nonce"]
    /\ UNCHANGED <<offeringVars, notified, issued, next, stored, published, doc,
                   nonce, proof, signed, asked, passed, visited>>

(* FindFittingAuthorizationServer and GetToken.  That the metadata names an *)
(* issuer is checked after the code is spent.                               *)
RequestToken(c) ==
    /\ Due(c, "token", "redeem")
    /\ \/ /\ offer[c] \notin redeemed
          /\ redeemed' = redeemed \union {offer[c]}
          /\ \E a \in AuthDetails : details' = [details EXCEPT ![c] = a]
          /\ \/ /\ doc[c].issuer # NoIssuer
                /\ Goto(c, "proof")
                /\ step' = [step EXCEPT ![c] = "nonce"]
             \/ doc[c].issuer = NoIssuer /\ Refuse(c)
       \/ /\ offer[c] \in redeemed
          /\ Refuse(c) /\ UNCHANGED <<redeemed, details>>
    /\ UNCHANGED <<offeringVars, notified, issued, next, stored, published, doc,
                   nonce, proof, signed, asked, passed, visited>>

(* fetchCredentialNonce.  The origin of the endpoint is compared with the   *)
(* issuer only here, not by ValidateOffering.                               *)
FetchNonce(c) ==
    /\ Due(c, "proof", "nonce")
    /\ \/ doc[c].nonce = "none" /\ Then(c, "sign") /\ UNCHANGED nonce
       \/ /\ doc[c].nonce = "own" /\ Then(c, "sign")
          /\ nonce' = [nonce EXCEPT ![c] = c]
       \/ doc[c].nonce = "other" /\ Refuse(c) /\ UNCHANGED nonce
    /\ UNCHANGED <<serviceVars, published, doc, details, proof, signed, asked,
                   passed, visited>>

(* Mutant: the nonce of the proof is not compared.                          *)
ValidateAudienceOnly(p, n, audience) == p.aud = audience

(* Mutant: the audience of the proof is not compared.                       *)
ValidateNonceOnly(p, n, audience) == n # NoNonce => p.nonce = n

ValidateHolderBinding(p, n, audience) ==
    /\ n # NoNonce => p.nonce = n
    /\ p.aud = audience

(* The proof CreateHolderBinding asks the signer for.                       *)
OwnProof(c) == [nonce |-> nonce[c], aud |-> doc[c].issuer]

(* CreateHolderBinding and ValidateHolderBinding; the signer answers with   *)
(* a proof it has made, for this call or for another.                       *)
SignProof(c, reply) ==
    /\ Due(c, "proof", "sign")
    /\ signed' = signed \union {OwnProof(c)}
    /\ reply \in signed'
    /\ \/ /\ ValidateHolderBinding(reply, nonce[c], doc[c].issuer)
          /\ proof' = [proof EXCEPT ![c] = reply]
          /\ Goto(c, "request")
       \/ /\ ~ValidateHolderBinding(reply, nonce[c], doc[c].issuer)
          /\ Fail(c) /\ UNCHANGED proof
    /\ UNCHANGED <<serviceVars, published, step, doc, details, nonce, asked,
                   passed, visited>>

(* The credential request call c makes.                                     *)
Request(c) ==
    LET chosen == SelectCredential(details[c], termsOf(c).ids)
    IN  [call |-> c, proof |-> proof[c], identifier |-> chosen.identifier,
         configuration |-> chosen.configuration]

(* The choice of the credential and CredentialRequest.                      *)
SendRequest(c) ==
    /\ At(c, "request")
    /\ \/ /\ Requestable(Request(c), doc[c])
          /\ asked' = asked \union {Request(c)}
          /\ \E r \in Responses : issued' = [issued EXCEPT ![c] = r]
          /\ Goto(c, "validate")
       \/ /\ ~Requestable(Request(c), doc[c])
          /\ Fail(c) /\ UNCHANGED <<asked, issued>>
    /\ UNCHANGED <<offeringVars, notified, redeemed, next, stored, published,
                   callData, signed, passed, visited>>

RetrieveStep(c) ==
    \/ RefetchMetadata(c)
    \/ RequestToken(c)
    \/ FetchNonce(c)
    \/ SignProof(c, OwnProof(c))
    \/ SendRequest(c)

-----------------------------------------------------------------------------
(* An I/O fails: the party was not reached, gave an answer that cannot be   *)
(* used, or did its part and the answer was lost.                           *)
NothingDone == UNCHANGED <<redeemed, signed, asked, issued, visited>>

LostAnswer(c) ==
    \/ /\ Due(c, "vet", "fetch") \/ Due(c, "token", "refetch")
       /\ visited' = visited \union {offer[c]}
       /\ UNCHANGED <<redeemed, signed, asked, issued>>
    \/ /\ Due(c, "token", "redeem") /\ offer[c] \notin redeemed
       /\ redeemed' = redeemed \union {offer[c]}
       /\ UNCHANGED <<signed, asked, issued, visited>>
    \/ /\ Due(c, "proof", "sign")
       /\ signed' = signed \union {OwnProof(c)}
       /\ UNCHANGED <<redeemed, asked, issued, visited>>
    \/ /\ At(c, "request") /\ Requestable(Request(c), doc[c])
       /\ asked' = asked \union {Request(c)}
       /\ \E r \in Responses : issued' = [issued EXCEPT ![c] = r]
       /\ UNCHANGED <<redeemed, signed, visited>>

IOFails(c) ==
    /\ pc[c] \in {"vet", "token", "proof", "request"}
    /\ Fail(c)
    /\ NothingDone \/ LostAnswer(c)
    /\ UNCHANGED <<offeringVars, notified, next, stored, published, callData,
                   passed>>

SignerMixesUp(c) == \E reply \in signed : SignProof(c, reply)

(* An issuer changes its metadata.                                          *)
Republish(i) ==
    /\ \E d \in Docs : published' = [published EXCEPT ![i] = d]
    /\ UNCHANGED <<vars, callData, signed, asked, passed, visited>>

(* The stages that RetrievalService has in full.                            *)
Lookup(c) ==
    /\ LookupOffering(c)
    /\ step' = [step EXCEPT ![c] = "refetch"]
    /\ UNCHANGED <<notified, published, doc, details, nonce, proof, signed,
                   asked, passed, visited>>

OtherStage(c) ==
    /\ \/ StoreOffering(c) /\ UNCHANGED clearanceVars
       \/ NotifyRetrieval(c) /\ UNCHANGED clearanceVars
       \/ DeleteRejectedOffering(c) /\ UNCHANGED notified
       \/ ValidateCredentialResponse(c) /\ UNCHANGED notified
       \/ StoreCredential(c) /\ UNCHANGED notified
       \/ UpdateOfferingStatus(c) /\ UNCHANGED notified
    /\ UNCHANGED flowVars

FlowRun(c) == VetStep(c) \/ Lookup(c) \/ RetrieveStep(c) \/ OtherStage(c)

FlowNext ==
    \/ \E c \in Calls : FlowRun(c) \/ IOFails(c) \/ SignerMixesUp(c)
    \/ \E c \in Calls : (Arrive(c) \/ Crash(c)) /\ UNCHANGED flowVars
    \/ \E k \in Keys : Expire(k) /\ UNCHANGED flowVars
    \/ \E i \in Issuers : Republish(i)

FlowSpec == FlowInit /\ [][FlowNext]_allVars

-----------------------------------------------------------------------------
(* The exchange in detail does nothing that RetrievalService rules out:     *)
(* every invariant of the service holds of it.                              *)
ImplementsService == Spec

(* Some call has taken offer o through every gate of ProcessOffering.       *)
PassedAll(o) ==
    \E c \in Calls :
        /\ offer[c] = o
        /\ \A g \in Gates : [call |-> c, gate |-> g] \in passed

(* A code is redeemed only for an offer that ProcessOffering let through,   *)
(* policies included: fetchCredentialData asks none of these questions      *)
(* again and relies on the row (ProcessOffering fails closed).              *)
RedeemedWasVetted == \A o \in redeemed : PassedAll(o)

(* README: "validation of credential_issuer before issuer-metadata network  *)
(* access", at intake and through the row also at acceptance.               *)
FetchesAreSafe == \A o \in visited : TermsOf[o].safe

(* A call that was given a nonce spends it and no other, though the signer  *)
(* may answer with the proof it made for another call (ValidateHolderBinding*)
(* compares them).  A call whose issuer has no nonce endpoint sends any     *)
(* proof with the right audience, one with another call's nonce as well.    *)
OwnNonceSent ==
    \A r \in asked :
        nonce[r.call] # NoNonce => r.proof.nonce = nonce[r.call]

(* A proof of possession is addressed to the issuer of the offer, if the    *)
(* metadata at acceptance name the issuer they named when the offer was     *)
(* vetted: the offer is compared with the metadata at intake only, the      *)
(* audience of the signer's answer with the metadata at acceptance only.    *)
VettedBindsProof ==
    \A r \in asked, v \in Calls :
        /\ [call |-> v, gate |-> "document"] \in passed
        /\ offer[v] = offer[r.call]
        /\ doc[v] # None /\ doc[v].issuer = doc[r.call].issuer
        => r.proof.aud = termsOf(r.call).issuer

(* README: "Before an accepted credential is persisted, the retrieval       *)
(* service performs wallet-side validation" with "exact binding between the *)
(* offer and the issuer metadata".  fetchCredentialData fetches metadata of *)
(* its own and never compares them with the offer.                          *)
StoredIsBound == \A m \in stored : doc[m.call].issuer = termsOf(m.call).issuer

(* The authorization server details configurations of the offer only.       *)
NamesOffered(c) ==
    \A n \in DOMAIN details[c] :
        details[c][n].configuration \in ToSet(termsOf(c).ids) \union {None}

(* A spent code is not lost on configurations that were vetted: the check   *)
(* of the chosen one, which comes after GetToken, does not refuse if the    *)
(* metadata list configurations and are those vetted for the offer, and the *)
(* token details configurations of the offer only.  Metadata that changed,  *)
(* that list none or that name no issuer, and details of other              *)
(* configurations, are not spoken of: with them the code is spent for       *)
(* nothing.                                                                 *)
VettedIsRequestable ==
    \A c, v \in Calls :
        /\ At(c, "request") /\ NamesOffered(c)
        /\ [call |-> v, gate |-> "document"] \in passed
        /\ offer[v] = offer[c] /\ doc[v] = doc[c] /\ doc[c].configs # Absent
        => Requestable(Request(c), doc[c])
=============================================================================
