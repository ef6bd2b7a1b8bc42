----------------------------- MODULE Clearance -----------------------------
(***************************************************************************)
(* ClearOffering of internal/services/storage.go with fetchCredentialData  *)
(* and StoreCredential: a holder rejects an offering, or accepts it and    *)
(* the service redeems the pre-authorized code, has the holder's key prove *)
(* possession, requests the credentials, validates and publishes each, and *)
(* marks the row.                                                          *)
(*                                                                         *)
(* The issuer is external.  It honours a pre-authorized code once, and     *)
(* answers a credential request with a batch, of which each credential may *)
(* be valid or not; an empty batch is a deferred response.                 *)
(***************************************************************************)
EXTENDS Calls, Naturals

CONSTANTS PreAuthOffers, \* the offers whose only grant is a pre-authorized code
          MaxBatch        \* the most credentials of one response

ASSUME MaxBatchAssumption == MaxBatch \in Nat
ASSUME PreAuthAssumption == PreAuthOffers \subseteq Offers

VARIABLES redeemed,  \* the offers whose code the server has honoured
          issued,    \* issued[c]: the batch the issuer gave call c;
                     \* issued[c][i] says whether credential i is valid
          next,      \* next[c]: the credential c publishes next
          stored     \* the messages the storage service was sent

clearanceVars == <<redeemed, issued, next, stored>>

Responses == UNION {[1..n -> BOOLEAN] : n \in 0..MaxBatch}

(* The credentials of call c's batch, and whether each of them is valid.    *)
Items(c) == DOMAIN issued[c]
Vetted(c) == \A i \in Items(c) : issued[c][i]

(* The storage message of credential i of call c's batch.                   *)
Message(c, i) == [call |-> c, item |-> i]
Messages == [call : Calls, item : Nat]

ClearanceTypeOK ==
    /\ redeemed \subseteq Offers
    /\ issued \in [Calls -> Responses]
    /\ next \in [Calls -> Nat]
    /\ stored \subseteq Messages

ClearanceInit ==
    /\ redeemed = {}
    /\ issued = [c \in Calls |-> <<>>]
    /\ next = [c \in Calls |-> 1]
    /\ stored = {}

-----------------------------------------------------------------------------
(* Mutant: a row that is not found is not an error.                         *)
LookupUnchecked(c) ==
    /\ At(c, "lookup")
    /\ \/ Fail(c)
       \/ /\ key[c] \in Keys
          /\ pc' = [pc EXCEPT ![c] = IF accept[c] THEN "token" ELSE "delete"]
          /\ \E o \in Offers : offer' = [offer EXCEPT ![c] = o]
          /\ UNCHANGED <<key, accept>>
    /\ UNCHANGED <<offeringVars, clearanceVars>>

(* The id guards and getOfferings.  The row's status plays no part.  A call *)
(* that finds no row, or one that does not decode, ends; so does one whose  *)
(* query fails.  The row is a copy from here on.                            *)
LookupOffering(c) ==
    /\ At(c, "lookup")
    /\ \/ Fail(c)
       \/ /\ key[c] \in Keys /\ Found(key[c])
          /\ pc' = [pc EXCEPT ![c] = IF accept[c] THEN "token" ELSE "delete"]
          /\ offer' = [offer EXCEPT ![c] = offerParams[key[c]]]
          /\ UNCHANGED <<key, accept>>
    /\ UNCHANGED <<offeringVars, clearanceVars>>

DeleteRejectedOffering(c) ==
    /\ At(c, "delete")
    /\ Exec(c, DeleteRow(key[c]), "rejected")
    /\ UNCHANGED clearanceVars

(* Issuer metadata, the checks on the offer's ids and grants, the search    *)
(* for an authorization server, GetToken and the issuer check after it.     *)
(* The server may have honoured the code although the call fails.           *)
GetToken(c) ==
    /\ At(c, "token")
    /\ \/ /\ offer[c] \in PreAuthOffers \ redeemed
          /\ redeemed' = redeemed \union {offer[c]}
          /\ Goto(c, "proof") \/ Fail(c)
       \/ Fail(c) /\ UNCHANGED redeemed
    /\ UNCHANGED <<offeringVars, issued, next, stored>>

(* The nonce, the signer's proof of possession and ValidateHolderBinding.   *)
HolderBinding(c) ==
    /\ At(c, "proof")
    /\ Goto(c, "request") \/ Fail(c)
    /\ UNCHANGED <<offeringVars, clearanceVars>>

(* The choice of the credential and CredentialRequest.  What the issuer     *)
(* issued may be lost on the way.                                           *)
RequestCredential(c) ==
    /\ At(c, "request")
    /\ \/ /\ \E r \in Responses : issued' = [issued EXCEPT ![c] = r]
          /\ Goto(c, "validate") \/ Fail(c)
       \/ Fail(c) /\ UNCHANGED issued
    /\ UNCHANGED <<offeringVars, redeemed, next, stored>>

(* Mutant: the first valid credential vouches for the batch.                *)
FirstCredentialValidated(c) ==
    /\ At(c, "validate")
    /\ \/ /\ Items(c) # {} /\ issued[c][1]
          /\ Goto(c, "publish")
       \/ Fail(c)
    /\ UNCHANGED <<offeringVars, clearanceVars>>

(* ValidateCredentialResponse: a deferred or empty response ends the call,  *)
(* one invalid credential rejects the batch, and so does a signer service   *)
(* that cannot be asked.                                                    *)
ValidateCredentialResponse(c) ==
    /\ At(c, "validate")
    /\ \/ /\ Items(c) # {}
          /\ Vetted(c)
          /\ Goto(c, "publish")
       \/ Fail(c)
    /\ UNCHANGED <<offeringVars, clearanceVars>>

(* Mutant: the loop ends once half of the batch is out.                     *)
PublishStopsEarly(c) ==
    /\ At(c, "publish")
    /\ stored' = stored \union {Message(c, next[c])}
    /\ next' = [next EXCEPT ![c] = @ + 1]
    /\ Goto(c, IF next[c] + 2 \notin Items(c) THEN "update" ELSE "publish")
    /\ UNCHANGED <<offeringVars, redeemed, issued>>

(* Mutant: the loop does not move on to the next credential.                *)
PublishesFirstForever(c) ==
    /\ At(c, "publish")
    /\ stored' = stored \union {Message(c, next[c])}
    /\ UNCHANGED next
    /\ Goto(c, IF next[c] + 1 \in Items(c) THEN "publish" ELSE "update")
    /\ UNCHANGED <<offeringVars, redeemed, issued>>

(* One turn of StoreCredential's loop.  The first error ends it, with the   *)
(* earlier messages sent and this one perhaps; no turn is ever undone.      *)
StoreCredential(c) ==
    /\ At(c, "publish")
    /\ \/ /\ stored' = stored \union {Message(c, next[c])}
          /\ next' = [next EXCEPT ![c] = @ + 1]
          /\ Goto(c, IF next[c] + 1 \in Items(c) THEN "publish" ELSE "update")
       \/ /\ stored' = stored \union {Message(c, next[c])}
          /\ UNCHANGED next
          /\ Fail(c)
       \/ Fail(c) /\ UNCHANGED <<stored, next>>
    /\ UNCHANGED <<offeringVars, redeemed, issued>>

UpdateOfferingStatus(c) ==
    /\ At(c, "update")
    /\ Exec(c, PutStatus(key[c]), "accepted")
    /\ UNCHANGED clearanceVars

ClearOffering(c) ==
    \/ LookupOffering(c)
    \/ DeleteRejectedOffering(c)
    \/ GetToken(c)
    \/ HolderBinding(c)
    \/ RequestCredential(c)
    \/ ValidateCredentialResponse(c)
    \/ StoreCredential(c)
    \/ UpdateOfferingStatus(c)
=============================================================================
