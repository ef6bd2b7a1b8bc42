-------------------------- MODULE RetrievalService -------------------------
(***************************************************************************)
(* The credential retrieval service: the REST handlers of                  *)
(* internal/rest/rest.go and the event handler of                          *)
(* internal/messaging/messaging.go start calls of ProcessOffering,         *)
(* ClearOffering and GetOfferings, which run concurrently on the replicas, *)
(* may stop with their replica at any I/O, and share the offerings table,  *)
(* the issuer and the message bus while the rows of the table expire.      *)
(***************************************************************************)
EXTENDS Processing, Clearance

vars == <<offeringVars, callVars, notified, clearanceVars>>

TypeOK ==
    /\ OfferingsTypeOK
    /\ CallsTypeOK
    /\ notified \subseteq Keys
    /\ ClearanceTypeOK

Init ==
    /\ OfferingsInit
    /\ CallsInit
    /\ notified = {}
    /\ ClearanceInit

-----------------------------------------------------------------------------
(* handleMessage: an offering event or an acceptance event, for any row and *)
(* in any order; the sender chose the ids.                                  *)
HandleMessage(c) ==
    /\ c \in Calls \ RestCalls
    /\ \E k \in Keys \union {NoKey} :
          \/ \E o \in Offers : Enter(c, "vet", k, FALSE, o)
          \/ \E a \in BOOLEAN : Enter(c, "lookup", k, a, NoOffer)
    /\ UNCHANGED <<offeringVars, notified, clearanceVars>>

(* HandleRetrieval draws a requestId nobody used before.                    *)
Fresh(k) == \A d \in Calls : key[d] # k

HandleRetrieval(c) ==
    /\ c \in RestCalls
    /\ \E k \in Keys, o \in Offers :
          Fresh(k) /\ Enter(c, "vet", k, FALSE, o)
    /\ UNCHANGED <<offeringVars, notified, clearanceVars>>

HandleClearance(c) ==
    /\ c \in RestCalls
    /\ \E k \in Keys, a \in BOOLEAN : Enter(c, "lookup", k, a, NoOffer)
    /\ UNCHANGED <<offeringVars, notified, clearanceVars>>

(* GetOfferings reads the whole group at once; the query may fail.          *)
HandleGetOffering(c) ==
    /\ c \in RestCalls
    /\ \/ Listable /\ Enter(c, "listed", NoKey, FALSE, NoOffer)
       \/ Enter(c, "failed", NoKey, FALSE, NoOffer)
    /\ UNCHANGED <<offeringVars, notified, clearanceVars>>

(* A body or an event that cannot be read, an event of another type.        *)
Drop(c) ==
    /\ At(c, "idle")
    /\ Fail(c)
    /\ UNCHANGED <<offeringVars, notified, clearanceVars>>

Arrive(c) ==
    \/ HandleMessage(c)
    \/ HandleRetrieval(c)
    \/ HandleClearance(c)
    \/ HandleGetOffering(c)
    \/ Drop(c)

(* A call ends with its replica; nothing of it is taken up again.           *)
Crash(c) ==
    /\ pc[c] \in Running
    /\ Goto(c, "crashed")
    /\ UNCHANGED <<offeringVars, notified, clearanceVars>>

Run(c) ==
    \/ ProcessOffering(c) /\ UNCHANGED clearanceVars
    \/ ClearOffering(c) /\ UNCHANGED notified

Expire(k) ==
    /\ ExpireOffering(k) \/ ExpireStatus(k)
    /\ UNCHANGED <<callVars, notified, clearanceVars>>

Next ==
    \/ \E c \in Calls : Arrive(c) \/ Run(c) \/ Crash(c)
    \/ \E k \in Keys : Expire(k)

Spec == Init /\ [][Next]_vars

(* Where a call waits for a party without a deadline of its own or of the    *)
(* code: the offer's and the issuer's servers and the policies (helper.Post, *)
(* GetOfferParameters, GetIssuerMetadata), GetToken, the signer's proof      *)
(* (RequestCtx on context.Background()) and CredentialRequest.               *)
Unbounded == {"vet", "token", "proof", "request"}

(* Elsewhere an I/O returns, with its answer or an error: the driver gives   *)
(* up on a query, publishing waits for no answer, and the client that asks   *)
(* the signer to verify has a timeout.  Nothing is said of calls that have   *)
(* not arrived.                                                              *)
IOReturns == \A c \in Calls : WF_vars(pc[c] \notin Unbounded /\ Run(c))

-----------------------------------------------------------------------------
(* All credentials the issuer gave call c have been sent to the storage     *)
(* service.                                                                 *)
Complete(c) ==
    /\ Items(c) # {}
    /\ \A i \in Items(c) : Message(c, i) \in stored

Delivered(k) == \E c \in Calls : key[c] = k /\ Complete(c)

(* A row says accepted only if some acceptance of it has sent the complete  *)
(* batch it was issued, whatever other calls, crashes and expiries did to   *)
(* the row meanwhile: ClearOffering updates the status last.                *)
AcceptedIsStored ==
    \A k \in Keys : status[k] = "accepted" => Delivered(k)

(* Nothing of a batch with an invalid credential is stored: the batch is    *)
(* validated as a whole before its first message is published.              *)
StoredIsVetted ==
    \A m \in stored : Vetted(m.call)

(* Concurrent or repeated acceptances, also of two rows that carry the same *)
(* offer, never store two batches for one offer: no status is looked at and *)
(* no lock is taken, the code that is redeemed before anything is issued    *)
(* decides which call goes on.                                              *)
OneBatchPerOffer ==
    \A m, n \in stored : offer[m.call] = offer[n.call] => m.call = n.call

(* A notified offering can be found under the key it was announced with     *)
(* until it is rejected or expires, although Exec may fail and calls may    *)
(* crash between the two: ProcessOffering notifies after it has stored.     *)
NotifiedIsFindable == \A k \in notified : Received(k)

(* Nothing waits for a holder, another call or a lock, and no loop runs on:  *)
(* a call that has arrived comes to its end, or hangs where it waits for a   *)
(* party that the code gives no deadline.  Past the response of the issuer   *)
(* it ends.                                                                  *)
CallsEnd ==
    \A c \in Calls : []<>(pc[c] \in {"idle"} \union Ended \union Unbounded)

(* A row that expired in part (a status that outlived its offering) does not *)
(* stay unreadable for good, however many acceptances keep arriving for it:  *)
(* each mark renews the status, but getOfferings lets no acceptance pass     *)
(* that finds the row in this state.  Nothing is claimed of the group, which *)
(* other rows can keep unlistable.                                           *)
RowRecovers == \A k \in Keys : Unreadable({k}) ~> ~Unreadable({k})

(* The service keeps the life cycle of OfferingLifecycle, a re-sent         *)
(* offering, calls in flight and expiry included.                           *)
Lifecycle == INSTANCE OfferingLifecycle WITH
    received <- {k \in Keys : Received(k)},
    delivered <- {k \in Keys : Delivered(k)},
    accepted <- {k \in Keys : status[k] = "accepted"}

ImplementsLifecycle == Lifecycle!Spec

-----------------------------------------------------------------------------
(* README: "batch-safe storage of every returned credential", and the       *)
(* comment of StoreCredential: "batch issuance does not lose items".  A     *)
(* call that fails has sent all of its batch or nothing of it.              *)
BatchSafe ==
    \A c \in Calls : pc[c] = "failed" =>
        \/ \A i \in Items(c) : Message(c, i) \notin stored
        \/ \A i \in Items(c) : Message(c, i) \in stored

(* HandleGetOffering: "get offerings by tenantId and groupId".  A group     *)
(* that holds an offering can be listed.                                    *)
GroupIsListable == (\E k \in Keys : Decodes(k)) => Listable
=============================================================================
