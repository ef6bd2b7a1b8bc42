----------------------------- MODULE Offerings -----------------------------
(***************************************************************************)
(* The table ocm.offerings as the queries of internal/services/storage.go  *)
(* see it.  A key is the requestId of a row; all keys belong to one tenant *)
(* and group, so the set Keys is what GetOfferings lists.                  *)
(*                                                                         *)
(* Cassandra stores and expires columns, not rows.  StoreOffering writes   *)
(* metadata, type, offerParams and the timestamp in one UPDATE, so they    *)
(* live and expire together and are one variable here; status is also      *)
(* written later and alone, by updateOfferingStatus, and is a variable of  *)
(* its own.  An UPDATE is an upsert: it creates the row it does not find.  *)
(***************************************************************************)

CONSTANTS Keys,     \* the requestIds of one tenant and group
          Offers,   \* the credential offers
          NoOffer   \* the columns of StoreOffering are absent (null)

ASSUME NoOfferAssumption == NoOffer \notin Offers

VARIABLES offerParams,  \* offerParams[k]: the offer kept in k's row
          status,       \* status[k]: the status column, "none" when absent
          gone          \* gone[k]: k's offer was deleted or has expired since
                        \* it was last stored (history, no column of the table)

offeringVars == <<offerParams, status, gone>>

OfferingsTypeOK ==
    /\ offerParams \in [Keys -> Offers \union {NoOffer}]
    /\ status \in [Keys -> {"none", "received", "accepted"}]
    /\ gone \in [Keys -> BOOLEAN]

OfferingsInit ==
    /\ offerParams = [k \in Keys |-> NoOffer]
    /\ status = [k \in Keys |-> "none"]
    /\ gone = [k \in Keys |-> FALSE]

-----------------------------------------------------------------------------
(* A row is returned by a SELECT while one of its columns is there.        *)
RowExists(k) == offerParams[k] # NoOffer \/ status[k] # "none"

(* buildOfferingRow: null metadata and offerParams are scanned as "", which *)
(* base64 accepts and json.Unmarshal rejects.                               *)
Decodes(k) == offerParams[k] # NoOffer

(* getOfferings gives up on the first row that does not decode, whatever    *)
(* the other rows hold.                                                     *)
Unreadable(ks) == \E k \in ks : RowExists(k) /\ ~Decodes(k)

(* GetOfferings answers with the offerings of the group.                    *)
Listable == ~Unreadable(Keys)

(* The query succeeds and returns the row of k.                             *)
Found(k) == RowExists(k) /\ ~Unreadable({k})

(* An offer was stored under k, and is still there unless a holder rejected *)
(* it or its time to live passed.                                           *)
Received(k) == offerParams[k] # NoOffer \/ gone[k]

-----------------------------------------------------------------------------
(* What an Exec changes when the cluster applies it.                        *)

(* The UPDATE of StoreOffering: every column, whatever the row held.        *)
PutOffering(k, o) ==
    /\ offerParams' = [offerParams EXCEPT ![k] = o]
    /\ status' = [status EXCEPT ![k] = "received"]
    /\ gone' = [gone EXCEPT ![k] = FALSE]

(* The DELETE of deleteRejectedOffering.                                    *)
DeleteRow(k) ==
    /\ offerParams' = [offerParams EXCEPT ![k] = NoOffer]
    /\ status' = [status EXCEPT ![k] = "none"]
    /\ gone' = [gone EXCEPT ![k] = TRUE]

(* Mutant: the accept flag is taken the wrong way.                          *)
PutStatusRejected(k) ==
    /\ status' = [status EXCEPT ![k] = "rejected"]
    /\ UNCHANGED <<offerParams, gone>>

(* The UPDATE of updateOfferingStatus: the status column alone.             *)
PutStatus(k) ==
    /\ status' = [status EXCEPT ![k] = "accepted"]
    /\ UNCHANGED <<offerParams, gone>>

(* default_time_to_live of the table.  The columns of StoreOffering expire  *)
(* together; a status rewritten since then is younger and stays.            *)
ExpireOffering(k) ==
    /\ offerParams[k] # NoOffer
    /\ offerParams' = [offerParams EXCEPT ![k] = NoOffer]
    /\ status' = [status EXCEPT ![k] = IF @ = "received" THEN "none" ELSE @]
    /\ gone' = [gone EXCEPT ![k] = TRUE]

ExpireStatus(k) ==
    /\ offerParams[k] = NoOffer
    /\ status[k] = "accepted"
    /\ status' = [status EXCEPT ![k] = "none"]
    /\ UNCHANGED <<offerParams, gone>>
=============================================================================
