----------------------------- MODULE MCIssuance ----------------------------
(* Instances of Issuance for TLC: offers, metadata documents and token      *)
(* responses.  One run has one issuer; j is for proofs that go astray.      *)
EXTENDS Issuance, TLC

CONSTANTS i, j, A, B, x, o1, o2, o3

Offered(o) == [issuer |-> i, safe |-> o # o2, ids |-> <<A>>]
OneUnsafe == [o \in Offers |-> Offered(o)]
TwoIssuers == [o \in Offers |->
    [issuer |-> IF o = o2 THEN j ELSE i, safe |-> TRUE, ids |-> <<A>>]]

Doc(issuer, n, configs) ==
    [issuer |-> issuer, endpoints |-> TRUE, nonce |-> n, configs |-> configs]

Complete1 == Doc(i, "own", {A, B})
OtherDocs == {Doc(NoIssuer, "none", {A}), Doc(i, "none", {B}),
              Doc(i, "other", Absent),
              [Complete1 EXCEPT !.endpoints = FALSE]}
AllDocs == {Complete1} \union OtherDocs
SignerDocs == {Doc(i, "none", {A}), Doc(j, "own", {A})}
BindingDocs == {Doc(i, "own", {A}), Doc(i, "none", {A}), Doc(j, "own", {A})}

Detail(identifier, config) ==
    [identifier |-> identifier, configuration |-> config]
NoDetails == {<<>>}
SomeDetails == {<<>>, <<Detail(None, A)>>, <<Detail(x, None)>>,
                <<Detail(None, B), Detail(x, A)>>}

(* Days after an intake: call v has vetted and stored offer o1, and the     *)
(* other rows hold offers too, the same one perhaps.                        *)
VettedInit(v) ==
    /\ \A c \in Calls : IF c = v THEN key[c] # NoKey /\ offerParams[key[c]] = o1
                       ELSE key[c] = NoKey
    /\ pc = [c \in Calls |-> IF c = v THEN "processed" ELSE "idle"]
    /\ accept = [c \in Calls |-> FALSE]
    /\ offer = [c \in Calls |-> IF c = v THEN o1 ELSE NoOffer]
    /\ step = [c \in Calls |-> IF c = v THEN "metadata" ELSE "resolve"]
    /\ \E d \in Docs : /\ ValidateOffering(TermsOf[o1], d)
                       /\ doc = [c \in Calls |-> IF c = v THEN d ELSE None]
    /\ passed = {[call |-> v, gate |-> g] : g \in Gates}
    /\ notified = {key[v]} /\ visited = {o1}

StoredInit ==
    /\ offerParams \in [Keys -> Offers]
    /\ status = [k \in Keys |-> "received"]
    /\ gone = [k \in Keys |-> FALSE]
    /\ key \in [Calls -> Keys \union {NoKey}]
    /\ \E v \in Calls : VettedInit(v)
    /\ ClearanceInit
    /\ published \in [Issuers -> Docs]
    /\ details = [c \in Calls |-> <<>>]
    /\ nonce = [c \in Calls |-> NoNonce]
    /\ proof = [c \in Calls |-> None]
    /\ signed = {} /\ asked = {}

StoredSpec == StoredInit /\ [][FlowNext]_allVars

Symmetry == Permutations(Calls) \union Permutations(Keys)
=============================================================================
