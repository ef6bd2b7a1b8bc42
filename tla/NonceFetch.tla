----------------------------- MODULE NonceFetch ----------------------------
(***************************************************************************)
(* fetchCredentialNonce of internal/services/validation.go: one nonce is   *)
(* asked of the endpoint that the issuer's metadata name, through the      *)
(* redirects that the endpoint answers with.  The timeout of the client    *)
(* covers all of it.  What an endpoint answers is up to the network.       *)
(***************************************************************************)
EXTENDS Naturals, Sequences

CONSTANTS Urls,       \* the URLs an endpoint or a redirect may name
          Safe,       \* those that validateRemoteURI accepts
          Origins,    \* scheme and host
          OriginOf,   \* the origin of each URL
          Nonces,
          None,       \* no endpoint, no nonce
          Timeout,    \* of the client, for a fetch
          MaxHops     \* the requests of a fetch before a redirect is refused

ASSUME UrlsAssumption ==
    Safe \subseteq Urls /\ None \notin Urls /\ OriginOf \in [Urls -> Origins]
ASSUME NoncesAssumption == None \notin Nonces  \* a blank c_nonce is an error
ASSUME LimitsAssumption == Timeout \in Nat /\ MaxHops \in Nat \ {0}

VARIABLES endpoint,  \* nonce_endpoint of the metadata
          issuer,    \* the origin of the credential issuer
          phase,     \* what is due
          target,    \* the URL that is asked next
          asked,     \* the URLs asked so far, via of CheckRedirect
          deadline,  \* when the client gives up
          clock,
          result     \* the nonce

given == <<endpoint, issuer>>
vars == <<given, phase, target, asked, deadline, clock, result>>

Init ==
    /\ endpoint \in Urls \union {None}
    /\ issuer \in Origins
    /\ phase = "start" /\ target = endpoint
    /\ asked = <<>>
    /\ deadline = Timeout /\ clock = 0
    /\ result = None

-----------------------------------------------------------------------------
(* validateRemoteURI and sameOrigin.                                        *)
Bound(url) == url \in Safe /\ OriginOf[url] = issuer

End(verdict, nonce) ==
    /\ phase' = verdict /\ result' = nonce
    /\ UNCHANGED <<given, target, asked, deadline, clock>>

NoEndpoint == phase = "start" /\ endpoint = None /\ End("done", None)

CheckEndpoint ==
    /\ phase = "start" /\ endpoint # None
    /\ \/ /\ Bound(endpoint)
          /\ phase' = "ask"
          /\ UNCHANGED <<given, target, asked, deadline, clock, result>>
       \/ ~Bound(endpoint) /\ End("failed", None)

Ask ==
    /\ phase = "ask"
    /\ phase' = "wait" /\ asked' = Append(asked, target)
    /\ UNCHANGED <<given, target, deadline, clock, result>>

(* Mutant: the origin of a redirect is taken on trust.                      *)
RedirectUnbound(url) ==
    /\ phase = "wait"
    /\ \/ /\ Len(asked) < MaxHops /\ url \in Safe
          /\ phase' = "ask" /\ target' = url
          /\ UNCHANGED <<given, asked, deadline, clock, result>>
       \/ (Len(asked) >= MaxHops \/ url \notin Safe) /\ End("failed", None)

(* Mutant: every redirect is given the whole timeout again.                 *)
RedirectRestartsTimer(url) ==
    /\ phase = "wait"
    /\ \/ /\ Len(asked) < MaxHops /\ Bound(url)
          /\ phase' = "ask" /\ target' = url /\ deadline' = clock + Timeout
          /\ UNCHANGED <<given, asked, clock, result>>
       \/ (Len(asked) >= MaxHops \/ ~Bound(url)) /\ End("failed", None)

(* CheckRedirect.                                                           *)
Redirect(url) ==
    /\ phase = "wait"
    /\ \/ /\ Len(asked) < MaxHops /\ Bound(url)
          /\ phase' = "ask" /\ target' = url
          /\ UNCHANGED <<given, asked, deadline, clock, result>>
       \/ (Len(asked) >= MaxHops \/ ~Bound(url)) /\ End("failed", None)

Receive(nonce) == phase = "wait" /\ End("done", nonce)

(* Mutant: without an answer the call goes on as if no nonce were needed.   *)
RefusedGoesOn == phase = "wait" /\ End("done", None)

(* No connection (safeDialContext among the reasons), another status, too   *)
(* long a body, no c_nonce in it.                                           *)
Refused == phase = "wait" /\ End("failed", None)

(* Mutant: a client without a timeout.                                      *)
NeverGivesUp == FALSE

TimedOut == phase = "wait" /\ clock >= deadline /\ End("failed", None)

Tick ==
    /\ phase = "wait" /\ clock < deadline
    /\ clock' = clock + 1
    /\ UNCHANGED <<given, phase, target, asked, deadline, result>>

Local == NoEndpoint \/ CheckEndpoint \/ Ask

Next ==
    \/ Local \/ Refused \/ TimedOut \/ Tick
    \/ \E url \in Urls : Redirect(url)
    \/ \E nonce \in Nonces : Receive(nonce)

Spec == Init /\ [][Next]_vars

(* The service computes and the clock runs; nobody need answer.             *)
FairSpec == Spec /\ WF_vars(Local) /\ WF_vars(Tick) /\ WF_vars(TimedOut)

-----------------------------------------------------------------------------
(* A chain of redirects never leaves the issuer the nonce is for, not even  *)
(* to come back: a nonce is its issuer's (CheckRedirect and the checks      *)
(* before the first request).                                               *)
AsksTheIssuer == \A i \in 1..Len(asked) : Bound(asked[i])

(* A fetch is over in time however slowly each redirect comes, and a chain  *)
(* of redirects has an end (client.Timeout, len(via)).                      *)
FetchInTime == clock <= Timeout /\ Len(asked) <= MaxHops

(* A fetch ends although nobody answers.                                    *)
FetchEnds == <>(phase \in {"done", "failed"})

-----------------------------------------------------------------------------
(* The one step that Issuance makes of this fetch: the stage of its call,   *)
(* the I/O due there, the nonce, and what the metadata say of the endpoint. *)
Stage == IF phase = "failed" THEN "failed" ELSE "proof"
DueNext == IF phase = "done" THEN "sign" ELSE "nonce"
Given == IF result = None THEN None ELSE "call"
Kind == IF endpoint = None THEN "none"
        ELSE IF OriginOf[endpoint] = issuer THEN "own" ELSE "other"

OneStep == INSTANCE Issuance WITH
    Calls <- {"call"}, RestCalls <- {}, Keys <- {}, NoKey <- None,
    Offers <- {}, NoOffer <- None, PreAuthOffers <- {}, MaxBatch <- 0,
    Issuers <- Origins, NoIssuer <- None, Configurations <- {}, Absent <- None,
    Identifiers <- {}, TermsOf <- <<>>, Docs <- {}, AuthDetails <- {},
    Policies <- {}, NoNonce <- None,
    offerParams <- <<>>, status <- <<>>, gone <- <<>>, notified <- {},
    key <- [call |-> None], accept <- [call |-> TRUE], offer <- [call |-> None],
    redeemed <- {}, issued <- <<>>, next <- <<>>, stored <- {},
    published <- <<>>, details <- <<>>, proof <- <<>>,
    signed <- {}, asked <- {}, passed <- {}, visited <- {},
    pc <- [call |-> Stage], step <- [call |-> DueNext],
    nonce <- [call |-> Given], doc <- [call |-> [nonce |-> Kind]]

(* Through all its redirects, refusals and timeouts the fetch is one step   *)
(* FetchNonce, or one I/O that fails: the call goes on with a nonce of its  *)
(* issuer, or without one just when the metadata name no endpoint; one of   *)
(* another origin and one that does not answer end the call.                *)
ImplementsFetchNonce ==
    /\ Stage = "proof" /\ DueNext = "nonce"
    /\ [][OneStep!FetchNonce("call") \/ OneStep!IOFails("call")]_<<Stage, DueNext,
                                                                  Given, Kind>>
=============================================================================
