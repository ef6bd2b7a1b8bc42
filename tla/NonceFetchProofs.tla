-------------------------- MODULE NonceFetchProofs -------------------------
(***************************************************************************)
(* Theorems about the nonce fetch, for any URLs, timeout and limit.        *)
(***************************************************************************)
EXTENDS NonceFetch, TLAPS

Inv ==
    /\ endpoint \in Urls \union {None}
    /\ target = None \/ target \in Urls
    /\ asked \in Seq(Urls)
    /\ phase \in {"start", "ask", "wait", "done", "failed"}
    /\ deadline = Timeout /\ clock \in Nat
    /\ phase = "start" => target = endpoint /\ asked = <<>>
    /\ phase # "done" => result = None
    /\ phase \in {"ask", "wait"} => endpoint # None /\ Bound(endpoint)
    /\ phase = "ask" => target \in Urls /\ Bound(target) /\ Len(asked) < MaxHops
    /\ AsksTheIssuer
    /\ FetchInTime

LEMMA InitInv == Init => Inv
BY UrlsAssumption, LimitsAssumption DEF Init, Inv, AsksTheIssuer, FetchInTime

(* The only step that asks keeps to the issuer and to the limit.            *)
LEMMA AskInv ==
    ASSUME Inv, Ask
    PROVE  Inv'
<1>1. asked' \in Seq(Urls) /\ Len(asked') = Len(asked) + 1
  BY DEF Ask, Inv
<1>2. \A i \in 1..Len(asked') : Bound(asked'[i])
  BY DEF Ask, Inv, AsksTheIssuer
<1>3. Len(asked') <= MaxHops
  BY <1>1, LimitsAssumption DEF Ask, Inv
<1>4. AsksTheIssuer'
  BY <1>2 DEF AsksTheIssuer, Bound, Ask, given
<1>5. endpoint # None /\ (Bound(endpoint))'
  BY DEF Ask, Inv, Bound, given
<1> QED
  BY <1>1, <1>3, <1>4, <1>5, LimitsAssumption DEF Ask, Inv, FetchInTime, given

LEMMA NextInv == Inv /\ [Next]_vars => Inv'
<1> SUFFICES ASSUME Inv, [Next]_vars PROVE Inv'
  OBVIOUS
<1> USE LimitsAssumption, UrlsAssumption
        DEF Inv, AsksTheIssuer, FetchInTime, Bound, given
<1>1. CASE NoEndpoint
  BY <1>1 DEF NoEndpoint, End
<1>2. CASE CheckEndpoint
  <2>1. CASE Bound(endpoint) /\ phase' = "ask"
    <3>1. target \in Urls /\ target = endpoint /\ Len(asked) = 0
      BY <1>2 DEF CheckEndpoint
    <3> QED
      BY <1>2, <2>1, <3>1 DEF CheckEndpoint, End
  <2>2. CASE ~Bound(endpoint) /\ End("failed", None)
    BY <2>2 DEF End
  <2> QED
    BY <1>2, <2>1, <2>2 DEF CheckEndpoint
<1>3. CASE Ask
  BY <1>3, AskInv
<1>4. ASSUME NEW url \in Urls, Redirect(url) PROVE Inv'
  BY <1>4 DEF Redirect, End
<1>5. ASSUME NEW nonce \in Nonces, Receive(nonce) PROVE Inv'
  BY <1>5 DEF Receive, End
<1>6. CASE Refused \/ TimedOut
  BY <1>6 DEF Refused, TimedOut, End
<1>7. CASE Tick
  BY <1>7 DEF Tick
<1>8. CASE UNCHANGED vars
  BY <1>8 DEF vars
<1> QED
  BY <1>1, <1>2, <1>3, <1>4, <1>5, <1>6, <1>7, <1>8 DEF Next, Local

LEMMA Invariance == Spec => []Inv
BY InitInv, NextInv, PTL DEF Spec

(* No request of a fetch leaves the origin of the issuer.                   *)
THEOREM IssuerAsked == Spec => []AsksTheIssuer
<1>1. Inv => AsksTheIssuer
  BY DEF Inv
<1> QED
  BY <1>1, Invariance, PTL

(* A fetch keeps to its timeout and to its number of requests.              *)
THEOREM FetchedInTime == Spec => []FetchInTime
<1>1. Inv => FetchInTime
  BY DEF Inv
<1> QED
  BY <1>1, Invariance, PTL

-----------------------------------------------------------------------------
(* What a step shows of itself in Issuance: nothing, or the end.            *)
LEMMA EndStep ==
    ASSUME Inv, [Next]_vars
    PROVE  /\ UNCHANGED Kind
           /\ \/ UNCHANGED <<Stage, DueNext, Given>>
              \/ /\ Stage = "proof" /\ Stage' = "failed"
                 /\ UNCHANGED <<DueNext, Given>>
              \/ /\ Stage = "proof" /\ Stage' = "proof"
                 /\ DueNext = "nonce" /\ DueNext' = "sign"
                 /\ \/ Kind = "none" /\ Given' = Given
                    \/ Kind = "own" /\ Given' = "call"
<1>1. UNCHANGED given
  BY DEF Next, Local, NoEndpoint, CheckEndpoint, Ask, Refused, TimedOut, Tick,
         Redirect, Receive, End, given, vars
<1>2. UNCHANGED Kind
  BY <1>1 DEF Kind, given
<1>3. CASE phase = "start" /\ endpoint = None /\ End("done", None)
  BY <1>2, <1>3 DEF Inv, End, Stage, DueNext, Given, Kind
<1>4. ASSUME NEW n \in Nonces, Receive(n)
      PROVE  /\ Stage = "proof" /\ Stage' = "proof"
             /\ DueNext = "nonce" /\ DueNext' = "sign"
             /\ Kind = "own" /\ Given' = "call"
  BY <1>4, NoncesAssumption
     DEF Inv, Receive, End, Bound, Stage, DueNext, Given, Kind
<1>5. CASE phase \in {"start", "ask", "wait"} /\ End("failed", None)
  BY <1>2, <1>5 DEF Inv, End, Stage, DueNext, Given
<1>6. CASE /\ result' = result
           /\ \/ phase' = phase
              \/ phase \in {"start", "ask", "wait"} /\ phase' \in {"ask", "wait"}
  BY <1>2, <1>6 DEF Stage, DueNext, Given
<1> QED
  BY <1>2, <1>3, <1>4, <1>5, <1>6
     DEF Next, Local, NoEndpoint, CheckEndpoint, Ask, Refused, TimedOut, Tick,
         Redirect, vars

(* The fetch with its redirects, checks and timeout implements the step     *)
(* FetchNonce of Issuance, or fails as an I/O there may.                    *)
THEOREM FetchRefined == Spec => ImplementsFetchNonce
<1>1. Init => Stage = "proof" /\ DueNext = "nonce"
  BY DEF Init, Stage, DueNext
<1>2. ASSUME Inv, [Next]_vars
      PROVE  [OneStep!FetchNonce("call") \/ OneStep!IOFails("call")]_<<Stage,
                 DueNext, Given, Kind>>
  <2> USE <1>2
  <2>1. UNCHANGED OneStep!serviceVars /\ UNCHANGED [call |-> [nonce |-> Kind]]
    BY EndStep DEF OneStep!serviceVars, OneStep!offeringVars, OneStep!clearanceVars
  <2>2. CASE UNCHANGED <<Stage, DueNext, Given>>
    BY <2>2, EndStep
  <2>3. CASE /\ Stage = "proof" /\ Stage' = "failed"
             /\ UNCHANGED <<DueNext, Given>>
    <3>1. OneStep!Fail("call")
      BY <2>3 DEF OneStep!Fail, OneStep!Goto
    <3> QED
      BY <2>1, <2>3, <3>1
         DEF OneStep!IOFails, OneStep!NothingDone, OneStep!callData,
             OneStep!offeringVars
  <2>4. CASE /\ Stage = "proof" /\ Stage' = "proof"
             /\ DueNext = "nonce" /\ DueNext' = "sign"
             /\ \/ Kind = "none" /\ Given' = Given
                \/ Kind = "own" /\ Given' = "call"
    <3>1. OneStep!Due("call", "proof", "nonce")
      BY <2>4 DEF OneStep!Due, OneStep!At
    <3>2. OneStep!Then("call", "sign")
      BY <2>4 DEF OneStep!Then, OneStep!callVars
    <3> QED
      BY <2>1, <2>4, <3>1, <3>2 DEF OneStep!FetchNonce
  <2> QED
    BY <2>2, <2>3, <2>4, EndStep
<1> QED
  BY <1>1, <1>2, Invariance, PTL DEF Spec, ImplementsFetchNonce
=============================================================================
