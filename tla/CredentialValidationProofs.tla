--------------------- MODULE CredentialValidationProofs --------------------
(***************************************************************************)
(* Proofs, for responses of any length and any timeout, of the safety      *)
(* properties of CredentialValidation.                                     *)
(***************************************************************************)
EXTENDS CredentialValidation, TLAPS

USE TimeoutAssumption, ToleranceAssumption, ResponsesAssumption, DatesAssumption

(* The loop is at a credential of the response, or just past the last one.  *)
LoopInv ==
    /\ response \in Seq(Credentials)
    /\ phase = "accepted" => index = Len(response) + 1
    /\ phase = "verify" => now \in sentAt..(sentAt + Timeout)

(* Credential i was in its period at most so long ago.                      *)
Recent(i, age) ==
    \E t \in Int : now - age <= t /\ t <= now /\ InPeriod(response[i], t)

(* How long the verdict on credential i has been waiting: a timeout for     *)
(* each later credential, and what the running request has taken.           *)
Age(i) == (index - 1 - i) * Timeout
          + (IF phase = "verify" THEN now - sentAt ELSE 0)

PeriodInv ==
    phase # "rejected" => \A i \in 1..(index - 1) : Recent(i, Age(i))

Asked == [credential : Credentials, format : {"jwt", "ldp", "other"}]

(* What the signer was asked, and that it has vouched for what was passed.  *)
SignerInv ==
    /\ requests \in Seq(Asked)
    /\ \A i \in 1..Len(requests) : WellFormed(requests[i].credential)
    /\ phase = "verify" => /\ Len(requests) > 0
                           /\ requests[Len(requests)].credential = response[index]
    /\ phase # "rejected" => \A i \in 1..(index - 1) : Valid(response[i])

LEMMA TypeInit == Init => TypeOK /\ LoopInv
  <1> SUFFICES ASSUME Init PROVE TypeOK /\ LoopInv
    OBVIOUS
  <1>1. response \in Seq(Credentials) /\ Len(response) \in Nat
    BY DEF Init
  <1> QED
    BY <1>1 DEF Init, TypeOK, LoopInv

LEMMA TypeStep == TypeOK /\ LoopInv /\ [Next]_vars => (TypeOK /\ LoopInv)'
  <1> SUFFICES ASSUME TypeOK, LoopInv, [Next]_vars PROVE (TypeOK /\ LoopInv)'
    OBVIOUS
  <1>0. Len(response) \in Nat
    BY DEF LoopInv
  <1> USE <1>0 DEF TypeOK, LoopInv, given, Reject
  <1>1. CASE Local
    BY <1>1 DEF Local, RejectEmpty, Accept, Inspect
  <1>2. CASE Verified
    BY <1>2 DEF Verified
  <1>3. CASE SignerFails \/ TimedOut
    BY <1>3 DEF SignerFails, TimedOut
  <1>4. CASE Tick
    BY <1>4 DEF Tick
  <1>5. CASE UNCHANGED vars
    BY <1>5 DEF vars
  <1> QED
    BY <1>1, <1>2, <1>3, <1>4, <1>5 DEF Next

LEMMA TypeCorrect == Spec => [](TypeOK /\ LoopInv)
  BY TypeInit, TypeStep, PTL DEF Spec

(* Theorem: the validation keeps its types, for any responses.              *)
THEOREM ValidationTypes == Spec => []TypeOK
  BY TypeCorrect, PTL

-----------------------------------------------------------------------------
(* The checks of the code and the period of the credential agree.           *)
LEMMA TimesAgree ==
    ASSUME NEW c \in Credentials, NEW t \in Int
    PROVE  validateCredentialTimes(c, t) <=> InPeriod(c, t)
  <1> DEFINE b == Body(c)
  <1>1. /\ c.exp \in Int \union {None} /\ c.nbf \in Int \union {None}
        /\ b.validFrom \in Dates /\ b.validUntil \in Dates
    BY DEF Credentials, VcClaims, Body
  <1> HIDE DEF b
  <1>2. validateCredentialTimes(c, t) <=>
          /\ c.exp # None => t < c.exp
          /\ c.nbf # None => c.nbf <= t + Tolerance
          /\ b.validFrom # None => b.validFrom # Bad /\ b.validFrom <= t + Tolerance
          /\ b.validUntil # None => b.validUntil # Bad /\ t < b.validUntil
    BY DEF validateCredentialTimes, b
  <1>3. InPeriod(c, t) <=>
          /\ c.exp # None => c.exp # Bad /\ t < c.exp
          /\ c.nbf # None => c.nbf # Bad /\ c.nbf - Tolerance <= t
          /\ b.validFrom # None => b.validFrom # Bad /\ b.validFrom - Tolerance <= t
          /\ b.validUntil # None => b.validUntil # Bad /\ t < b.validUntil
    BY DEF InPeriod, Starts, Ends, b
  <1> QED
    BY <1>1, <1>2, <1>3 DEF Dates

LEMMA PeriodStep ==
    TypeOK /\ LoopInv /\ PeriodInv /\ [Next]_vars => PeriodInv'
  <1> SUFFICES ASSUME TypeOK, LoopInv, PeriodInv, [Next]_vars,
                      phase' # "rejected", NEW i \in 1..(index' - 1)
               PROVE  Recent(i, Age(i))'
    BY DEF PeriodInv
  <1> USE DEF TypeOK, LoopInv, given
  <1>0. Len(response) \in Nat /\ index \in Nat
    OBVIOUS
  <1>1. CASE Local
    <2>1. /\ UNCHANGED <<response, index, now>>
          /\ phase = "inspect"
          /\ phase' = "verify" => sentAt' = now
      BY <1>1 DEF Local, RejectEmpty, Accept, Inspect, Reject
    <2>2. Age(i)' = Age(i)
      BY <2>1 DEF Age
    <2>3. Recent(i, Age(i))
      BY <2>1 DEF PeriodInv
    <2> QED
      BY <2>1, <2>2, <2>3 DEF Recent, InPeriod, Starts, Ends
  <1>2. CASE Verified
    <2>1. /\ UNCHANGED <<response, now>> /\ phase = "verify"
          /\ index' = index + 1 /\ phase' = "inspect"
          /\ validateCredentialTimes(response[index], now)
      BY <1>2 DEF Verified, Reject, Current
    <2>2. Age(i)' = (index - i) * Timeout
      BY <2>1 DEF Age
    <2>3. CASE i = index
      <3>1. InPeriod(response[i], now)
        BY <1>0, <2>1, <2>3, TimesAgree
      <3>2. Age(i)' = 0
        BY <2>2, <2>3
      <3>3. now \in Int /\ now' - Age(i)' <= now /\ now <= now'
        BY <2>1, <3>2
      <3>4. InPeriod(response'[i], now)
        BY <2>1, <3>1
      <3> QED
        BY <3>3, <3>4 DEF Recent, InPeriod, Starts, Ends
    <2>4. CASE i # index
      <3>1. i \in 1..(index - 1)
        BY <2>1, <2>4
      <3>2. PICK t \in Int : now - Age(i) <= t /\ t <= now
                             /\ InPeriod(response[i], t)
        BY <2>1, <3>1 DEF PeriodInv, Recent
      <3>3. Age(i) = (index - 1 - i) * Timeout + (now - sentAt)
        BY <2>1 DEF Age
      <3>4. (index - i) * Timeout = (index - 1 - i) * Timeout + Timeout
        BY <3>1
      <3>5. (index - 1 - i) * Timeout \in Int
        BY <3>1
      <3>6. now' - Age(i)' <= t /\ t <= now'
        BY <2>1, <2>2, <3>2, <3>3, <3>4, <3>5
      <3> QED
        BY <2>1, <3>2, <3>6 DEF Recent, InPeriod, Starts, Ends
    <2> QED
      BY <2>3, <2>4
  <1>3. CASE SignerFails \/ TimedOut
    BY <1>3 DEF SignerFails, TimedOut, Reject
  <1>4. CASE Tick
    <2>1. /\ UNCHANGED <<response, index, phase, sentAt>> /\ phase = "verify"
          /\ now' = now + 1
      BY <1>4 DEF Tick
    <2>2. PICK t \in Int : now - Age(i) <= t /\ t <= now
                           /\ InPeriod(response[i], t)
      BY <2>1 DEF PeriodInv, Recent
    <2>3. (index - 1 - i) * Timeout \in Int
      BY <2>1
    <2>4. now' - Age(i)' = now - Age(i) /\ Age(i) \in Int
      BY <2>1, <2>3 DEF Age
    <2>5. now' - Age(i)' <= t /\ t <= now'
      BY <2>1, <2>2, <2>4
    <2> QED
      BY <2>1, <2>2, <2>5 DEF Recent, InPeriod, Starts, Ends
  <1>5. CASE UNCHANGED vars
    <2>1. UNCHANGED <<response, index, phase, now, sentAt>>
      BY <1>5 DEF vars
    <2>2. Recent(i, Age(i))
      BY <2>1 DEF PeriodInv
    <2> QED
      BY <2>1, <2>2 DEF Recent, Age, InPeriod, Starts, Ends
  <1> QED
    BY <1>1, <1>2, <1>3, <1>4, <1>5 DEF Next

(* Theorem: for any timeout, tolerance and number of credentials, the       *)
(* verdict on an accepted credential is no older than the signer calls for  *)
(* the credentials behind it may take.                                      *)
THEOREM PeriodsHold == Spec => []AcceptedRecently
  <1>1. Init => PeriodInv
    BY DEF Init, PeriodInv
  <1>2. TypeOK /\ LoopInv /\ PeriodInv => AcceptedRecently
    <2> SUFFICES ASSUME TypeOK, LoopInv, PeriodInv, phase = "accepted",
                        NEW i \in 1..Len(response)
                 PROVE  \E t \in (now - (Len(response) - i) * Timeout)..now :
                            InPeriod(response[i], t)
      BY DEF AcceptedRecently
    <2>1. index = Len(response) + 1 /\ Len(response) \in Nat /\ now \in Int
      BY DEF LoopInv, TypeOK
    <2>2. Age(i) = (Len(response) - i) * Timeout /\ Age(i) \in Int
      BY <2>1 DEF Age
    <2>3. PICK t \in Int : now - Age(i) <= t /\ t <= now
                           /\ InPeriod(response[i], t)
      BY <2>1 DEF PeriodInv, Recent
    <2> QED
      BY <2>1, <2>2, <2>3
  <1> QED
    BY <1>1, <1>2, PeriodStep, TypeCorrect, PTL DEF Spec

-----------------------------------------------------------------------------
LEMMA SignerStep ==
    TypeOK /\ LoopInv /\ SignerInv /\ [Next]_vars => SignerInv'
  <1> SUFFICES ASSUME TypeOK, LoopInv, SignerInv, [Next]_vars PROVE SignerInv'
    OBVIOUS
  <1> USE DEF TypeOK, LoopInv, given
  <1>0. Len(response) \in Nat /\ index \in Nat
    OBVIOUS
  <1>v. UNCHANGED expected => \A c : WellFormed(c)' <=> WellFormed(c)
    BY DEF WellFormed, credentialIssuerBound
  <1>1. CASE Inspect /\ phase' = "verify"
    <2>1. /\ UNCHANGED <<response, expected, index>> /\ phase = "inspect"
          /\ index \in 1..Len(response) /\ WellFormed(response[index])
          /\ requests' = Append(requests, VerificationRequest(index))
      BY <1>0, <1>1 DEF Inspect, Current, Reject
    <2>2. response[index] \in Credentials
      BY <2>1
    <2>3. response[index].form \in {"jwt", "ldp", "other"}
      BY <2>2 DEF Credentials
    <2>4. /\ VerificationRequest(index).credential = response[index]
          /\ VerificationRequest(index) \in Asked
      BY <2>2, <2>3 DEF VerificationRequest, Asked
    <2>5. /\ requests' \in Seq(Asked) /\ Len(requests') = Len(requests) + 1
          /\ requests'[Len(requests')] = VerificationRequest(index)
          /\ \A j \in 1..Len(requests) : requests'[j] = requests[j]
          /\ Len(requests) \in Nat
      BY <2>1, <2>4 DEF SignerInv
    <2>6. \A j \in 1..Len(requests') : WellFormed(requests'[j].credential)
      BY <2>1, <2>4, <2>5 DEF SignerInv
    <2>7. (\A j \in 1..Len(requests) : WellFormed(requests[j].credential))'
      BY <2>1, <2>6, <1>v
    <2>8. (phase # "rejected" => \A j \in 1..(index - 1) : Valid(response[j]))'
      BY <2>1, <1>v DEF SignerInv, Valid
    <2>9. Len(requests') > 0 /\ requests'[Len(requests')].credential = response'[index']
      BY <2>1, <2>4, <2>5
    <2> QED
      BY <2>5, <2>7, <2>8, <2>9 DEF SignerInv
  <1>2. CASE Verified /\ phase' = "inspect"
    <2>1. /\ UNCHANGED <<response, expected, requests>> /\ phase = "verify"
          /\ index' = index + 1
          /\ requests[Len(requests)].credential.authentic
      BY <1>2 DEF Verified, Reject
    <2>2. Valid(response[index])
      BY <2>1 DEF SignerInv, Valid
    <2>3. \A j \in 1..index : Valid(response[j])
      BY <1>0, <2>1, <2>2 DEF SignerInv
    <2>4. (\A j \in 1..(index - 1) : Valid(response[j]))'
      BY <1>0, <1>v, <2>1, <2>3 DEF Valid
    <2>5. (\A i \in 1..Len(requests) : WellFormed(requests[i].credential))'
      BY <1>v, <2>1 DEF SignerInv
    <2> QED
      BY <1>2, <2>1, <2>4, <2>5 DEF SignerInv
  <1>3. CASE /\ UNCHANGED <<response, expected, index, requests>>
             /\ phase' # "verify" \/ phase = "verify"
             /\ phase' = "rejected" \/ phase # "rejected"
    BY <1>3, <1>v DEF SignerInv, Valid
  <1> QED
    BY <1>1, <1>2, <1>3
       DEF Next, Local, RejectEmpty, Accept, Inspect, Verified, SignerFails,
           TimedOut, Tick, Reject, vars

LEMMA SignerCorrect == Spec => []SignerInv
  <1>1. Init => SignerInv
    BY DEF Init, SignerInv
  <1> QED
    BY <1>1, SignerStep, TypeCorrect, PTL DEF Spec

(* Theorem: the signer has vouched for every accepted credential, and was   *)
(* asked about well-formed ones only.                                       *)
THEOREM AcceptedAuthentic == Spec => []AcceptedIsAuthentic
  <1>1. LoopInv /\ SignerInv => AcceptedIsAuthentic
    BY DEF LoopInv, SignerInv, Valid, AcceptedIsAuthentic
  <1> QED
    BY <1>1, SignerCorrect, TypeCorrect, PTL

-----------------------------------------------------------------------------
(* What a step shows of itself in Clearance: nothing, or a verdict.         *)
LEMMA VerdictStep ==
    ASSUME TypeOK, LoopInv, SignerInv, [Next]_vars
    PROVE  /\ UNCHANGED Issued
           /\ \/ UNCHANGED Stage
              \/ /\ Stage = "validate" /\ Stage' = "failed"
              \/ /\ Stage = "validate" /\ Stage' = "publish"
                 /\ DOMAIN Issued # {}
                 /\ \A i \in DOMAIN Issued : Issued[i]
  <1>1. UNCHANGED <<response, expected>>
    BY DEF Next, Local, RejectEmpty, Accept, Inspect, Verified, SignerFails,
           TimedOut, Tick, Reject, given, vars
  <1>2. UNCHANGED Issued
    BY <1>1 DEF Issued, Valid, WellFormed, credentialIssuerBound
  <1>3. /\ phase \in {"inspect", "verify"} => Stage = "validate"
        /\ phase' \in {"inspect", "verify"} => Stage' = "validate"
        /\ phase' = "accepted" => Stage' = "publish"
        /\ phase' = "rejected" => Stage' = "failed"
    BY DEF Stage
  <1>4. CASE Accept
    <2>1. /\ phase = "inspect" /\ phase' = "accepted"
          /\ response # <<>> /\ index > Len(response)
      BY <1>4 DEF Accept
    <2>2. Len(response) \in Nat /\ Len(response) # 0
      BY <2>1 DEF LoopInv
    <2>3. DOMAIN Issued = 1..Len(response)
      BY DEF Issued
    <2>4. \A i \in 1..Len(response) : Valid(response[i])
      BY <2>1, <2>2 DEF SignerInv, TypeOK
    <2>5. \A i \in DOMAIN Issued : Issued[i]
      BY <2>3, <2>4 DEF Issued
    <2>6. 1 \in DOMAIN Issued
      BY <2>2, <2>3
    <2> QED
      BY <1>2, <1>3, <2>1, <2>5, <2>6
  <1>5. CASE phase \in {"inspect", "verify"} /\ phase' \in {"inspect", "verify", "rejected"}
    BY <1>2, <1>3, <1>5
  <1>6. CASE phase' = phase
    BY <1>2, <1>6 DEF Stage
  <1> QED
    BY <1>4, <1>5, <1>6
       DEF Next, Local, RejectEmpty, Inspect, Verified, SignerFails, TimedOut,
           Tick, Reject, vars

(* Theorem: the loop over the credentials, with the signer and the clock,   *)
(* implements the step ValidateCredentialResponse of Clearance.             *)
THEOREM StepRefined == Spec => ImplementsOneStep
  <1>1. Init => Stage = "validate"
    BY DEF Init, Stage
  <1>2. ASSUME TypeOK, LoopInv, SignerInv, [Next]_vars
        PROVE  [OneStep!ValidateCredentialResponse("call")]_<<Stage, Issued>>
    <2>1. UNCHANGED OneStep!offeringVars /\ UNCHANGED OneStep!clearanceVars
      BY <1>2, VerdictStep DEF OneStep!offeringVars, OneStep!clearanceVars
    <2>2. ASSUME NEW s, Stage' = s
          PROVE  OneStep!Goto("call", s)
      BY <2>2 DEF OneStep!Goto
    <2>3. CASE UNCHANGED Stage
      BY <1>2, <2>3, VerdictStep
    <2>4. CASE Stage = "validate" /\ Stage' = "failed"
      BY <2>1, <2>2, <2>4
         DEF OneStep!ValidateCredentialResponse, OneStep!At, OneStep!Fail
    <2>5. CASE /\ Stage = "validate" /\ Stage' = "publish"
               /\ DOMAIN Issued # {}
               /\ \A i \in DOMAIN Issued : Issued[i]
      BY <2>1, <2>2, <2>5
         DEF OneStep!ValidateCredentialResponse, OneStep!At, OneStep!Items,
             OneStep!Vetted
    <2> QED
      BY <1>2, <2>3, <2>4, <2>5, VerdictStep
  <1> QED
    BY <1>1, <1>2, SignerCorrect, TypeCorrect, PTL DEF Spec, ImplementsOneStep
=============================================================================
