------------------------ MODULE CredentialValidation -----------------------
(***************************************************************************)
(* ValidateCredentialResponse of internal/services/validation.go for one   *)
(* credential response: the credentials are inspected, put before the      *)
(* signer and held against the clock one after the other.  Only the signer *)
(* takes time, and at most the timeout of the HTTP client.                 *)
(***************************************************************************)
EXTENDS Integers, Sequences

CONSTANTS Issuers,    \* issuer identifiers of any kind
          DidWeb,     \* the pairs <<did, issuer>> of a did:web and its issuer
          None,       \* a claim is absent (or not of the type expected)
          Bad,        \* a date that does not parse
          CredentialResponses,  \* the responses an issuer may give
          Timeout,    \* the timeout of a verification request
          Tolerance   \* the clock skew tolerated for not-before dates

ASSUME TimeoutAssumption == Timeout \in Nat
ASSUME DatesAssumption == None \notin Int /\ Bad \notin Int /\ None # Bad
ASSUME ToleranceAssumption == Tolerance \in Nat

(* The credential issuer identifier of an exchange is a URL, never a DID.   *)
Urls == Issuers \ {p[1] : p \in DidWeb}

Dates == Int \union {None, Bad}

(* The vc claim of a JWT, if it has one.                                    *)
VcClaims == [issuer : Issuers \union {None}, credentialIssuer : Issuers \union {None},
             validFrom : Dates, validUntil : Dates]

(* An issued credential as validateIssuedCredential reads it.  complete: it *)
(* has the type, a subject and a proof of the right shape.  authentic is    *)
(* what the signer would say of it.                                         *)
Credentials == [form : {"jwt", "ldp", "other"}, complete : BOOLEAN,
                iss : Issuers \union {None}, issuer : Issuers \union {None},
                credentialIssuer : Issuers \union {None},
                exp : Int \union {None}, nbf : Int \union {None},
                validFrom : Dates, validUntil : Dates,
                vc : VcClaims \union {None},
                authentic : BOOLEAN]

ASSUME ResponsesAssumption == CredentialResponses \subseteq Seq(Credentials)

VARIABLES response,  \* the credentials of the response
          expected,  \* the credential issuer they were requested from
          index,     \* the credential the loop is at
          phase,     \* what is due for it, or the verdict on the response
          now,       \* the clock
          sentAt,    \* when the signer was asked last
          requests   \* the requests the signer has received

vars == <<response, expected, index, phase, now, sentAt, requests>>
given == <<response, expected>>

Current == response[index]

TypeOK ==
    /\ response \in CredentialResponses
    /\ expected \in Urls
    /\ index \in Nat \ {0}
    /\ phase \in {"inspect", "verify", "accepted", "rejected"}
    /\ phase \in {"inspect", "verify"} => index <= Len(response) + 1
    /\ phase = "verify" => index <= Len(response)
    /\ now \in Int /\ sentAt \in Int

Init ==
    /\ response \in CredentialResponses
    /\ expected \in Urls
    /\ index = 1
    /\ phase = "inspect"
    /\ now = 0 /\ sentAt = 0
    /\ requests = <<>>

-----------------------------------------------------------------------------
(* validFrom, validUntil and issuer are read from the vc claim if there is  *)
(* one, exp and nbf never.                                                  *)
Body(claims) == IF claims.vc = None THEN claims ELSE claims.vc

issuerFromClaims(claims) ==
    IF claims.iss # None THEN claims.iss ELSE Body(claims).issuer

credentialIssuerBound(claims, issuer) ==
    \/ issuer = expected
    \/ claims.credentialIssuer = expected
    \/ claims.vc # None /\ claims.vc.credentialIssuer = expected
    \/ <<issuer, expected>> \in DidWeb

validateCredentialTimes(claims, t) ==
    /\ claims.exp # None => t < claims.exp
    /\ claims.nbf # None => claims.nbf <= t + Tolerance
    /\ Body(claims).validFrom # None =>
          Body(claims).validFrom # Bad /\ Body(claims).validFrom <= t + Tolerance
    /\ Body(claims).validUntil # None =>
          Body(claims).validUntil # Bad /\ t < Body(claims).validUntil

(* What the code checks before it asks the signer.                          *)
WellFormed(credential) ==
    LET issuer == issuerFromClaims(credential)
    IN  \/ credential.form = "jwt" /\ issuer # None
        \/ /\ credential.form = "ldp" /\ issuer # None
           /\ credential.complete
           /\ credentialIssuerBound(credential, issuer)

(* Mutant: the signer is asked about the first credential every time.       *)
AskAboutFirst(i) == [credential |-> response[1], format |-> response[i].form]

(* The request of verifyCredentialWithSigner.                               *)
VerificationRequest(i) == [credential |-> response[i], format |-> response[i].form]

-----------------------------------------------------------------------------
Reject ==
    /\ phase' = "rejected"
    /\ UNCHANGED <<given, index, now, sentAt, requests>>

(* A response without credentials is empty or deferred: it is rejected.     *)
RejectEmpty ==
    /\ phase = "inspect" /\ response = <<>>
    /\ Reject

(* Mutant: a response without credentials passes the empty loop.            *)
AcceptEmpty ==
    /\ phase = "inspect" /\ index > Len(response)
    /\ phase' = "accepted"
    /\ UNCHANGED <<given, index, now, sentAt, requests>>

Accept ==
    /\ phase = "inspect" /\ response # <<>> /\ index > Len(response)
    /\ phase' = "accepted"
    /\ UNCHANGED <<given, index, now, sentAt, requests>>

(* validateJWTIssuedCredential and validateLDPIssuedCredential up to the    *)
(* call of the signer.                                                      *)
Inspect ==
    /\ phase = "inspect" /\ index <= Len(response)
    /\ \/ /\ WellFormed(Current)
          /\ phase' = "verify" /\ sentAt' = now
          /\ requests' = Append(requests, VerificationRequest(index))
          /\ UNCHANGED <<given, index, now>>
       \/ ~WellFormed(Current) /\ Reject

(* Mutant: the dates are checked along with the shape, before the signer    *)
(* is asked.                                                                *)
DatesBeforeSigner ==
    /\ phase = "verify"
    /\ \/ /\ requests[Len(requests)].credential.authentic
          /\ validateCredentialTimes(Current, sentAt)
          /\ phase' = "inspect" /\ index' = index + 1
          /\ UNCHANGED <<given, now, sentAt, requests>>
       \/ /\ \/ ~requests[Len(requests)].credential.authentic
             \/ ~validateCredentialTimes(Current, sentAt)
          /\ Reject

(* Mutant: the checks on the next credential are left out.                  *)
VerifiedUninspected ==
    /\ phase = "verify"
    /\ \/ /\ requests[Len(requests)].credential.authentic
          /\ validateCredentialTimes(Current, now)
          /\ index' = index + 1
          /\ UNCHANGED <<given, phase, now, sentAt, requests>>
       \/ /\ \/ ~requests[Len(requests)].credential.authentic
             \/ ~validateCredentialTimes(Current, now)
          /\ Reject

(* The signer answers what it was asked, and the dates are compared with    *)
(* the clock of the moment.                                                 *)
Verified ==
    /\ phase = "verify"
    /\ \/ /\ requests[Len(requests)].credential.authentic
          /\ validateCredentialTimes(Current, now)
          /\ phase' = "inspect" /\ index' = index + 1
          /\ UNCHANGED <<given, now, sentAt, requests>>
       \/ /\ \/ ~requests[Len(requests)].credential.authentic
             \/ ~validateCredentialTimes(Current, now)
          /\ Reject

(* The signer cannot be reached or answers with something else.             *)
SignerFails == phase = "verify" /\ Reject

(* Mutant: an HTTP client without a timeout, as http.DefaultClient is.      *)
WaitForever == FALSE

(* http.Client.Timeout: the request ends although nobody answers.           *)
TimedOut == phase = "verify" /\ now >= sentAt + Timeout /\ Reject

(* Time passes while the signer is waited for, up to the timeout.           *)
Tick ==
    /\ phase = "verify" /\ now < sentAt + Timeout
    /\ now' = now + 1
    /\ UNCHANGED <<given, index, phase, sentAt, requests>>

Local == RejectEmpty \/ Accept \/ Inspect

Next == Local \/ Verified \/ SignerFails \/ TimedOut \/ Tick

Spec == Init /\ [][Next]_vars

(* The service computes and the clock runs; the signer need not answer.     *)
FairSpec ==
    /\ Spec
    /\ WF_vars(Local) /\ WF_vars(Tick) /\ WF_vars(TimedOut)

-----------------------------------------------------------------------------
(* The period of a credential by its dates where the code reads them: a vc  *)
(* claim hides the validFrom and validUntil that stand beside it (Body).    *)
Starts(credential) == {credential.nbf, Body(credential).validFrom} \ {None}
Ends(credential) == {credential.exp, Body(credential).validUntil} \ {None}

InPeriod(credential, t) ==
    /\ \A d \in Starts(credential) : d # Bad /\ d - Tolerance <= t
    /\ \A d \in Ends(credential) : d # Bad /\ t < d

(* An accepted credential was within its period not long ago: since its     *)
(* dates are compared after its own signer call, the verdict on credential  *)
(* i is at most the remaining calls old, however slow the signer is.        *)
AcceptedRecently ==
    phase = "accepted" => \A i \in 1..Len(response) :
        \E t \in (now - (Len(response) - i) * Timeout)..now :
            InPeriod(response[i], t)

(* No credential rides on another's proof: the signer has vouched for each  *)
(* credential of an accepted response, and nothing else was sent to it that *)
(* had not passed the code's own checks (the loop of                        *)
(* ValidateCredentialResponse and the order of its checks).                 *)
AcceptedIsAuthentic ==
    /\ phase = "accepted" => \A i \in 1..Len(response) : response[i].authentic
    /\ \A i \in 1..Len(requests) : WellFormed(requests[i].credential)

(* A verdict is reached even if the signer never answers.                   *)
VerdictReached == <>(phase \in {"accepted", "rejected"})

-----------------------------------------------------------------------------
(* The one step that Clearance makes of this loop, of one call: where the   *)
(* call stands, and what the issuer gave it.  Valid says what it means for  *)
(* a credential of Clearance to be valid; the clock is one more reason for  *)
(* its step to fail.                                                        *)
Stage == [inspect |-> "validate", verify |-> "validate",
          accepted |-> "publish", rejected |-> "failed"][phase]

Valid(credential) == WellFormed(credential) /\ credential.authentic

Issued == [i \in 1..Len(response) |-> Valid(response[i])]

OneStep == INSTANCE Clearance WITH
    Calls <- {"call"}, RestCalls <- {}, Keys <- {}, NoKey <- None,
    Offers <- {}, NoOffer <- None, PreAuthOffers <- {}, MaxBatch <- 0,
    offerParams <- <<>>, status <- <<>>, gone <- <<>>,
    key <- [call |-> None], accept <- [call |-> TRUE], offer <- [call |-> None],
    redeemed <- {}, next <- [call |-> 1], stored <- {},
    pc <- [call |-> Stage], issued <- [call |-> Issued]

(* Seen from Clearance the loop, the signer and the clock are one step from *)
(* "validate", taken once: to "publish" only with a batch that is not empty *)
(* and valid throughout, to "failed" otherwise, and the batch stays what it *)
(* was.  So what the properties of the service say of a vetted batch they   *)
(* say of this code.                                                        *)
ImplementsOneStep ==
    /\ Stage = "validate"
    /\ [][OneStep!ValidateCredentialResponse("call")]_<<Stage, Issued>>

-----------------------------------------------------------------------------
(* README: "issuer-to-Credential-Issuer binding", and the test              *)
(* RejectsSDJWTIssuerMismatchBeforeSigner.                                  *)
AcceptedIsBound ==
    phase = "accepted" => \A i \in 1..Len(response) :
        credentialIssuerBound(response[i], issuerFromClaims(response[i]))
=============================================================================
