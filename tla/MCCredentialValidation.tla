----------------------- MODULE MCCredentialValidation ----------------------
(* Credentials for TLC.  A unit of time is five seconds, so that a signer   *)
(* call may take two and not-before dates are tolerated for six.            *)
EXTENDS CredentialValidation

CONSTANTS i1, i2, did1

Binding == {<<did1, i1>>}

Jwt == [form |-> "jwt", complete |-> FALSE, iss |-> i1, issuer |-> None,
        credentialIssuer |-> None, exp |-> None, nbf |-> None,
        validFrom |-> None, validUntil |-> None, vc |-> None, authentic |-> TRUE]
Ldp == [Jwt EXCEPT !.form = "ldp", !.complete = TRUE, !.iss = None,
                   !.issuer = did1]

Nested(from, until) == [issuer |-> i2, credentialIssuer |-> i1,
                        validFrom |-> from, validUntil |-> until]

Timed ==
    {[Jwt EXCEPT !.exp = e] : e \in 0..4}
    \union {[Jwt EXCEPT !.nbf = n] : n \in {6, 7, 9}}
    \union {[Jwt EXCEPT !.exp = 3, !.validUntil = 9, !.vc = Nested(7, 2)]}
    \union {[Ldp EXCEPT !.validFrom = 8, !.validUntil = u] : u \in {3, 5}}

Shaped ==
    {[Jwt EXCEPT !.form = "other"], [Jwt EXCEPT !.iss = None],
     [Jwt EXCEPT !.authentic = FALSE], [Ldp EXCEPT !.complete = FALSE],
     [Ldp EXCEPT !.issuer = i2], [Ldp EXCEPT !.authentic = FALSE],
     [Ldp EXCEPT !.vc = Nested(None, None)],
     [Ldp EXCEPT !.validFrom = Bad], [Jwt EXCEPT !.validUntil = Bad]}

Batches(S) == UNION {[1..n -> S] : n \in 0..3}
AllBatches == Batches(Timed) \union Batches({Jwt, Ldp} \union Shaped)
DoubtfulBatches == Batches({Jwt, Ldp, [Jwt EXCEPT !.iss = i2]})
=============================================================================
