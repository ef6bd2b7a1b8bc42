--------------------------- MODULE IssuerMetadata --------------------------
(***************************************************************************)
(* What an offer says, what an issuer's metadata says, and the pure checks *)
(* of internal/services/validation.go and processing.go on the two.  URIs  *)
(* appear by the verdict of validateRemoteURI and sameOrigin on them.      *)
(***************************************************************************)
EXTENDS Naturals, SequencesExt

CONSTANTS Issuers,         \* the credential issuer identifiers
          NoIssuer,        \* metadata without a credential_issuer
          Configurations,  \* credential configuration ids
          Absent,          \* metadata without configurations (a nil map)
          Identifiers,     \* credential identifiers of token responses
          None             \* an identifier or configuration id left out

ASSUME NoIssuerAssumption == NoIssuer \notin Issuers

(* An offer: its issuer, whether validateRemoteURI accepts the issuer's     *)
(* URI, and the configurations offered.                                     *)
Terms == [issuer : Issuers, safe : BOOLEAN, ids : Seq(Configurations)]

(* A metadata document.  endpoints: the credential endpoint is there, and   *)
(* it and the other endpoints pass validateRemoteURI.  nonce: no nonce      *)
(* endpoint, one of the issuer's own origin, one of another origin.         *)
Documents == [issuer : Issuers \union {NoIssuer}, endpoints : BOOLEAN,
              nonce : {"none", "own", "other"},
              configs : SUBSET Configurations \union {Absent}]

(* One of the authorization_details of a token response; identifier is the  *)
(* first of its credential_identifiers.                                     *)
Details == [identifier : Identifiers \union {None},
            configuration : Configurations \union {None}]

-----------------------------------------------------------------------------
ValidateCredentialIssuerURI(terms) == terms.safe

(* Mutant: the offered configurations are not looked up in the metadata.    *)
ValidateIssuerOnly(terms, d) ==
    /\ ValidateCredentialIssuerURI(terms)
    /\ d.endpoints
    /\ d.issuer \in {NoIssuer, terms.issuer}
    /\ terms.ids # <<>>

(* Metadata that names no issuer, or lists no configurations at all, passes.*)
ValidateOffering(terms, d) ==
    /\ ValidateCredentialIssuerURI(terms)
    /\ d.endpoints
    /\ d.issuer \in {NoIssuer, terms.issuer}
    /\ terms.ids # <<>>
    /\ d.configs # Absent => ToSet(terms.ids) \subseteq d.configs

(* The loop of fetchCredentialData over the authorization_details: the      *)
(* first credential identifier ends it, a configuration seen before that    *)
(* stays, and the offer's first configuration stands in if it finds neither.*)
SelectCredential(details, ids) ==
    LET named   == SelectInSeq(details, LAMBDA d : d.identifier # None)
        scanned == IF named = 0 THEN details ELSE SubSeq(details, 1, named - 1)
        config  == SelectInSeq(scanned, LAMBDA d : d.configuration # None)
    IN  [identifier |-> IF named = 0 THEN None ELSE details[named].identifier,
         configuration |-> IF config # 0 THEN scanned[config].configuration
                           ELSE IF named = 0 THEN ids[1] ELSE None]

(* What may be asked of the issuer: any identifier, and without one only a  *)
(* configuration of its metadata (a nil map holds none).                    *)
Requestable(chosen, d) ==
    \/ chosen.identifier # None
    \/ d.configs # Absent /\ chosen.configuration \in d.configs
=============================================================================
