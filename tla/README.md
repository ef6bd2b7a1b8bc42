# A formal model of the OID4VCI credential retrieval service

TLA+ modules, model-checking configurations and proofs for the service in this
repository. All paths below are relative to the repository.

## 1. The system

The service is the wallet side of OpenID for Verifiable Credential Issuance. It
receives credential offers, checks and keeps them, tells the rest of the wallet,
waits for the holder's decision, and on acceptance fetches the credentials and
hands them to a storage service. Several replicas may run; they share one
Cassandra table and one NATS queue group.

| part | source | state it keeps | operations |
|---|---|---|---|
| offerings table | `internal/services/storage.go`, `internal/migration/cql/V001__create_offerings_table.cql` | one row per request id: offer, metadata, status, each column with its own time to live | `StoreOffering`, `GetOfferings`, `deleteRejectedOffering`, `updateOfferingStatus` |
| intake | `internal/services/processing.go` | none | `ProcessOffering`: resolve, vet, store, `notifyRetrieval` |
| clearance | `internal/services/storage.go` | none | `ClearOffering`: look up, then reject or accept |
| retrieval | `internal/services/processing.go` | none | `fetchCredentialData`: metadata, token, nonce, holder binding, credential request |
| validation | `internal/services/validation.go` | none | `ValidateOffering`, `ValidateHolderBinding`, `ValidateCredentialResponse` |
| credential storage | `internal/services/storing.go` | the loop over a batch | `StoreCredential`: one NATS message per credential |
| event handling | `internal/messaging/messaging.go` | the subscription | `handleMessage`: offering and acceptance events; errors are ignored |
| REST | `internal/rest/rest.go` | none | list, retrieve, clear |
| schema migration | `internal/migration/migration.go` | table `schema_migrations` | `Run` at start; `splitCQLStatements` |
| policies | `internal/opa/opa.go` | none | `GetPolicyResult` for an offer and for metadata, if configured |
| start-up | `main.go` | the notification client | session, migrations, subscription, notification client, HTTP server |
| surroundings | not in the repository | - | authorization server (spends codes), issuer, signer, storage service, NATS, Cassandra |

Calls do not talk to each other. They interact through the row (read once at
the start of a clearance, written without any condition at its end), through
the issuer (a pre-authorized code is good once), and through messages.

What is hard about it:

* any number of calls for one row are under way at once, on any replica, and
  the row is not read again after the lookup: it may have been rejected, have
  expired or have been overwritten when its status is written;
* every statement is an unconditional upsert or delete, so a late write revives
  a row, and columns expire one by one;
* an acceptance is a chain of I/Os to five parties, each of which may fail,
  or succeed and be reported as failed, and a replica may stop between any two;
  nothing is undone and nothing is resumed;
* events are delivered in any order, may be sent again, and their failures are
  not reported to anybody;
* what intake has checked (URI, policies, metadata) is not checked again at
  acceptance, which may be days later and fetches the metadata anew;
* the signer is asked over a shared channel, once for a proof and once per
  credential, and takes its time: its answers may be another call's, and dates
  go stale while it is waited for;
* a replica takes events before it is completely started.

What makes it correct:

* a row is marked accepted only when the whole batch has been sent to storage;
* a batch that contains an invalid credential leaves no trace;
* one offer never leads to two stored batches;
* an announced offering can be found;
* a code is spent, and an issuer contacted, only for an offer that went through
  every gate of the intake; what the intake accepts can be redeemed;
* a call spends the nonce it was given, and its proof goes to the issuer of the
  offer as long as the metadata name the issuer that was vetted;
* an accepted credential is authentic and was valid a bounded time ago;
* a replica that serves has its schema, and a clean migration was executed, as
  far as the replicas that raced for it have the same file;
* a file is cut into the statements it consists of;
* a call ends, or hangs at a party without a deadline and nowhere else; a row
  that has expired in part becomes readable again.

## 2. Modules

```
Offerings              the table: columns, statements, expiry
  Calls                the calls under way: stage, row, offer; outcomes of an I/O
    Processing         ProcessOffering
    Clearance          ClearOffering, fetchCredentialData, StoreCredential; issuer
      RetrievalService entry points, crashes, expiry; Spec; properties
OfferingLifecycle      the abstract specification
MCRetrievalService     instances for TLC
MCTraffic              the same with calls that keep arriving
RetrievalServiceProofs theorems

IssuerMetadata         what offers and metadata say; the pure checks on them
  Issuance             RetrievalService with every I/O of intake and retrieval
MCIssuance             instances for TLC
IssuanceProofs         theorems

CredentialValidation   one run of ValidateCredentialResponse: signer and clock
MCCredentialValidation instances for TLC
CredentialValidationProofs  theorems

NonceFetch             one run of fetchCredentialNonce: redirects and timeout
MCNonceFetch           instance for TLC
NonceFetchProofs       theorems

Migration              schema migrations of replicas that start together
  Startup              main around them, and the offerings that arrive meanwhile
MCStartup              instance for TLC
MigrationProofs, StartupProofs  theorems

CqlText                the tokens of a CQL file and the statements they make
  CqlTokens            splitting token by token: the abstract specification
  CqlSplit             splitCQLStatements, rune by rune
MCCqlSplit             instance for TLC
CqlTokensProofs, CqlSplitProofs  theorems
```

**Offerings.** `Keys` are the request ids of one tenant and group, the unit that
`GetOfferings` lists. The columns that `StoreOffering` writes in one statement
are one variable, `offerParams`; `status` is another because
`updateOfferingStatus` writes it alone. A row exists while one of its columns
does. `Decodes` is `buildOfferingRow`: base64 accepts the empty string that
gocql scans from a null column, `json.Unmarshal` does not. `Unreadable` is the
loop of `getOfferings`, which gives up on the first row that does not decode.
`gone` is a history variable: an offering that was there was deleted or has
expired; it appears in properties only. Expiry is an action per row: the columns
of `StoreOffering` go together, with the status if nobody has rewritten it
since; a rewritten status stays and goes later. `UPDATE` leaves no row marker in
Cassandra, so a row without columns is no row.

**Calls.** One process per request or event: gin runs a goroutine per request,
NATS events are handled by whichever replica gets them. `pc[c]` names the I/O
the call is about to do, so that everything between two I/Os is one step. `Exec`
gives a statement its three outcomes: applied and reported, applied and reported
as an error, not applied. Each call is one-shot; the set `Calls` is the bound.

**Processing.** `VetOffering` stands for all checks of an offer; they change
nothing and any of them may fail. `StoreOffering` and `NotifyRetrieval` are the
two I/Os with effect. The check for empty ids sits in `StoreOffering`, after the
vetting, and so it does in the model (`NoKey`).

**Clearance.** `LookupOffering` (id guards and `getOfferings`; the status is not
looked at) copies the offer. A rejection deletes the row. An acceptance goes
through `GetToken` (the code is spent, perhaps although the call fails),
`HolderBinding` (nonce, signer, check of the proof), `RequestCredential` (the
issuer issues a batch; it may be lost), `ValidateCredentialResponse` (the whole
batch), `StoreCredential` (one message per step; the first error ends the call)
and `UpdateOfferingStatus`. The issuer and the authorization server are
external: `redeemed` and `issued` are what they remember. A credential is
represented by whether `validateIssuedCredential` accepts it; an empty batch is
a deferred response.

**RetrievalService.** Entry points for events (any id, any order, any number) and
for REST requests (`HandleRetrieval` draws a fresh id), requests and events that
are dropped, `Crash` of a call at any stage, expiry. A crash of a replica is a
crash of some set of calls; crashing calls one by one includes that.

**OfferingLifecycle.** What the service promises, without calls or failures:
received, then delivered, then marked accepted; the mark may be lost. The
refinement maps *received* to "stored, and kept unless rejected or expired",
*delivered* to "some call of this key has sent every credential it was issued"
and *accepted* to the status column.

**Migration.** Stands alone: migrations end before the service begins. One
process per replica; `pc[r]` names the query of `applyMigration` that is due
(`ReadState`, `MarkDirty`, `ExecStatement` once per statement, `MarkClean`), and
`mark` and `checksum` are the columns of `schema_migrations`. The reading of a
row and the INSERT are two steps, so two replicas may apply a version at once
and overwrite each other's marks. `Fault` is a query that fails (applied or not),
a file that does not parse, the timeout of `Run`, or a replica that stops: all of
them end in `exited`, from where only the deployment's `Restart` leads back to the
loop, at version 1. `executed` records what was executed; statements are idempotent, as
`CREATE TABLE IF NOT EXISTS` is. A build has whatever positive versions its files
are named for, with or without gaps; `loadMigrations` sorts them, and
`NextVersion` is the least of the later ones. The code compares checksums when it
reads a row, and only then: replicas of two builds with different files for one
version that find no row together both execute, the later INSERT overwrites the
checksum, and the row may turn clean with the checksum of a file that nobody
executed, or let a replica serve whose own file was not. `contested` (history)
holds the versions whose row was overwritten with another file, and `HasVersion`
is what is left: a replica has its own file of a version, or the version is
contested and some build's file is complete. For an uncontested version the
properties speak of the replica's own file and of the recorded one.

**IssuerMetadata.** Offers and metadata documents as records of what the checks
tell apart: a URI is represented by the verdict of `validateRemoteURI` on it, a
nonce endpoint by whether its origin is the issuer's. Metadata without a
`credential_issuer` or without configurations pass `ValidateOffering`, as in the
code.

**Issuance.** Extends `RetrievalService`: the stages `vet`, `token`, `proof` and
`request` are taken apart into their I/Os (`step[c]`), the other stages are those
of `RetrievalService`. `published` is what each issuer serves now and changes at
any time (`Republish`); intake and acceptance read it separately into `doc`
(`getIssuerMetadata`; the second attempt it makes with DISABLETLS is not a step of
its own, as a failed first one changes nothing). At
acceptance the row's offer is checked for grants and ids, never against the new
metadata, as in `fetchCredentialData`. The code is spent in `RequestToken`; that
the metadata name an issuer, that the nonce endpoint is the issuer's own and
that the configuration is known is found out later. The signer answers with a
proof it has made, for this call (`SignProof`) or for another
(`SignerMixesUp`). A failing I/O may have done its part (`LostAnswer`).
`passed`, `visited` and `asked` are history variables for the properties;
`visited` is of requests for metadata, and not of the fetch of an offer that came
by reference, which `GetOfferParameters` makes before any check
(`processing.go:28`).
`ImplementsService` is the specification of `RetrievalService` as a property:
what is proved there holds of the exchange in detail.

**CredentialValidation.** One response and the loop over its credentials. A
credential is inspected (`WellFormed`; JWT and LDP differ as in the code), put
before the signer, and its dates are compared with the clock when the answer is
there. A `vc` claim hides dates beside it from the code, and from `InPeriod`. Only
waiting for the signer takes time, at most `Timeout` (`http.Client.Timeout`). `validFrom` and `validUntil` are read from the `vc`
claim where there is one, `exp` and `nbf` never (`Body`). `ImplementsOneStep`
maps a run of it to the single step `ValidateCredentialResponse` of `Clearance`:
`Valid` is what a valid credential of `Clearance` is, and the clock is one of
the reasons for which that step may fail.

**NonceFetch.** `FetchNonce` of `Issuance` looked at closely: a chain of
redirects, each checked like the first URL, at most three requests, one timeout
for all of them. `ImplementsFetchNonce` says that the whole of it is one step
`FetchNonce` of `Issuance`, or an I/O there that fails.

**Startup.** Extends `Migration`: a replica whose `Run` has returned subscribes
in a goroutine, creates the notification client, listens. Events reach it as
soon as the subscription is open, requests when it listens. `SubCtx` may return:
with an error it ends the process, without one that is logged and the replica
goes on without events (`SubscriptionHandled`, `messaging.go:82`). `Stop` is every
end of the process (`os.Exit` of the goroutine included); it aborts the calls of
the replica and clears its variables. The package variable `notifier` is assigned
(`main.go:83`) while handlers may be running already (`main.go:80`): the zero client
returns an error and the call fails with its offering stored. Of a call that has
ended only what a property asks for is kept (`Idle`). Migrations are taken to be
enabled, which is the default.

**CqlText, CqlTokens, CqlSplit.** `CqlSplit` is the scanner, one loop iteration
per step over the runes of a file. `CqlText` says what it should return: tokens,
each given by the first place where it may end, and the kept runes between the
separators. A block comment is removed without leaving a blank, by the code and
by the reference: `a/**/b` becomes one word. `CqlTokens` stands between the two.
It takes a file token by token and collects as it goes, but never looks for
anything but the end of a token. The scanner knows less: it looks one rune ahead
and notices a missing end only at the end of the file. So the refinement maps a
scanner that is inside a token to one that has already read it (`TokenAt`,
`TokenCurrent`), and one inside a token without an end to a refusal (`Lost`).

## 3. Runs

| run | instance | question |
|---|---|---|
| `safety` | 2 rows, 2 offers (one without a code), 1 REST call, 2 events, batches up to 2 | types; mark implies complete batch; nothing of an invalid batch; announced implies findable; is `OfferingLifecycle` implemented? |
| `liveness` | 1 row, 1 offer, 2 events at a time, batches up to 2; no end of calls and codes | does a call end, or where may it hang? does a row that expired in part become readable again? |
| `batch_safe` (violation) | 1 row, 2 events, batches up to 2 | is a batch stored as a whole or not at all? |
| `listable` (violation) | 2 rows, 3 events | can a group that holds an offering be listed? |
| `rolling_update` | 3 replicas of 3 builds (versions and files 1:f1 2:f2, 1:f1, 2:f3), 2 statements per file, 1 offering | has a serving replica its schema, is a clean row true, is the order kept? does only a fault leave a row dirty for good? does a call find its schema and its notification client? do all replicas come to serve? |
| `issuance_gates` | 2 calls, 1 row, 3 offers (unsafe URI; no code), 5 documents, both policies | is a code spent or an issuer contacted past a gate? can what was vetted be requested? is `RetrievalService` implemented? |
| `issuance_proofs` | a past intake, 2 calls, 2 stored rows, 2 issuers, 2 documents, batches up to 1 | is the nonce given the one that is sent, a proof addressed to the issuer of the offer? can an offer's credentials be stored by two calls? |
| `offer_binding` (violation) | 2 calls, 1 row, 2 issuers, 3 documents, batches up to 1 | are stored credentials from metadata that name the offer's issuer? |
| `credentials` | responses of up to 3 credentials, of 11 combinations of dates or of 11 shapes | how old can a verdict on a credential be? is each accepted one vouched for? is there a verdict? is it the one step of `Clearance`? |
| `credential_bound` (violation) | responses of up to 3 of 3 shapes | is an accepted credential bound to its issuer? |
| `nonce_fetch` | 4 URLs (one unsafe, one foreign), timeout 4, 3 requests | does a fetch stay with its issuer, keep its time, end? is it the one step of `Issuance`? |
| `cql_split` | every text of up to 5 of 8 runes | is a file cut where its tokens say, token by token and as a whole? |

The bounds. A race about a row needs the call that stores it and two clearances:
three calls. Accepting one offer that is stored under two keys needs two calls and
rows of earlier days (`issuance_proofs`);
that an offering is sent again between two clearances is left to the proof of the
refinement, which bounds nothing. Two rows are enough for
one row to spoil the listing of another and for two rows to share an offer. A
batch of two has a first and a last credential and an invalid one next to a
valid one; the proofs remove the bound. Calls of one kind and keys are
interchangeable, so the safety runs use symmetry; the liveness run does not.
Deadlock is not checked: when all calls have ended and all columns have expired
the model stops, as the service idles. `liveness` never stops: a call that has
ended makes room for the next one (`NextCall`), and the offer can be accepted again
and again (`NextCode`), so that marks that renew a status may overlap for ever.

For migrations, two replicas race about a row and the third comes late; two
versions have an order; two statements leave a file half executed. The number of
restarts is not bounded. In `rolling_update` one build lacks version 1, so that
version is applied after a later one of another build, and two builds have
different files for version 2, so that its row is contested; without `contested`
and for all builds' versions in one order the properties are violated in it.

For the exchange, one offer without a code, one with an unsafe URI and one
proper one meet documents that differ from the good one in one respect each.
`issuance_proofs` starts from a state after an intake (`StoredSpec`): offer `o1` has
been vetted and stored, each other row holds `o1` or `o2`, and what it needs are two
acceptances at once, with proofs that the signer may mix up and a code that only
one of them may spend.
In `credentials` a unit of time is five seconds:
the timeout is 2 and the tolerance for not-before dates 6, which is small enough
to have dates on both sides of every boundary within the longest run of three
signer calls. Five runes hold a closed block comment with a rune beside it, a
string with a doubled quote and an unterminated one of each; no token needs more.

Fairness. `IOReturns` says that an I/O returns, with an answer or an error, where
something makes it: the queries of gocql, which have a timeout, publishing, which
waits for nobody, and the signer's verification, whose HTTP client has a timeout.
Nothing is assumed of the stages of `Unbounded`: `GetOfferParameters`,
`GetIssuerMetadata`, the policies, `GetToken` and `CredentialRequest` are given no
deadline by the code, and the signer is asked for a proof with
`context.Background()` (`processing.go:207`). So `CallsEnd` does not say that a call
ends, but that it can hang there only. Nothing is assumed about arrivals, crashes
or the choice between success and failure. In `liveness`, time to live passes, but
every mark starts that of the status again: a row expires, or it is marked for
ever (`TrafficSpec`). `RowRecovers` holds because the lookup lets no acceptance pass
that finds the row half expired, so the marks of such a row are those of the calls
under way. It does not extend to the group: with two rows, one may always be half
expired when the other is not. `StartupFairSpec` says that the steps of `main` and of its
goroutine are taken and that the deployment restarts an exited replica; nothing
is assumed about offerings, nor that a subscription lasts, and `AllServe` counts a
replica whose subscription has ended as one that serves requests. `AllServe` has two premises: faults cease, and no
version stays dirty, for after a fault between the dirty and the clean mark no
replica starts until somebody repairs the row, as the error message of
`applyMigration` says. It does not promise anything for a replica whose build
has another file than the one recorded: the checksum keeps it from starting.
`FairSpec` of `CredentialValidation` and of `NonceFetch` says that the service
computes and the clock runs; that a silent signer or endpoint is given up on is
the timeout of the HTTP client and not an assumption.

What the violation runs show:

* `batch_safe`: two credentials are issued and validated, the first is published,
  publishing the second fails. `StoreCredential` returns, the first stays in the
  storage service, and the code has been spent, so the second is lost. The
  README promises "batch-safe storage of every returned credential".
* `listable`: an offering is accepted, its columns expire, the younger status
  column does not. A second offering of the group is stored. Listing the group
  fails until the status expires, because the left-over row does not decode. The
  same state arises at once when an acceptance is under way while the row is
  rejected: the status update re-creates it. It cannot be cleared either, since
  the lookup of a clearance fails on it.
* `credential_bound`: an SD-JWT whose issuer is not the credential issuer is
  accepted; the binding is checked for LDP credentials only, although a test
  expects it for both.
* `offer_binding`: an offer is vetted, and then the issuer's metadata come to name
  another `credential_issuer` (or named none before). The acceptance fetches the
  metadata anew and compares them with nothing, so the proof is addressed to the
  issuer that the metadata name, sent to the credential endpoint they give, and
  the credentials are stored. The README promises "exact binding between the offer
  and the issuer metadata". `VettedBindsProof` says what holds: the proof is for
  the offer's issuer if the name has not changed.

Other differences between documentation and code, met while modelling and not
the subject of a run:

* the request may name both an identifier and a configuration: the loop has
  stored the configuration of one detail when it finds the identifier of a later
  one (`processing.go:306`; `README.md:132` says "or");
* metadata that names no issuer or no configurations passes `ValidateOffering`
  (`validation.go:86`, `97`; `README.md:94` lists both checks) and is refused
  only after the code is spent;
* nothing reads a credential's status (`README.md:137` lists revocation);
* verification requests carry no tenant headers (`validation.go:283`; the test at
  `validation_test.go:225` expects them);
* an event that is taken between the opening of the subscription and
  `CreateOtherClients` is stored and announced to nobody (`main.go:80`, `83`;
  `README.md:18`). `ClientMissedOnlyEarly` says that this is the only way to miss
  the client; an offering stays unannounced too if the publication fails or the
  replica stops after the offering was stored, and nothing takes it up;
* a subscription that returns without an error leaves a replica without events
  (`messaging.go:82`).

## 4. Proofs

`RetrievalServiceProofs` proves, for every choice of the constants (any sets of
calls, keys and offers, also infinite ones, any batch size), from the
assumptions `NoOfferAssumption`, `CallsAssumption`, `MaxBatchAssumption` and
`PreAuthAssumption`:

* `TypeCorrect`: the type invariant;
* `AcceptedStored`, `StoredVetted`, `OneBatch`, `NotifiedFindable`: the four
  safety invariants of the runs;
* `Refinement`: the service implements `OfferingLifecycle`.

None of the invariants is inductive. `Inv` adds to them: a call past the lookup
(or past the store) has a proper key (`KeyInv`), whose offering was received
(`ReceivedInv`); a call that holds a token or was issued credentials holds the
only use of its offer's code (`TokenInv`); what is sent belongs to a vetted
batch and the publish loop has sent everything behind its index (`LoopInv`,
`BatchInv`). `TypeOK` itself needs `KeyInv`, since a notification is sent for
the call's key. Three stability lemmas carry the argument: a call keeps its key
and offer (`CallStable`), what was sent stays sent and what was issued stays
issued (`BatchStable`), what was received stays received (`ReceivedStable`).
`TableStep` lists what a step can do to the table, so that the proofs about the
table have one case per statement and not one per action. The refinement maps
`PutOffering` to *Receive*, the last message of a batch to *Deliver*,
`PutStatus` to *Accept*, `DeleteRow` and the expiry of a status to *Unmark*, and
everything else to a stutter.

`MigrationProofs` proves, for any replicas, builds with any positive versions, and
numbers of statements, from `EmbeddedAssumption`: `MigrationTypes`,
`StartedMigrated`, `CleanApplied`, `InOrder` and `FaultsOrphan`. The last is an
action property: a version is left dirty with no replica at work on it by a fault
only, so replicas that race for it cannot bring the deployment to a halt by
themselves, whatever their builds. The invariant adds that a replica stands at a
version its build has and at statement 1 when it has not begun (`PositionInv`),
that it has all versions it has passed, in the sense of `HasVersion` (`PassedInv`),
that the loop has executed what is behind its index (`LoopInv`), and that the row
of a version somebody works on records that replica's file or is contested
(`RecordInv`). It does not mention the dirty marks: they are overwritten, and what
counts is that nobody writes a clean one without having executed its file.
That a replica passes its versions in their order is `LeastVersion` and
`FirstVersion`. `LocalStep` says that a step of one replica only has to be
looked at for that replica.

`IssuanceProofs` proves, for any offers, documents, token responses, policies and
calls, `FlowRefinement` (the exchange implements `RetrievalService`),
`FlowKeepsPromises` (hence the safety invariants and
`OfferingLifecycle` hold of the exchange too), `RedeemedVetted`, `SafeFetches`,
`OwnNonce`, `FlowTypes`, `VettedRequestable` and `VettedBound`. The gates need an
invariant in three parts: a call in the vetting has passed the gates before its
step (`GateInv`), a row's offer and that of every call past the lookup have been
through all of them (`TrustInv`), and a code is only redeemed for such an offer
(`GrantInv`). The proofs about the signer need that what a call is about to send
carries its own nonce and the issuer of the metadata it holds (`ProofInv`), which
is what `ValidateHolderBinding` establishes whatever the signer answers, and
that this metadata is not fetched again after the proof is made (`DataInv`,
`StageInv`). `VettedRequestable` adds that a call which passed the metadata keeps
the document it passed (`DocInv`), and that the loop over the details chooses
among what they name and the offer (`SelectOffered`). `VettedBound` puts the two
together: the audience is what the metadata of the acceptance name, the vetting
call's document passed `ValidateOffering`, and where they name the same issuer it
is the offer's. Both theorems speak of metadata that are still those vetted, or
still name the same issuer; what happens without is the subject of `offer_binding`
and of the list in section 3.

`CredentialValidationProofs` proves `ValidationTypes`, `PeriodsHold`,
`AcceptedAuthentic` and `StepRefined` for any responses, timeout and tolerance.
The invariant bounds the age of each credential's verdict by the signer calls
since; its key fact is that the code's comparison of dates and the period by the
dates it reads agree (`TimesAgree`). `StepRefined` needs that what the signer was asked last
is the credential at the index, and that every credential behind the index was
found well-formed and authentic (`SignerInv`); `VerdictStep` says what of a step
`Clearance` can see.

`NonceFetchProofs` proves `IssuerAsked`, `FetchedInTime` and `FetchRefined` for any
URLs, timeout and limit: a request that is due has been checked and the limit not
been reached. `FetchRefined` adds that a fetch which has asked anybody began at an
endpoint of the issuer, and that there is no nonce before the end.

With these two refinements and `FlowRefinement` the detailed modules are tied to
the service: what a step of `RetrievalService` or `Issuance` leaves open is what
the code of that step does. They say so of one run at a time. That the detailed
modules may be put in the place of the steps, with other calls in between,
follows informally: a run shares no state with other calls.

`StartupProofs` proves `StartupTypes`, `SchemaFound` and `ClientFound` for any
replicas, builds and calls. A step of the start is a step of `Migration` or leaves
its variables alone (`StepMigrates`), so `SchemaFound` follows from
`StartedMigrated` and from an invariant about where `main` has come to when a
call is taken.

`CqlTokensProofs` and `CqlSplitProofs` prove, for files of any length over any
runes, what the scanner computes. There is no induction over a file in it; the
steps of the two specifications take its place.

* `TokensSplit`: what `CqlTokens` has collected at any moment is what the
  reference says of the file up to there (`SplitsAsMeant`). The reference picks
  runes by their places; a token more adds the places behind all others, so
  that the list of the kept places grows at its end (`ListedOneMore`,
  `CollectedMoves`, `StatementsGrow`). That the next token begins where the last one
  ended is `FrontierMoves`: the places where tokens begin are the least set
  that is closed under "begins behind", so none lies within a token.
* `TokenRefinement`: `CqlSplit` implements `CqlTokens` (`ImplementsTokens`). There is
  a lemma per kind of token for where the rest of it ends (`RestOfString`,
  `RestOfBlock`, `RestOfLine`), one per step of the scanner, and one for a
  scanner that is lost: it goes on reading but can only end in an error.
* `ScannerSplits`: together, the invariant `SplitsByTokens`. The theorem about
  tokens is used through `Proved`, an instance of `CqlTokensProofs` under the
  refinement mapping.

Every safety invariant and action property of a passing run is stated by a
theorem. Only model-checked are the liveness properties, which are out of the
prover's reach: `CallsEnd`, `RowRecovers`, `AllServe`, `VerdictReached` and
`FetchEnds`.

## 5. Not modelled

* Replica divergence: reads use `LocalQuorum`, writes the session's `Quorum`,
  and the table's keyspace has one replica; every statement is atomic here. Clocks
  of coordinators, which order writes in Cassandra, are taken to agree.
* In `RetrievalService`, which offers pass the vetting and which credential is
  valid: left open, so its results hold for every answer; `Issuance` and
  `CredentialValidation` have the checks.
* Resolving an offer by reference (`GetOfferParameters`), choosing an
  authorization server (`FindFittingAuthorizationServer`) and the retries of the
  HTTP clients belong to a library that is not in this repository; each is an
  I/O that may fail. So is `getIssuerMetadata` with its second attempt, which
  turns TLS verification off when DISABLETLS is set (`processing.go:110`).
* How long a party without a deadline is waited for: a call at a stage of
  `Unbounded` goes on, fails or stays there.
* The text of URLs, and name resolution in `safeDialContext`: a URL is the
  verdict of `validateRemoteURI`, a refused address a failed request.
* The header, the algorithm and the `iat` of a holder proof: one of the ways in
  which the signer step fails. The content of policies.
* File names of migrations: they are compiled in, so they parse or the build is
  never released. A data race on the package variable `log` (`storing.go:76`),
  which decides nothing.
* The database connection and the environment have no state of their own.
* Encryption of storage messages: `ClearOffering` never passes a key.
* Logging, metrics, Swagger, health checks.

## 6. What could follow

* `CredentialValidation` and `NonceFetch` in the place of the steps they
  implement, with the clock across concurrent acceptances.
* A table whose writes are ordered by the coordinators' clocks, to see which of
  the properties rest on their agreement.
* A refinement of `Startup`: what a start promises, without migrations.
