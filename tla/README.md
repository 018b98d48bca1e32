# io-backend in TLA+

This directory models the parts of io-backend whose correctness depends on the
order of events: what several requests, processes, Redis nodes, queues and
services do between two steps of one handler. TLC checks small instances, TLAPS
proves the main results for every value of the constants.

Paths such as `services/redisSessionStorage.ts:122` are relative to `src/` of
the repository. `PROJECT.json` lists every run, theorem and hazard, and maps
every definition to the lines it models.

## The system

io-backend is the proxy between the IO app and the services of the platform. A
process is a Node.js event loop: a handler runs alone until it awaits
something, and everything else may happen during the await. Nothing is stored
in the process but timers and connections. Durable state lives in a Redis
cluster (sessions, lollipop keys), in storage queues and in other services.

| Component | State | Operations | Hard behaviour | What makes it correct | Module |
|---|---|---|---|---|---|
| Notification installation (`controllers/notificationController.ts`, `services/notificationService*.ts`, `utils/featureFlag.ts`) | pending timers, in memory; two queues | PUT /installations: answer, wait 10 s, pick a queue by feature flag, send | the answer precedes the work; exits lose timers; retries of a send; a login's delete in the same queue; processes with different flags | the delay outlasts the delete; one copy per attempt; a rollout never moves a user back; what is accepted is queued or its process failed | `Installations`, `InstallationPromise` |
| Session storage (`services/redisSessionStorage.ts`) | five kinds of Redis keys per citizen | read sessions, find active ones, clean the index, block and unblock | several keys read by parallel commands, replicas lag key by key, single commands fail, the session manager writes meanwhile | a live session is seen, a dead one is not, a cleanup spares live ones, an unblock is counted once, a call returns | `SessionStorage` |
| Authentication and lollipop (`strategies/`, `utils/middleware/session.ts`, `utils/middleware/lollipop.ts`, `utils/lollipop.ts`) | none of its own; reads sessions and keys, or the `x-user` header | authenticate, find the key of the citizen, get its parameters | the key is read after the session, the header is older than both; a dozen error exits | the key handed to a consumer is the citizen's, or the one that signed; never missing where required | `SignedRequests` |
| Messages and third-party content (`services/newMessagesService.ts`, `controllers/communicationController.ts`, `controllers/messagesController.ts`, `adapters/pnFetch.ts`) | none | list, detail, status of messages; precondition, content, attachment of a third party | five calls in a row; a third party that is slow, silent or serves something else than promised; an attachment of SEND that takes two calls | content is what the message promised; a refusal behind the backend is not a 401; the request is answered | `SignedRequests` (third-party routes), `ProfileRequests` (list, detail, status) |
| Start and graceful stop (`server.ts`, `app.ts`, `utils/gracefulShutdown.ts`, `utils/redis.ts`) | Redis clients, listener, open requests | connect, register routes, listen, stop on a signal | a signal at any moment; requests that never end; a timeout race | Redis outlives the requests; exit 0 is a complete stop; a signal ends the process | `ServerLifecycle` |
| Profile, user data processing, service preferences (`services/profileService.ts`, `userDataProcessingService.ts`, `functionAppService.ts`) | none; profile with a version at the function app | read, create, update with a version, abort a deletion | two devices update at once (409, 412); retry after an unknown outcome | no lost update; an answer tells what was done, even when the call is carried out late; a refusal is true | `ProfileRequests`, `ProfilePromise` |
| IO Sign (`controllers/ioSignController.ts`, `services/ioSignService.ts`) | none | create document and signature, read requests | the profile is read before the call that depends on its validated email | nothing is signed with an address that was not valid during the request | `ProfileRequests` |
| FIMS (`controllers/fimsController.ts`, `services/fimsService.ts`) | none | history of accesses, export request | the profile is read before the export is requested | an export goes to an address that was valid during the request | `ProfileRequests` |
| CGN (`services/cgnService.ts`, `controllers/cgnController.ts`, operator search) | none; two cards with an activation that goes on after it is answered, at the CGN function; discount codes at the operator search | status, activation, unsubscription, OTP, merchants, discount codes | an activation is started, polled and started again; the card is read one call before a code is burnt; a burnt code whose answer is lost | a code is burnt for a card that was active during the request; 201, 202 and 409 are told apart and true | `CgnCard` |
| PN (SEND) activation (`controllers/pnController.ts`, `services/pnService.ts`) | none; one activation per environment | get and upsert the activation | the environment is chosen by a query parameter; an update given up may arrive after a later one | test and production stay apart; an acknowledged update holds | `EnvironmentRouting` |
| pagoPA ecommerce (`services/pagoPAEcommerceService.ts`, its controller) | none; payment notices per environment | read a payment notice | another parser of the same parameter; no timeout; a switch without a default | the notice told is that of the environment asked for; every status is answered | `EnvironmentRouting` |
| HTTP plumbing (`utils/express.ts`, `utils/responses.ts`, `routes/`) | none | run a handler, apply its response | a handler that rejects is never answered (`utils/express.ts:35`) | every handler resolves to a response | as part of the modules of requests |
| Configuration (`config.ts`) | constants | decode the environment | none | - | not modelled: decoded once at start |
| Search and support proxies (`servicesAppBackend*`, `cdcSupport*`) | none | forward one call | none of their own | every request is answered | `ProfileRequests` (reads) |
| Formatting utilities (`utils/date.ts`, `barcode.ts`, `appinsights.ts`, ...) | none | pure functions, telemetry | none | - | not modelled |

How they interact: `server.ts` starts the process; a request passes the
authentication (which reads the session storage or the header), the lollipop
middleware on some routes, then a controller, which calls one or more services.
The installation handler leaves a timer behind that outlives its request. A
signal stops the process with whatever it has pending.

External to the repository, and modelled as it is used: the session manager
(creates and ends sessions, writes the keys of a login one by one, the lollipop
key first and the index last), Redis replication, the login service that posts
DeleteInstallation, the queues and their consumer, the lollipop function, the
third parties, and the http-graceful-shutdown library.

## Modules

Every module follows the same layout: constants with named assumptions,
variables, one action per step of the code between two awaits, `Next`,
`Fairness`, `Safe` (no fairness) and `Spec`, then the properties. Operators
named `Bug...` are plausible mistakes; no action uses them. They show that each
property can fail.

**`Installations`**: `createOrUpdateInstallation` answers 200 and arms the
timer, `RejectInstallation` is the 400 exit. `DelayElapsed` is the callback of
the timer: factory and sendMessage. `RetrySend` is the retry policy
of the queue client, `SendFails` its rejection, after the last attempt or at once
for an error that is not retried; `CopyEnqueued` the network. `Drain`, `GracefulExit` and
`Crash` end processes: an exit loses what is delayed or being sent, since
nothing waits for timers. `stage`, `host` and `acceptedAt` are the closure of
the handler, `net` and `queued` the copies of messages. **`InstallationPromise`**
is the abstract specification: a 200 is a promise that is kept, or broken by a
failure of the backend. `Installations` implements it under the mapping `phase`.

**`SessionStorage`**: each `RedisSessionStorage` method is a chain of actions,
one per command or batch of parallel commands (`readSessionInfoKeys`,
`mGetInfo`, `parseUserSessionList`, `mGetSession`, `userHasActiveSessions`;
`readSetMembers`, `existsReply`, `filterExpired`, `RemoveMember`,
`clearExpiredSetValues`; ...). `primary` and `replica` are the keys on the two
kinds of node; a FAST read takes either. `settled` and `dead` are auxiliary: the
sessions that were live, or gone, on every node since a call began. A
`Workload` says which calls are made together; the runs and the proofs range
over all the workloads they are given.

**`SignedRequests`**: a request goes through `auth`, on third-party routes
`message` and `configuration`, then `headers`, `reference`, `lcParams`, and its
consumer. Each step is an action with all of its exits. `Path` tells the legacy
routes (bearer token, keys from Redis) from the identity routes (`x-user`).
What a message promises and whether its configuration needs lollipop are part
of the request, since they do not change; the replies of the services are
nondeterministic. An attachment of SEND is asked for (`pnFetch`) and then
downloaded, in a step of its own. `current` is auxiliary: the keys the citizen
had while the request was handled.

**`ServerLifecycle`**: `createClusterRedisClient` twice, `newApp` (nothing is
awaited between the second connection and the open port, so one action),
`Accept` and `Answer`, `Signal`, `initHttpGracefulShutdown` (all connections
closed: telemetry, `finally`, `server:stop`, `quit`), `ExitAfterFinally`,
`ShutdownTimeout`. In development mode the library does not wait; that mode is
left out.

**`ProfileRequests`**: 24 routes of the profile, user data processing, service
preferences, IO Sign, FIMS, messages, service search and CDC, which differ in
the lookups that precede their call and in the statuses they relay. `Arrive`
decodes, `retrieveSignerId` and `profileWithEmailValidatedOrError` are the
lookups, `SendCall` makes the call, `Receive` maps its status (one set per
service method) and `withCatchAsInternalError` gives up. `PerformUpdate`,
`PerformWrite`, `PerformRead` and `Refuse` are the function apps when the call
reaches them, which may be after the handler gave up. `seen` is the version
each device knows; `author`, `valid` and `performed` are auxiliary: who made
each version, the addresses that were valid during each request, the calls that
took effect. A profile without an address counts as one that is not validated.
**`ProfilePromise`** is the abstract specification of the updates: a register
of versions, where an update replaces the version it names or is never done,
and where whoever is told "done" or "refused" can rely on it.
`ProfileRequests` implements it (`PromiseKept`), the version named being the
one in the body and a 500 telling nothing.

**`CgnCard`**: `Arrive` sends the first call, `eligibleUserOrError` is the check
of the operator search between two calls, `Receive` and
`withCatchAsInternalError` end a request. `PerformActivation`,
`PerformUnsubscription`, `PerformOtp`, `BurnCode`, `TellStatus`, `TellOther` and
`Refuse` are the two function apps when a call reaches them. `ActivationEnds`,
`CardExpires` and `UnsubscriptionEnds` are the orchestrations that go on behind
the answers. `during` is auxiliary: the statuses a card had while a request was handled.

**`EnvironmentRouting`**: `Arrive` parses the parameter as its controller does
(`isTest`, `parsePagopaTestParam`), makes the client and calls. `Receive`,
`Undecodable`, `PnTimesOut` and `PaymentBreaks` are the ways a request ends.
`Meant` is the environment a citizen asked for, whatever the code makes of it; `during`
and `rivals` are auxiliary: what was the case there meanwhile, and the updates
that may still overwrite one that was acknowledged.

`MC*` modules instantiate these for TLC; `*_proofs` hold the proofs.

## Runs

| Run | What it shows | Bounds |
|---|---|---|
| `Installations` | the delay works, copies are attempts, the rollout is monotone, the promise is kept | 2 requests, 2 processes (BETA and CANARY, one user in the beta list), 1 login, 2 attempts, delay 2 and delete lag 1 of 3 ticks |
| `InstallationsAnswer` | finding: a failed registration is never answered 500 | as above |
| `InstallationsLogin` | finding: a pending timer undoes a later login's delete | as above |
| `SessionStorage` | sessions are seen when live and only then, cleanup, unblock, every call returns | 2 tokens (one with a value that does not decode), up to 3 calls in 6 workloads |
| `SessionStorageCleanup` | finding: one failed `exists` removes a live session | a reader and a cleanup, 1 token, no lag |
| `SignedRequests` | whose key goes to whom, what is answered and served, that it is answered | 1 request out of 28, 2 logins; 544,822 states |
| `SignedRequestsTimeout` | finding: a silent third party is never turned into 504 | as above |
| `ServerLifecycle` | Redis outlives requests, exit 0 is complete, cuts only at the timeout, a signal ends the process | 2 requests, 6 environments, clock up to 4, then until the timeout |
| `ServerLifecycleTimeout` | finding: the documented timeout variable has no effect | as above |
| `ProfileRequests` | updates are neither lost nor doubled, answers and refusals are true, emails were validated, the promise is kept, requests are answered | 1 request of any of 24 kinds and 1 on the profile, 2 devices, 2 addresses, versions up to 2, 4 statuses of refusal; 253,924 states |
| `CgnCard` | codes are burnt for active cards, answers tell what was done and were true, requests are answered | 1 request of any of 15 kinds and 1 that activates the same card or unsubscribes, or 2 that burn a code; cards start in any status; 607,227 states |
| `EnvironmentRouting` | environments stay apart, answers were true, acknowledged updates hold, requests are answered | 1 request of any kind with any of 4 parameters and 1 update of either environment; activations start in any state, payments as unknown |

Why the bounds suffice. Two requests show every interference of `Installations`
and `ServerLifecycle`, since a step reads the state of one request and of one
process; two attempts make a late first copy and its retry coexist. Two tokens
give a session that stays and one that goes during the same parallel read;
three calls are one that blocks and two that unblock. Requests of
`SignedRequests` do not share state, so one suffices for safety, and two logins
give it a key that changes under its feet; the 28 requests take every exit. The
requests of `ProfileRequests` meet at the profile only, so the second one is on
the profile, and two versions let an update be overtaken by another or by a
validation; the four refusals are the two that the profile explains (404, 409),
one that is relayed unexplained (412) and one that is translated (422). In
`CgnCard` a request meets another through the card only, so the second one
changes it, or burns a code beside it; what the function does by itself (ends,
expiry) happens at any moment. In `EnvironmentRouting` two updates are what can
overwrite each other, in one environment or in two. The proofs below remove these bounds for the safety properties.

Deadlock is not checked: requests, calls, logins and the clock are finite, so
every model may come to rest. That nothing stops too early is what the liveness
properties say.

### Fairness

* `Installations`: weak fairness of the clock, of due timers, of the queue
  client's retries (its policy is finite) and of the consumer. Clients, logins,
  the network and exits are not fair: a copy may never arrive.
* `SessionStorage`: weak fairness of the replies. The Redis client answers or
  rejects every command. Logins, expiry and replication are not fair.
* `SignedRequests`: weak fairness of each step but the answers of the services
  that are called without a timeout: a third party, and SEND, with node-fetch
  (`services/newMessagesService.ts:479`, `560`, `707`), and the first lollipop
  consumer (`config.ts:182`). The other clients time out after 10 s
  (`config.ts:78-88`).
* `ProfileRequests`, `CgnCard`: weak fairness of each handler: all their clients
  time out after 10 s. Nothing is assumed of the function apps: a call may be lost.
* `EnvironmentRouting`: weak fairness of the handlers. The client of PN times
  out; the ones of payments do not (`config.ts:282-304`), so `PaymentBreaks` is
  not fair and `RequestsAnswered` asks that the service has answered. Production
  sets `FETCH_KEEPALIVE_ENABLED` (`helm/values-prod01.yaml:57`), whose agent would
  end such a call after 60 s of silence; the model keeps to the default, which
  is the weaker assumption.
* `ServerLifecycle`: weak fairness of the process' own steps and of the clock. A
  request need not end.

### Findings

1. `src/openapi/api_communication.template.yaml:455` documents a 500 for an
   installation that could not be registered; `notificationController.ts:59`
   has answered 200 before it tries.
2. The comment at `notificationController.ts:42` explains that a login deletes
   the earlier installations. A timer that is pending at the login queues one
   of them again afterwards.
3. `clearExpiredSetValues` is documented (`redisSessionStorage.ts:89`) to remove
   expired values; a failed `exists` counts as expired.
4. The API documents 504 for the third-party routes; the code never answers it
   and waits without a timeout.
5. `.env.example:13` sets `SHUTDOWN_TIMEOUT_MILLIS`; `server.ts:54` reads
   `DEFAULT_SHUTDOWN_TIMEOUT_MILLIS`.

## Proofs

The theorems about safety are about `Safe`, those about liveness about `Spec`,
for any constants, finite or not, that satisfy the named assumptions. Only
`UnblocksAreCounted` needs finitely many calls, and `CallsComeNearer`,
`CallsGoOn` and `DistanceEnds` finitely many tokens: they count them. Each
follows from inductive invariants that the proof modules define and explain.

### Safety

* **`Installations_proofs`**: `TypeCorrect`, `DelayWorks`
  (DelayOutlastsDelete), `AtMostOneCopyPerAttempt`, `RolloutMonotone`,
  `ImplementsPromise` (every step maps to a step or a stutter of
  `InstallationPromise!Safe`). `DelayOutlastsDelete` is not inductive: it speaks
  of copies on the network, so `SendingInv` says when a request may have one,
  and `DeleteInv` that a delete is pending only for less than `DeleteLag`. The
  assumption `DeleteLag < Delay` is the one the code's comment relies on.
  `BreaksHaveReasons` is the counterpart of finding 1: a 200 is broken only by
  the exit of its process or by the rejection of a send that was made after the
  delay (`AttemptInv`), a send reported to succeed is kept, and an exit leaves no
  promise pending (`EndInv`).
* **`SessionStorage_proofs`**: `TypeCorrect`, `SessionSeen`, `NoGhostSession`,
  `CleanupSpares`, `UnblocksAreCounted`. `AskInv`, `ResultInv` and `CleanInv` carry the auxiliary
  `settled` and `dead` through the steps of a call: a settled session is among
  the members read and no answer denies it. `UnblockOnce` is not inductive: a
  mark in the list has to be counted with the unblocks (`Balance`), since it
  may still be used by one. `CleanupRemovesExpired` is the comment of finding 3
  corrected: without lag, what a cleanup removes had expired or its `exists`
  failed; `IndexInv` says that a session is in the index only with its data.
* **`SignedRequests_proofs`**: `TypeCorrect`, `LegacyKey`, `IdentityKey`,
  `SignedWhenRequired`, `OwnUnauthorized`, `PromisedIsServed`. `KeyInv` says
  whose key a request holds, `StepInv` what it must hold at each step, `OutInv`
  what has left the backend. A request's step leaves the others alone
  (`OnlyItself`), so the rest is one lemma per step. `HandedOverOnce` and
  `HandoverIsTold`: a request reaches its consumer once and with one key, and
  its status tells whether it did; a signature that was handed over is never
  answered as if it had been refused.
* **`ServerLifecycle_proofs`**: `TypeCorrect`, `RedisForRequests`,
  `GracefulExit`, `NoEarlyCut`, from what each stage guarantees (`StageInv`).
* **`ProfileRequests_proofs`**: `TypeCorrect`, `UpdatesAreKept`, `AnswersTell`,
  `RefusalsAreTrue`, `EmailsAreValidated`, `ImplementsPromise` (every step maps to
  a step or a stutter of `ProfilePromise!Safe`). Each property has its own invariant:
  `Calls` says when a call is made and what an answer not yet taken says,
  `Authors` that a version is made by one request, `Knowledge` that nobody knows
  a version before it is made and that the profile only goes on
  (`ProfileGoesOn`), `Recorded` that what a request has read was valid.
  `SuccessIsExclusive` puts two of them together: at most one update of a
  version is ever told 200.
* **`ProfilePromise_proofs`**: why that promise is worth having, proved of the
  abstract specification alone: no version is replaced twice
  (`VersionsAreReplacedOnce`), what was told is true for ever (`PromiseIsTrue`),
  and there are at least as many versions as updates (`VersionsCountUpdates`).
  Through `ImplementsPromise` the handlers and the function app inherit it.
* **`CgnCard_proofs`**: `TypeCorrect`, `EligibleOnly` (EligibleWhenAsked),
  `AnswersTellEffect`, `AnswersWereTrue`, from `CardInv`: the current status of a
  card is always among those seen `during` a handled request, who is past the
  check had an active card (`Checked`), and an answer that was not taken yet
  already tells the truth (`Tells`), which stays true because `during` and
  `performed` only grow.
* **`EnvironmentRouting_proofs`**: `TypeCorrect`, `AnswersWereTrue`,
  `AcknowledgedUpdatesHold`, `EnvironmentsStayApart`, from `RoutingInv`: a call
  goes where its request means (`Routed`, where the two parsers are shown to
  agree), what is told was so (`Truth`), and every update that may still follow
  an acknowledged one is among its rivals (`Rivalry`).

### Liveness

The prover reasons about `[]`, `<>` and `WF_`, but not about `ENABLED`, and not
by induction over a number that occurs in a temporal formula. So each theorem
takes one fact about `ENABLED` as its hypothesis, that a step which is due can
be taken, and everything else is proved: that the step goes on, that nothing
but it can disturb the request, and that the weak fairness of the model's own
`Fairness` is enough.

| Theorem | Says | Hypothesis, always true |
|---|---|---|
| `RequestsAreAnswered` (`ProfileRequests_proofs`, `CgnCard_proofs`, `SignedRequests_proofs`) | `RequestsAnswered` | `HandledIsEnabled`: a request that is handled can always go on |
| `RequestsAreAnswered` (`EnvironmentRouting_proofs`) | `RequestsAnswered` | `DueIsEnabled`: an answer, or a client that times out, can be taken |
| `DueTimerFires`, `SendsGoOn` (`Installations_proofs`) | a delay that has elapsed ends; a send is answered, given up, lost or tried again | `TimerIsEnabled`, `SendIsEnabled` |
| `CallsGoOn` (`SessionStorage_proofs`) | a call comes nearer to its end | `UnderWayIsEnabled`: a reply of Redis can be taken |
| `DueStopEnds`, `DeadlineComesNearer` (`ServerLifecycle_proofs`) | a stop that is due exits the process; one that waits comes a tick nearer to its timeout | `DueIsEnabled`, `TimeIsEnabled` |

A hypothesis holds in every reachable state. TLC confirms each on the same
instances as the runs: in a module that extends the proof module and the `MC`
module, under the same `.cfg`, it is the `INVARIANT`. It is a hypothesis rather
than an assumption, so no theorem about safety rests on it.

For `CallsReturn` and `SignalEnds` the steps of an induction are proved and the
induction is not. `Distance` counts what a call still has to wait for:
`CallsComeNearer` says that replies, and nothing else, make it smaller,
`DistanceEnds` that it is bounded and 0 only at the end, `CallsGoOn` that
fairness makes it smaller. `DeadlineComesNearer` does the same for the clock,
down to `DueStopEnds`.

### Only model-checked

* `CallsReturn` and `SignalEnds` as a whole, for the induction above.
* `PromiseKept` of `Installations` with its fairness: the fairness of
  `InstallationPromise` is about `ENABLED` of an abstract action, and time passes
  by an induction on the clock. Its safety half is `ImplementsPromise`.
* That the code departs from a document: the counterexamples of the five runs
  that expect one.

## Not modelled, and assumptions

* The session manager writes a session's data before it adds the token to the
  index; `LiveSessionIsSeen` rests on `settled`, not on this order, but the
  reachable states do.
* The consumer of the queues processes a delete within `DeleteLag`. Were it
  slower than the delay of the controller, `DelayOutlastsDelete` would fail.
* JSON, headers and tokens are present, absent or undecodable. Logging,
  telemetry and wording are left out. PN's adapter is reduced to its calls and
  to the statuses and contents its callers can tell apart; a document that is
  not ready ends as 503.
* The CGN function activates EYCA for the holder of an active CGN only, and
  tells REVOKED cards as it tells expired ones: the code treats the two alike,
  so the model has one. A citizen without a CGN who asks for a discount code is
  answered 500, since any status but 200 of the read of the card is an internal
  error (`controllers/cgnOperatorSearchController.ts:200-218`), where
  `openapi/api_cgn_search_platform.template.yaml:214` documents a 403 for a CGN
  that is not valid; no property rests on either.
* An update of the PN activation that was given up (500) may arrive after a
  later one that was acknowledged, and undo it. The code has
  no protection (the call names no version of what it replaces) and promises
  none. `AcknowledgedHolds` exempts these updates as `rivals`, so it does not
  catch this hazard: it shows that nothing else undoes an acknowledged update.
* Of the methods of `RedisSessionStorage`, the server itself calls
  `getBySessionToken` and `getLollipopAssertionRefForUser` (the steps `auth` and
  `reference` of `SignedRequests`). Those of `SessionStorage`, the reads of active
  sessions, the cleanup and the two blocks, have no caller in `src/` but each
  other and the tests: they are modelled as the interface of the class, called
  in any order.
* A start that fails emits `server:stop` before its listener is registered
  (`app.ts:543`); the step is in `ServerLifecycle` and no property forbids it,
  since the process exits right after.
* `ProfileService.createProfile` has no caller. The development mode of the
  shutdown library, certificates, the middlewares for dates and addresses,
  barcodes and configuration keep no state that an order of events could harm.

## Plan

What is left, in the order of its worth:

1. Composition of `ServerLifecycle` and `Installations`: that a graceful stop
   whose timeout outlasts the delay loses no installation is false in the code
   (nothing waits for timers), which `Installations` shows as a broken promise;
   the composition would tell by how much the two delays must differ.
2. A second request in `SignedRequests`, to compare the keys that two requests
   of one citizen hand to the same consumer; today nothing but Redis is shared.
3. `PromiseKept` of `Installations` under fairness, `CallsReturn` and
   `SignalEnds`, should the prover learn `ENABLED` and induction over temporal
   formulas.
