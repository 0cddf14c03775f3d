# A TLA+ verification of bacnet-ip-rest-proxy

The proxy serves a REST API over HTTP and translates it to BACnet/IP requests
to building-automation devices. This directory holds TLA+ models of the parts
of it that are concurrent, timed or about authorization, and of the octets it
exchanges with devices, the TLC runs that check them on small instances, and
TLAPS proofs of what matters most for every size of the system. Paths below are relative to the repository's root
(`internal/...`, `docs/...`); module comments cite lines of the file the module
is about.

## 1. The system

| Component | State | Operations | Hard parts |
| --- | --- | --- | --- |
| BACnet client, confirmed requests (`internal/bacnet/client.go`) | `nextID` (uint8), `pending`, one reply channel per request, the socket | `ReadProperty`, `ReadPropertyMultiple`, `WriteProperty` through `doConfirmedRequest`; `readLoop`/`handleIncoming`; `Close` | goroutines sharing a wrapping 8-bit ID space; UDP loses, duplicates, delays and reorders; retransmissions; a table entry used after the unlock |
| BACnet client, Who-Is (same file) | `iamSubs`, eight-slot channels | `WhoIs`, `DeviceInstance` | dropped I-Ams, several devices behind one IP, fallback |
| Codec (`internal/bacnet/{apdu,npdu,bvlc,tag,value,services,errors,objects}.go`) | none | encode, decode | byte-level edge cases |
| Variable cache (`internal/api/varcache.go`) | `entries`; per entry `data`, `lastUsed`, `loadMu` | `get`, `run`/`refreshAll`, `close` | entries used outside the lock; a refresher that takes no entry lock; eviction; failing loads |
| Enumeration (same file) | `noRPM`, the list and the names so far | `load`, `readObjectList`, `readIndexes`, `readMetadata` | replies that do not fit, missing services, halving, falling back, all mixed |
| Authorization engine (`internal/authz`) | none | `Evaluate`, `Explain`, `UsesCondition` | order of rules, early end, negated match modes |
| Handlers and middleware (`internal/api/{handlers,middleware,httperr,router}.go`) | none of their own; read the cache, rules and devices | six routes, `authorizeVariable`, `check`, `serveFilteredObjectList` | what was authorized may no longer be what is acted on |
| OIDC keys (`internal/auth/oidc.go`) | `keys`, `fetched`, `lastAttempt`, `inflight` | `key`, `startFetchLocked`, `prefetch` | key rotation against a rate limit and shared, failing fetches |
| Authenticator (`internal/auth/auth.go`) | configured tokens and issuers | `Authenticate` | which verifier a token goes to, and what it demands |
| Configuration (`internal/config`) | — | `Load`, `Validate` | a setting that is missing and should have been refused |
| JSON (`internal/api/dto.go`) | — | `jsonValue`, `valueForWrite` | ranges, non-finite numbers |
| Process (`cmd/bacnet-ip-rest-proxy/main.go`) | — | start, signal, shut down | order of shutdown against work under way |
| Mock device (`internal/bacnetmock`) | object store, priority arrays | answers requests; a test double | two packages that must agree on every octet |

A handler runs in a goroutine of its own. It authenticates the bearer (which
may wait for the OIDC keys), asks the variable cache for the device's snapshot
if some rule looks at object names (which may enumerate the device first),
evaluates the rules, and then sends a confirmed request through the one BACnet
client that all handlers, the enumerations and the refresher share.

What makes each part correct: a caller gets the reply to its own request, and a
write reported as done is done; the pending table neither leaks nor confuses
entries; an entry of the cache is loaded by one goroutine at a time and never
goes back in time; an enumeration is complete; what is encoded is decoded to
what it was made from, and what was written is read back; no packet makes the
decoder leave its buffer or loop; nobody passes for somebody else; nothing is
shown or written that the rules did not allow under a name the object had; the
rule loop computes the documented verdict; a rotated key is found; and everybody
who waits is woken.

## 2. The modules

| Module | Models | Extends |
| --- | --- | --- |
| `BacnetClient` | confirmed requests, their receive loop, devices and network | |
| `ConfirmedService` | what callers of the client may rely on (abstract) | |
| `RequestDeadline` | attempt timers, contexts, Who-Is and its fallback, the HTTP status, shutdown, in counted time | |
| `VarCache` | `get`, the refresher, `close` | |
| `Loader` | one enumeration, exchange by exchange | |
| `OidcKeys` | an issuer's signing keys | |
| `Authz` | rules, conditions, and what they decide (operators only) | |
| `AuthzEval` | the loop of `evaluate`, with `Explain`'s trace | `Authz` |
| `Config` | defaults, validation and translation of the configuration (operators only) | `Authz` |
| `Authenticator` | whose credential a bearer is (operators only) | `Config` |
| `Access` | from file and request to verdict | `AuthzEval`, `Authenticator` |
| `Handlers` | handlers and middleware against cache and device | `Authz` |
| `Wire` | octets of tags, values, services and packets (operators only) | |
| `Decoder` | a received packet taken apart, step by step, and a receiver of any packets | `Wire` |
| `Exchange` | request and response, JSON to JSON, against a device's object store | `Decoder` |
| `BacnetClientProofs`, `VarCacheProofs`, `HandlersProofs`, `OidcKeysProofs`, `RequestDeadlineProofs`, `LoaderProofs`, `AccessProofs`, `DecoderProofs` | theorems | their module |
| `MC...` | constants for TLC | their module |

Definitions whose comment begins with "Mutant of" are not part of a
specification: each is a plausible mistake in the code, kept to show that the
property named with it in `PROJECT.json` would notice.

**BacnetClient.** `pending` maps invoke IDs to callers; `call` holds what
`pendingRequest` and the stack frame hold; `slot` is the reply channel of
capacity one. `ticket` counts the IDs drawn, and `nextID` is `ticket % NumIDs`.
A request is identified, for the properties only, by the ticket it drew (its
*stamp*). The lookup in `handleIncoming` (`ReceiveReply`) and the non-blocking
send after the unlock (`HandOver`) are two steps. Line 126 reads `req.service`
before `ok` is tested; `ReceiveUnsolicited` sets `panicked` for it, and nothing
happens afterwards. The network is a set from which datagrams are delivered
without being removed, which covers loss, duplication, delay and reordering; a
datagram disappears once more than `MaxAge` invoke IDs have been drawn after
its own. With `MaxAge` above `NumIDs` that is a reply that answers an earlier
request with the same ID. Sending fails at any time, and always after `Close`.
An acknowledgement counts as `ok` whatever it holds: that parameters which fail
to decode are an error is `Decoder`'s and `Exchange`'s matter.

**ConfirmedService.** The abstract specification: a caller asks, waits, and gets
an answer to its own operation or a failure; a write that is reported as done
has been carried out; every call returns. `BacnetClient!ImplementsService` is
this specification with the client's state in the place of its own: an
operation's number is its stamp, a caller waits while its `pc` is `send` or
`wait`, `carried` is the device's `applied`. Who waits is a set of callers, `busy`.
A call is over when it has its
outcome, so the deferred removal from the table is a stutter, as are all
transmissions, timers and datagrams. A crash of the process (finding 1) is an
action of the abstract specification too, after which nothing is promised.

**RequestDeadline.** `BacnetClient` lets timers fire whenever it suits them.
Here time is counted. One caller is followed: a handler that reads or writes
under `requestContext`, a handler that enumerates a device, or the refresher
that does, beginning at any moment, also during the shutdown (`Begin`). Other
handlers may be under way all the while (`others`) and end late or never: an
enumeration of five minutes that uses up the grace period, say. In a `faulty`
world sends and name resolutions fail whenever they like; otherwise sends fail
only on the closed socket. An enumeration begins with `DeviceInstance`: `WhoIs` with its
subscription, whose channel holds `ChanCap` I-Ams and drops others, and then,
if that fails and the context is not over, a read of the wildcard Device
object. Resolving an address takes up to `Delay`, an attempt `Timeout`; the
context lasts `Timeout` (a handler's: `requestContext` and the client are
configured with the same `bacnet.timeout`) or `LoadTime`. I-Ams of other devices
arrive at any moment. `main` receives a signal or a listen error at any moment,
drains, runs `Server.Close`, which cancels the cache's context and waits for the
refresher, closes the socket, and exits; `since` is the time since `Shutdown`
was called. A ready `select` case is taken before
time goes on; if several are ready any may be taken.

**VarCache.** One action per section the code runs atomically: the lookup under
`c.mu`, the `lastUsed` store, the atomic loads and stores of `data`, taking the
mutex, the sweep under `c.mu`. A pass of the refresher goes through the devices in
any order, as Go's maps do, and ends early after `close` (line 160). Ticks never
stop. A snapshot is the version of one object's
metadata; a load sees a version the device had between its start and its end,
or fails. Entries are reused only when nobody has a pointer to them.

**Loader.** Objects are positions in the object-list. The recursion of
`readMetadata` is the sequence of chunks still to be read: halving replaces the
first by two. Errors are told apart as far as `retryPiecewise` and
`noteRPMFailure` do. The device is chosen at the start: with or without
ReadPropertyMultiple, with every limit on list elements and objects per reply.

**OidcKeys.** Version *n* of an issuer's key set has keys *n* and *n - 1*. The
`fetched` and `lastAttempt` times are ages that stop counting where no guard
can tell them apart any more, so the model is finite without bounding time.

**Authz, AuthzEval.** A pattern is the set of values it matches, and a part of a
request that may be missing is a set that may be empty, so "never matches a
missing credential" is the empty intersection. `Evaluate` states the documented
verdict; `AuthzEval` runs the code's loop.

**Config, Authenticator, Access.** A configuration file is a record of its
settings, a bearer a record of what `Authenticate` and the JWT library look at;
signatures are names of keys, with the public key of an issuer as a possible
HMAC secret, since everybody knows it. `Validate` is the set of problems found.
`Access` starts in every pair of a file and a contact (`AccessAssumption` says
only that they have the types of a file and of a request, whatever their
values), loads or refuses the file, runs the loop of `AuthzEval` on the rules and the caller that
`newCaller` makes, and applies the permission check of `allowed`.

**Handlers.** Seven kinds of request (six routes; reading a Device object's
`object-list` is one of its own). Each call of `cache.get` and each exchange
with the device is a step. Between steps the device may be reconfigured or
replaced and the snapshot refreshed or dropped. `Credentials` is what
`Authenticate` makes of a person's bearer. The statuses `writeBACnetError`
chooses are one value, `FromDevice`. An enumeration sees the device at one
moment here; `VarCache` and `Loader` have the detail.

**Wire, Decoder.** Packets are sequences of octets. `Wire` has the encoders and
the pure parts of the decoders; a 64-bit integer is its eight octets, so no
width is lost. `Decoder` is the control of the `Decode` functions: `todo` is the
work left, which for `decodeNestedValues` is its recursion, and each helper call
or loop turn is a step that consumes octets, fails, or slices beyond the packet
(`"panic"`; in `readLoop` and the refresher that ends the process, in a handler
`recoverJSON` turns it into a 500). What has been decoded is a flat sequence of
values, with an `open` and a `close` around what is nested. `Receiver` is a
process that gets packets of any octets, one after the other, and decodes each:
what `readLoop` does with whatever the network brings. `InBounds` and `Progress`
are about it; `Exchange` feeds the same `Decode` the packets of its two parties.

**Exchange.** A device with its Device object and one other, the point. Each
behaviour is a sequence of requests (GET of a property or of a list element, GET
of an object through ReadPropertyMultiple, the loader's metadata request, PUT
with and without priority, Who-Is with and without limits). A request is
encoded, decoded by the device with `Decoder`, carried out on the store and its
priority array, answered, decoded by the client with `Decoder`, and turned into
a status and JSON; a reply that is not taken leaves the request to its timer,
whose status is `RequestDeadline`'s matter (`Unanswered`). Before the first PUT, a reply may instead arrive with one
octet changed or cut at any octet. `sent` remembers what a packet was made of.

## 3. The runs

| Run | Result | Shows |
| --- | --- | --- |
| `client_safety` | pass | `PendingExact`, `OwnReply`, `AckedWriteApplied` for reads and writes, acknowledgements and rejects, an ID that is drawn again at once, and datagrams that outlive that |
| `client_service` | pass | `PendingExact`, and `ImplementsService`: while no datagram outlives a turn of the ID counter, the client implements `ConfirmedService`, liveness included, with retransmissions |
| `client_panic` | violation of `NoPanic` | finding 1 |
| `cache` | pass | `SingleLoader`, `SnapshotMonotone`, `GetReturns`, `CloseReturns` |
| `loader` | pass | `ListInOrder`, `NothingElseOmitted`, `RejectedOnce`, `PiecesSuffice`, `LoadEnds` |
| `oidc` | pass | `SingleFetch`, `SettledKeyFound`, `KeysMonotone`, `KeyReturns`, `RotationNoticed` |
| `access` | pass | `ComputesEvaluate`, `TraceExplains`, `NameIrrelevant` on the rules of every accepted file; `IdentityVouched`, `HeadersPowerless`, `AllowedWithPermission` |
| `deadline` | pass | `SilenceIs504` and `FallbackIdentifies` (for enumerations), `EndsWithContext`, `Paced`, `DrainedBeforeClose`, and `Exits`: after a signal within the grace period and one name resolution |
| `deadline_retries` | violation of `RetriesBeforeGivingUp` | finding 2 |
| `api_safety` | pass | `ShownWasReadable`, `WrittenWasWritable`, `StrangersLearnNothing` |
| `exchange` | pass | `RoundTrip`, `ReadsBack`, `InBounds`, `Progress` |
| `exchange_length` | violation of `RoundTrip` | finding 3 |

Run one with `tlc -workers 2 -config <run>.cfg <module>`.

### Bounds

- `client_*`: two callers are the fewest that can confuse each other. In
  `client_safety` there is one ID, so that two callers exhaust the space and
  every request reuses the ID of the one before, and `MaxAge` is two, so that a
  reply to that one is still in the network and passes the test of line 126; two
  services, so that a reply to the other one does not. In `client_service` two
  IDs make the counter pass over one that is in use, and `MaxAge` is `NumIDs`.
  `MaxTicket` bounds the number of requests. All of it is far from 256, and the
  theorems of section 5 do not depend on the numbers. `client_safety` has no
  retransmissions, `client_service` has one.
- `cache`: two getters that meet at one device, or one that asks for two devices
  in turn. The first device has two entries, so that one that was used can be
  dropped and a new one made while the old one is still in use; the second has
  one. `IdleRefreshes` is zero, so that an entry is dropped as soon as an
  interval passes without a request. The first device changes once. From
  `MaxClock` on intervals are not told apart, but ticks go on for ever.
- `loader`: eight objects, list chunks of three and metadata chunks of five, so
  that both last chunks are short and halving goes three levels deep; up to two
  unexplained failures; every limit from none to everything.
- `oidc`: three versions; the rate limit is two ticks, a fetch takes at most
  one, keys are outdated after three. The order of the three matters, not their
  ratio.
- `access`: all rule lists of up to two rules with one or two conditions, every
  mode and action, and lists of three of the two-condition rules; and fourteen
  files, half of which must be refused, each with fourteen rule lists, against
  contacts with no credential, the token, and JWTs that are right or wrong in
  one respect each, an HMAC made with the empty secret among them, with and without
  forwarded headers.
- `deadline`: two retries, an attempt of two ticks, a channel of two with up to
  three I-Ams of other devices, and a context of an enumeration that two requests
  with all their attempts fit into, as five minutes is under the default
  settings. `Grace` exceeds a handler's timeout, as ten seconds does the default
  of three; the ASSUME names both conditions, and a `bacnet.timeout` of more
  than ten seconds breaks the second.
- `exchange`: two levels of nesting instead of 16 and two priorities instead of
  16, so that both limits are reached; a largest APDU of 300 octets, with a
  reply just above it and lengths around 254 below it. The points are an analog
  input and output, a binary value and a multi-state value with the largest
  instance number; the values are one list of every kind at the sizes where its
  encoding changes, nested lists up to and beyond the limit, and an empty list.
  Two PUTs are enough for one to cover or relinquish the other. Octets of a
  changed reply take five values that turn lengths, tags and types into others.
- `api_safety`: one worker is enough, since handlers share only the cache, and what
  others do to it `Refresh` does too. One ordinary object and two candidates
  for the Device object, two names, up to two changes to the device. The people
  are one without a bearer, one with a bearer that is not recognized, and the
  holder of a token. The rule lists are: allow with a deny-now on a name; no rule on
  names; and one that tells the operations apart, allowing everybody to get whole
  objects but nobody, except under a name, to read a property.

Deadlock is not checked in runs that end: when the requests of `MaxTicket` have
been made or the process has panicked, when the refresher has stopped, when the
enumeration or the evaluation is over, when the process has exited.

### Fairness

- `BacnetClient`: a caller's own steps (transmitting, its timers, its deferred
  cleanup). Nothing is assumed of the network, devices, contexts or `Close`.
  From this follows the fairness of `ConfirmedService`, that calls return.
- `RequestDeadline`: goroutines run, time passes, and a device that is said to
  be prompt answers reads within an attempt. Signals, I-Ams and the answers of
  lossy devices may never come.
- `VarCache`: goroutines run and loads end, because every load has a timeout
  (line 174). Strong fairness of `Acquire` is `sync.Mutex`'s starvation mode;
  strong fairness of `Stop` is `select`'s random choice between a cancelled
  context and a tick; with weak fairness `CloseReturns` fails, as each of the
  endless ticks can start another pass.
- `Loader`: each request ends, by its timer at the latest.
- `OidcKeys`: time passes, fetches end within `fetchTimeout`, goroutines run.
  `RotationNoticed` needs two assumptions about the world: tokens with the
  newest key keep arriving, and not all fetches fail.

## 4. Where the code and its documentation differ

1. `internal/bacnet/client.go:126` dereferences `req` before `ok` is tested.
   A duplicate or late ACK or Error, the case line 130 provides for, ends the
   process (`client_panic`).
2. `docs/configuration.md:85-86` promises retries per request and a timeout per
   attempt. A handler's context lasts one attempt (`handlers.go:49,74`), so a
   handler's request is in general not retried (`deadline_retries`), and a
   silent device yields 502 rather than 504.
3. `internal/bacnet/tag.go:101` recognizes opening and closing tags by the
   decoded length, 6 or 7, although `decodeTagHeader` puts lengths of the
   extended form there too. A context-tagged primitive of six or seven octets
   (an octet string or a text inside a constructed value, say) is taken for a
   tag that opens or closes, and the reply is refused or misread
   (`exchange_length`). The `exchange` run has such primitives of other lengths.

Observed while modelling, of less consequence, and not kept as runs:

- `get` stores `lastUsed` after it has released `c.mu`, so the refresher can
  drop an entry in between: always a new one, whose `lastUsed` is still 0. The
  request is served from the dropped entry; the next one enumerates again.
- `docs/configuration.md:216,219` say that what a caller cannot read is refused, and
  that to read is to be allowed `read-property`. `handleGetObject` asks only
  `read-property-multiple` (line 221). Where the rules allow that and not
  `read-property`, the object is shown with an empty `access` field (line 265,
  `middleware.go:117`), although `docs/configuration.md:219` promises `readonly` or
  `readwrite` with every variable. `ShownWasReadable` allows exactly this.
- `handleGetDevice` authorizes the Device object of one snapshot (line 121) and
  reads the one of another (line 126). They differ if the device was replaced
  by one with another instance number and the cache refreshed in between.
  `ShownWasReadable` leaves this route out for that reason.
- `client.go:123-125` says a late reply to an earlier request with the same
  invoke ID is not taken for this one's. It is if the service and the device are
  the same and the reply outlives a turn of the counter, which with 256 IDs takes
  a reply that 256 requests overtake. `OwnReply` and `AckedWriteApplied` state
  what holds then (`MayAnswer`), and that with datagrams no older than a turn the
  reply is the request's own.
- `WhoIs` compares IP addresses (`client.go:194`): of several devices behind one
  address the first to answer is taken.
- `main.go:99` gives a shutdown ten seconds. Handlers may use them up, and the
  refresher may then be resolving a name (`client.go:166`, which does not look at
  the context) when `Server.Close` waits for it, so the process may exit one name
  resolution later.
- `Validate` accepts a negative `bacnet.timeout`: the client then uses three
  seconds, and `requestContext` is over at once. `bacnet.retries: 0` is taken
  for missing and becomes 3. Two tokens may have the same value; the last name
  counts. Malformed globs and CIDR blocks in conditions are accepted and never
  match; `*` in a glob does not match `/`.
- A listener that fails at run time ends the process without draining.
- A number beyond float32 that is PUT to an analog object is written as
  infinity. Instance numbers are cut to 22 bits (`value.go:213`), integers of
  more than eight octets and enumerated ones of more than four lose their high
  octets. The comment at `dto.go:13` says an Enumerated becomes a string; it
  becomes a number.
- `DecodeReadPropertyMultipleACK` steps over one octet after a closing tag
  (`services.go:456,468`), whatever the header's length. It matters only for a
  closing tag in the extended form with a number below 15, which no encoder
  writes.
- `docs/configuration.md:214,219` make writing depend on reading; a PUT checks
  `write-property` alone (`handlers.go:368`).
- `docs/configuration.md:101` says the instance number is cached for the life
  of the process; every refresh identifies the device again.

## 5. What is proved

`tlapm` checks every proof to the last leaf; nothing is assumed but the named
`ASSUME`s on constants, which TLC evaluates in the runs, and where it says so
`LagBound`. Each safety theorem follows from an inductive invariant: it holds
initially, every action keeps it, and it implies the property. All safety
invariants and action properties that the passing runs check are proved this
way, except `RoundTrip` and `ReadsBack`; `InBounds` and `Progress` are proved of
`Receiver`, which gets any packets, rather than of `Exchange`.

**BacnetClientProofs**, for any callers, devices, services, number of IDs and
retries:

- `TypeCorrect`, and `PendingIsExact`: `PendingExact` is inductive together
  with the type. The work is in `Register` (`RegisterDraws`: the ID found was
  free) and `Finish` (the entry removed is the caller's own, because every
  request in flight has its own entry).
- `ReplyIsOwnOrTurnsOld` and `AckedWriteIsApplied`, for datagrams of any age.
  `OwnReply` is not inductive. The invariant adds that stamps are below `ticket`
  and determine IDs (`stamp % NumIDs`), that datagrams in the network are recent,
  that no datagram that carries a pending request's ID is younger than the
  request, and that the reply being handed over may answer the request looked up.
  For writes it adds that every acknowledgement under way has its write in
  `applied`.
- `ReplyIsOwn`, under `LagBound`, that is `MaxAge <= NumIDs`: no datagram
  outlives a turn of the counter. The reply is then the request's own, by
  `SameTurn`: two stamps with the same ID less than a turn apart are equal.
- `ClientIsService`, under `LagBound`: the safety part of `ImplementsService`.
  Initial states map to initial states of `ConfirmedService`, and every step of
  the client to a step of the service or to none. `ReturnStep` is the one where
  something must be known: the outcome a call ends with is one the service
  allows, which is `OwnReply` and `AckedWriteApplied` of the next state. That
  calls return is the fairness part and stays with TLC (`client_service`).

**VarCacheProofs**, for any hosts, getters and entries:

- `TypeCorrect`; `OneLoader`; `SnapshotsMonotone`. The invariant `IInv` has six
  parts: the type; a getter past `Acquire` holds its entry's mutex, and no
  other does (`LockHeld`); an entry being loaded by a getter has no data
  (`InitialLoad`); an entry in the map or in the refresher's copy belongs to
  the host it is filed under (`OwnHost`); no snapshot is ahead of its device,
  and no load began ahead of it (`NotAhead`); the entry the refresher loads has
  data, not newer than the version its load began with (`Refreshing`). The last
  three are what it takes to know that the refresher's store does not go back.

**HandlersProofs**, for any workers, rules, people, objects, names and number
of changes to the device:

- `ShownReadable`, `WrittenWritable`, `StrangersExcluded`. The properties speak
  of the names an object has ever had (`had`), since the name that was judged
  need not be the present one. The invariant: the device's names and those of
  every snapshot held are names that their objects have had (`NamesPast`,
  `CachedGood`, `Aimed`); a request past authorization is one the rules allow
  under the name judged, and that name is one its object has had (`Cleared`);
  a response already made is justified by the names had (`Justified`), which
  stays true because `had` only grows and the rules do not change (`Judgement`).

**OidcKeysProofs**, for any callers, fetches, rotations, and times with
`FetchTime < MinRefresh` (ten seconds and a minute in `oidc.go`):

- `OneFetch`, `KeysNeverGoBack`: of the possible fetches exactly one runs when
  `inflight` is set, and what it will bring is not older than what is held
  (`OneRuns`, `Versions`).
- `SettledKeyIsFound`, the property that is least obvious in the code: a key
  published at least `minRefreshInterval` ago is refused only if the last fetch
  failed or the key has since been withdrawn, although made-up key IDs can use
  up the rate limit. If the rate limit forbids a fetch, the last one began
  after the key was published, and as it runs no longer than its timeout it has
  ended or will be waited for (`Prompt`, `Current`, `Served`).

**RequestDeadlineProofs**, for any timeout, retries, channel and delays that
satisfy `DeadlineAssumption`:

- `RequestEndsWithContext`, `TransmissionsPaced`, `SilenceTimesOut`,
  `PromptIdentified`, `HandlersDrained`, and `ShutdownInTime`, the safety part of
  `Exits`: no more than `Grace + Delay` passes after `Shutdown` is called. The invariant bounds the time spent by
  the attempts made (`InTime`: an attempt ends within its time after those
  before it) and the attempts by the time spent (`Spaced`, `Counted`); `Span`
  is the time of *n* attempts. `NotLate` follows: the context of an enumeration
  does not end before its attempts do. `Quiet` says where I-Ams come from,
  `Shut` that `Shutdown` has outlasted every handler's context.
- `SilenceTimesOut` and `PromptIdentified` are about worlds that are not
  `faulty`; the rest holds whatever fails.
- The assumption says that an enumeration's context has room for two requests
  with all their attempts and that the grace period exceeds the timeout and the
  resolution of an address. The defaults satisfy it; a `bacnet.timeout` of ten
  seconds does not, and the code does not check.

**LoaderProofs**, for object-lists of any length, any batch sizes, any devices
and any number of faults:

- `ListOrdered`: the list read is always the first so many objects, and `start`
  and `i` say how many (`Reading`).
- `NoOtherOmitted`: the chunks left to read follow one another, are not empty,
  and end at the end of the list (`Chain`); everything before the first of them
  has been named, is nameless, or failed on its own (`Through`). Halving keeps
  the chain (`ChainHalves`).
- `OneReject`: the service has been rejected once exactly if `noRPM` is set
  (`Latched`). `FaultsOnly`: `PiecesSuffice` is inductive with the rest.

**AccessProofs**, for every rule list and request (of `AuthzEval`), and for
every file and contact (of `Access`):

- `TypeCorrect`; `LoopComputesEvaluate`: before rule *i* the provisional result
  is what the first *i - 1* rules decide, and no `-now` rule among them
  applied; `OneDecides` shows that the documented verdict is unique.
- `LoopTraced`: the trace has one entry per rule looked at, its verdict on that
  rule, and the result is the last that applied (`Traced`).
- `NamesMatterOnlyToRules`: without a variable condition no rule's applying,
  hence no verdict, depends on the name.
- `LoadedLoop`: the same for the loop as `Access` runs it, on the rules of any
  accepted file and the caller made of any contact. `LoadedRules` shows that a
  file that `Validate` accepts translates to rules the engine knows.
- `OnlyVouched`, `HeadersIgnored`, `PermissionNeeded`: from the verdict being
  `Evaluate`'s (`Final`), what `Validate` demands of an accepted file
  (`LoadChecks`), what `Authenticate` demands of a bearer
  (`AuthenticateIdentifies`), and the client's address being the peer's
  (`PeerIsClient`).

**DecoderProofs**, for packets of any length and octets:

- `NoPanic`: the position stays within the packet, there is something left to
  do while decoding, and the first header comes first. `TagInBounds` is the
  fact about `decodeTagHeader` that everything rests on: a header it accepts
  lies within the packet. Each action has a lemma (`...Sound`) that it takes no
  more than there is.
- `EveryTurnCounts`: by the same lemmas each step consumes octets or shortens
  the work. That this makes decoding end follows outside the logic: the
  remaining octets and, between two of their changes, the remaining work
  decrease.

Writing these proofs found three places where a definition could not be
reasoned about, and they were reworded without changing what they say:
`decodeTagHeader` had two arms of a CASE that were true together, `Params` and
`ApduHeader` had an OTHER, and `busy` in `ConfirmedService` was a function to
Booleans.

Model-checked only, and why:

- All liveness: the prover does not reason about fairness or `ENABLED`. That is
  `GetReturns`, `CloseReturns`, `LoadEnds`, `KeyReturns`, `RotationNoticed`,
  `Exits`, and the fairness part of `ImplementsService`.
- `RoundTrip` and `ReadsBack`: that decoding undoes encoding for values of any
  length and nesting is an induction over data.
- That `Exchange` is an instance of `Receiver`: it takes that what the encoders
  make are sequences of octets, for the recursive ones again an induction. The
  run `exchange` checks `InBounds` and `Progress` of `Exchange` itself.
- That `AuthzEval!TypeOK` holds of `Access`'s requests: `newCaller` takes the
  last token with a value from a sequence, whose existence is an induction. The
  theorems about `Access` do without it.

## 6. What is not modelled

- YAML decoding and `internal/config/errors.go`, which finds the line and the
  wording of a message; command-line flags; TLS set-up.
- Strings as such: globs, CIDR blocks and the values they match are sets; the
  names of object types, properties, units and error codes are left out; of
  UTF-8 and UTF-16 only what one unit can be.
- The cryptography of JWTs and JWKs, and `parseJWK`; which URLs `CheckFetchURL`
  accepts is a constant.
- Go's JSON and HTTP packages, debug logging, the landing page, the OpenAPI
  document.
- The mock device's setters, with which tests prepare it.
- Several devices behind one IP address in `WhoIs`.
- In `Loader`, an object-list that changes while it is read, and 32-bit overflow
  of list indexes: `readObjectList` takes the count from the reply as it is
  (`varcache.go:244`), so a device need only claim that many objects.
- In `RequestDeadline`, the rest of an enumeration: only the identification of the
  device is followed. Each later request of an enumeration resolves the name again;
  if a reply arrives just as the context is cancelled and `select` prefers it, one
  more resolution can follow.

## 7. Plan

Done: `BacnetClient`, `VarCache` and `AuthzEval`; `OidcKeys`, `Handlers`,
`Loader`; `RequestDeadline` with Who-Is and shutdown; `ConfirmedService` and the
refinement; `Config`, `Authenticator` and `Access`; `Wire`, `Decoder` and
`Exchange`; and the proofs of section 5.

Next:

1. Lemmas on the encoders of `Wire` that need no induction (what
   `appendTagHeader` makes, `decodeTagHeader` takes apart again, for every tag
   number and length), as the step of `RoundTrip` that is the same for all
   values.
2. The priority array of `Exchange`: a relinquished slot uncovers the highest of
   the others, for any number of priorities.
3. `Exchange` as an instance of `Receiver`, as far as its packets can be shown
   to be octets.
