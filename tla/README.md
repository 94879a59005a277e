# dcr-sdk in TLA+

Specifications, model checking and proofs for the Go client SDK of the DCR cloud
(`src/`). The SDK keeps a pool of mTLS connections to the cloud, renews the
client certificate behind the application's back, follows DNS, and sends three
kinds of request (Target, Report, Touch) over whatever connection is next in
turn. What is hard in it is not any one function but what happens between them:
a certificate replaced while connections handshake, a process that dies between
two files, a refresh that closes connections while requests arrive.

## Inventory

| part | state | operations | what makes it correct |
|---|---|---|---|
| `ShardedClient` (`pkg/client/shardedClient.go`) | groups of clients, two levels of round-robin counters, the `CertProvider` | `Target`, `Report`, `Touch`, `Reconnect`, `PendingRequests` | every client is used in turn; `Reconnect` returns, and moves every connection onto the current certificate |
| `client` (`client.go`) | one fastrpc client (one connection at a time, a bounded queue), `conn`, `connDials` | `doUnary`, `onConnDialed`, `reconnect` | `conn` is the connection that must be closed; a request in flight is spared by a graceful `reconnect` |
| `CertProvider` (`certprovider.go`) | the current pair, replaced atomically | `Update`, `GetClientCertificate`, `Leaf`, `Fetch` | a refused pair leaves the current one; a handshake reads the current one |
| `autoRenewer` (`autorenew.go`) | none between two checks | `run`, `check` | a certificate about to expire is replaced, after being saved and before being used |
| `SaveToFiles` (`savefiles.go`) | two files | the key, then the certificate, each atomically | a crash never leaves a pair that runs on the old certificate |
| `dnsDialer` (`dnsDialer.go`) | the rotation of addresses, the table of open connections, a mutex | `dial`, `refreshOnce`, `rebalanceLocked`, `Close` | there is always an address to dial; a rebalance leaves every address its share; withdrawn addresses are left |
| configuration (`shardedClient.go:287-387`, `mtls.go:208-237`) | none once the client is built | `normalizeConfiguration`, `resolveServerName`, `newClient` | a client that was built has somebody to serve, and verifies each address for its own host |
| certificate checks (`mtls.go`, `serverauth/auth.go`, `certs.go`) | the pools of CAs | `certCheck.load`, `authenticateClientCertificate` | what the client puts in use, and whom the cloud serves, chains up to a root |
| payers (`payer.go`, `shardedClient.go:189-232`) | the request itself | `applyPayers`, `applyMatchRulePayers`, `applyReportRulePayers` | a payer named on a rule is kept; nothing goes out without the payers it needs |
| wire contract (`pkg/contract`) | pooled requests and responses | `WriteRequest`, `ReadRequest`, `WriteResponse`, `ReadResponse`, acquire and release | what is read is what was written; a pooled object carries nothing of its last use |
| server authentication (`pkg/serverauth`) | the partner's identity per connection | `NewTLSConfig`, `Accept`, `GetUUID` | an identity comes from a verified certificate, and only from the handshake |
| test cloud (`internal/testcloud`) | counters, the channel of reports | `Start`, `Close`, `handle`, `handleTarget`, `handleReport`, `handleTouch` | nothing is served without an identity; what is counted happened |

Parts of which little or nothing is modelled (most of the commands, the
generated messages) are listed in `PROJECT.json` with the reason.

How they interact: the application's goroutines call `Target`, `Report` and
`Touch`; each picks a group and a client by an atomic counter and waits in that
client's fastrpc queue. The fastrpc worker of a client dials on demand, through
the `Dial` hook (`shardedClient.go:327-334`): the dialer of the group connects
and registers the connection, `onConnDialed` stores it, and only then does
fastrpc handshake, asking the `CertProvider` for the certificate. The renewer
and the application call `Update` and then `Reconnect`, which closes the
connections from other goroutines. The refresh loop of the dialer closes them
too, as do the cloud and the network. Shared state is the provider's pointer,
`client.conn`, the dialer's table and the fastrpc queue; there is no lock
across any two of them.

The hard behaviours, each with its line and the properties that would catch it
going wrong, are the `hazards` of `PROJECT.json`.

## Modules

Each component has a module with its state, one action per operation or step
between two points where something else can run, and its properties. `MC*`
modules and their `.cfg` files instantiate it for TLC; a `*_proofs` module holds
its theorems. A definition named `X_...` and commented `Mutant:` is a plausible
wrong version of `X`, used only to show that a property notices it.

| module | models | state in the code | proofs |
|---|---|---|---|
| `CertSwitch` | the promise of `Reconnect` (`shardedClient.go:73-83`), abstractly | - | refined by `Reconnect` |
| `Reconnect` | `Reconnect`, `client.reconnect`, the `Dial` hook, handshakes, pending requests | `CertProvider.current`, `client.conn`, the fastrpc worker and queue, the goroutines of each call | `Reconnect_proofs` |
| `Renewal` | `check`, `Fetch`, `SaveToFiles`, `Update`, process death and restart | the two files, the current pair, where the renewer is | `Renewal_proofs` |
| `RenewalClock` | when `run` and `check` try | `before`, `every`, `NotAfter`, what is being waited for | `RenewalClock_proofs` |
| `DNSDialer` | `dial`, `refreshOnce`, `rebalanceLocked`, `trackedConn.Close` | `d.addrs`, `d.next`, `d.conns`, the locals of a refresh | `DNSDialer_proofs` |
| `Call` | `Target`, `Report`, `Touch`, payers, `doUnary`, counters | the request object, where its call is, the metrics | `Call_proofs` |
| `Configuration` | `normalizeConfiguration`, `resolveServerName`, `newClient`, as operators | - | `RoundRobin_proofs` |
| `RoundRobin` | `NewWithMTLS` on a `Configuration`, `getGroup`, `getClient` | the `ShardedClient`, the two levels of counters | `RoundRobin_proofs` |
| `Certificates` | `certCheck.load`, `authenticateClientCertificate`, the TLS configurations of the commands, the test PKI, as operators | - | `Cloud_proofs` |
| `Cloud` | `serverauth`, the request contexts, the test cloud's listener and handlers, over `Certificates` | `authConn.authID`, `RequestCtx`, the `Server` | `Cloud_proofs` |
| `AtMostOnce` | what `doUnary` (`client.go:84-128`) and the server promise a caller, abstractly | - | refined by `Exchange` |
| `Exchange` | `pkg/contract` between `doUnary` and a handler: frames, pools, one connection | the pooled `Request`s and `Response`s, `RequestCtx`, the bytes under way | `Exchange_proofs` |

How they compose: `Reconnect` refines `CertSwitch` and `Exchange` refines
`AtMostOnce`; `RoundRobin` extends `Configuration`, `Cloud` extends `Certificates`, and `MCRenewal` takes from
`Certificates` which pairs the client refuses; `Exchange` puts callers, their
connection and the server's contexts together. `Call` and `Exchange` are two
views of one `doUnary`: who is billed and what is counted, and which bytes go
where.

### Reconnect and CertSwitch

A certificate is the number of the `Update` that made it current, a connection
the number of its dial, so that `client.conn` is a number and 0 is nil. The
fastrpc worker of a client goes through `Dial`, `OnConnDialed`,
`GetClientCertificate` and `Serve`: between any two of them an `Update`, a
`Drop` or a step of a `Reconnect` may come. A call of `Reconnect` is `Begin`, a
goroutine per client (`Load`, `Wait`, `Close`, `Forget`, one action per access
of shared state) and `Return`. Requests take a slot, are written to a
connection, and finish with an answer, their deadline or their connection.

`SettledStaysSettled` is the point of the component: after a `Reconnect` is done
with a client no connection of it presents a certificate older than the one that
was current when the call was made - neither one that was handshaking meanwhile
nor one dialed later. `OpenIsReachable` says that the CompareAndSwap of
`client.go:63` never hides a connection from the next call, `GracefulSpares`
which requests a graceful call may not cut, `ReturnMovesAll` what its return
means, `ReconnectReturns` that load cannot keep it from returning. `SwitchSpec`
is the refinement: with the certificate of the serving connection for `served`,
every step is a step of `CertSwitch` or a stutter.

External, from how the code uses it: fastrpc keeps one connection per client,
dials on demand, calls `Dial` before it handshakes, and drops or fails what was
written to a connection that closes. The two statements of `onConnDialed` are
one action (`connDials` is a counter nothing reads in between). A deadline of a
request is punctual here; fastrpc checks deadlines up to about a second late
(`client.go:73-78`), which only lets requests end later.

### Renewal and RenewalClock

`Renewal` has the data, `RenewalClock` the times: what a renewal does to the
files does not depend on how long it sleeps, and the times do not depend on the
files. In `Renewal` a certificate is its serial number, issued in order.
`Fetch` is a loop: the CA accepts and has not issued yet (`Accepted`), the poll
timer fires (`AskAgain`) or the two minutes of `fetchCtx` are found over
(`Expire`, `GiveUp`) - `select` takes either when both are ready - or a pair
comes, the one in use or the last issued (`FetchPair`). `Compare` is the check of
the serial and of `certCheck.load`, and `SaveKey`, `SaveCert` and `SaveFails`
are the replacements of the files, which can fail before the rename or, at the
read-back, after it. `Crash` takes the process at any of these steps, and
`Restart` is `NewWithMTLS` on whatever the files hold. It is the death of a
process, not of the machine: a rename that was made is still there. `OnRenewed`
is `SaveToFiles`.

`AppFetch` and `AppUpdate` are the application's own `Fetch` and `Update` beside the
renewer (`README.md:262` of the repository), two calls, at any of its steps.
`Update` stores any pair that loads (`certprovider.go:95-102`), so `AppUpdate` may
put in use any pair that was ever issued and is not refused, also one older than
the current: an application that comes late with what it fetched long ago. It
does so any number of times. The renewer compares what it fetched with the leaf
it read before, for equality only (`autorenew.go:104`): if the application puts an
older pair in use during a check, the fetch is made with that pair, may be
answered with it, and the renewer saves and uses it over the newer one it had
read. So the properties name what the application itself put in use, `given`, or
put in use during the check, `meanwhile`. `RenewsForward` is the limit of what a
check can do: it uses a newer pair than its leaf, or one of `meanwhile` - never
an older one by itself, nor the one it started from. `KeyFirst` and
`RestartNotOlder` hold up to pairs of `given`; of a renewer alone they hold
outright, which is the theorem `RenewerAlone`. `EventuallyRenewed` is of an application that stops
updating at some time, whatever pair it left in use. An application that saves
its own pairs over the same two files, beside the renewer, is not modelled.
`UpdateRefused` is a pair that was validated and saved, and does not pass again
when it is to be used. Which serials are refused comes from `Certificates`: the
pairs of `MCRenewal` are bundled with the intermediate or without it, sound or
not, and issued by an intermediate the SDK carries or does not. External, from
how `Fetch` is documented: the CA answers with the certificate the request was
made with, or with the last it issued.

In `RenewalClock` a try takes up to `CheckMax` (the fetch timeout of two
minutes, `OnRenewed` and a graceful `Reconnect`) and ends renewed, without news
or failed. Sleeps are punctual to a unit of time and there is one clock,
and the renewer alone replaces the certificate.
`AskedInTime` (no certificate expires without the CA having been asked while it
was valid) needs `RenewBefore` to be no shorter than the interval and the CA to
issue nothing that expires within an interval; `KeepsTrying` accounts for all
the time from when a certificate is due by the tries made in it, a failure
costing no more than its own retry wait.

### DNSDialer

A dial is `NextAddr` (the address is taken and `d.mu` released) and then
`Register` or `DialFails`, with anything in between. A refresh is `Lookup`
(without the mutex), `Apply` (new rotation, counts and target), `Examine` once
per connection in any order, `Unlock`, and `CloseChosen` after the mutex has
been released. `Locked` keeps out of the mutex whoever needs it. Requests come
and go by `SetBusy`, also between being seen idle and being closed.

A pool that does not divide evenly over the addresses is cut down to the rounded
share at each refresh and dialed again on demand; and a connection that is busy
at every refresh stays on an address that was withdrawn. Both are what the code
does and nothing in the repository says otherwise, so `SettlesWhenQuiet` speaks
of the time after the name and the requests are quiet.

### Call

`Call` follows one request object per caller, since `Target` and `Report` write
the resolved payers into the application's own request. A payer is text: empty,
malformed, or a spelling (canonical or not) of a uuid, which may be the all-zero
one. `ApplyRulePayers` stamps up to the first rule that is refused, as the loops
do, so that a refused call leaves earlier rules stamped; the application then
corrects its request (`SetPayer`, `SetRulePayer`) and tries again. `asked` is
what the application itself wrote and `told` the payers it reported under.
`KeepsNamed` says that whatever is sent bills on each rule the client the
application named there, or one it reported this request under. That last part
is as strong as the code allows: a rule stamped by a refused `Report` keeps that
payer when the application reports again under another, for the client cannot
tell its own stamp from the application's.

`doUnary` is `NotMarshaled`, `DoDeadline` or `Overflow`, and then one of `Fail`,
`AnswerRefused`, `AnswerUnread` and `AnswerOK`. `Accounted` balances the counters
over all of them: an answer that was OK and did not unmarshal is in no counter.
One group of counters stands for those of each address and kind of request.

### RoundRobin and Configuration

`NewWithMTLS` takes a `Configuration` an application may pass - addresses blank,
without a host or a port, numbers zero or negative - and builds the groups, or
refuses when no one server name can be settled. `SomebodyToServe` says that no
later call takes a counter modulo zero; `VerifiedForItsHost` that the one server
name all addresses share is the host of each of them, unless the application
settled it.

Then come the two atomic adds of `getGroup` and `getClient`, any number of
callers between them, and counters that wrap at `Wrap` (2^64 in the code). The
clients of a group, and the groups, are used in turn up to one call, plus one for
each wrap when `Wrap` is not a multiple of their number.

The configuration is normalized twice, for the server name and for the client;
that the second time changes nothing, so that both see the same addresses, is
the theorem `NormalizedOnce`.

### Certificates

A CA is known by its certificate and by who signed it; a pool is a set of CAs,
or nil. `CheckTLS`, of another repository, is a chain from the issuer through
intermediates to a root, and a flag for whatever else it asks. The two ends
differ: `Loads`, of the client, adds what is bundled behind the leaf to the
intermediates of this one check, and asks neither for a uuid nor for the status;
`AuthenticateClientCertificate`, of the server, asks for both and looks at
nothing behind the leaf. What that leaves of the promise of `mtls.go:144-146` is in
the theorems `ChecksAgree` and `ServedCanBeLoaded`.

### Cloud

The listener is opened when there is a TLS configuration, closed, and left by
`Serve`; connections that are open are served on. `VerifyPeerCertificate` stores
the partner while the handshake is not over; plaintext connections and resumed
sessions come by `OpenUnverified` and have none. A request context is read,
handled in two steps (the identity and `lastCaller`, then the handler), written
and kept for the next request with the value it holds; `ReadRequest` is what
resets it. `ServedIsCertified` says that nothing is served, and no caller
remembered, without a finished handshake of a certificate that passed every
check; `TouchGranted` that a grant goes by the connection's own certificate;
`AnswersOwn` that a reused context answers its own request only;
`ReportsAccepted` that what the test reads was accepted, once. Identities are
stored before a connection is open and never change after, so `handle` reading it
once is the same as reading it where it is used.

### Exchange

One connection, the two pools of `pkg/contract`, and the contexts of the server.
A slice is a buffer, as long as its capacity, and a length: `Reset` leaves the
bytes, `append` and `readBytes` write over them and allocate when they do not
fit. A frame is fastrpc's number of the request, the code or status byte, four
bytes of size and the value; the number and the byte are written before the size
is refused, so a value over `MaxBytesSize` leaves them on a connection that is
then closed. `Close` lets any prefix of what is under way arrive, `Dial` starts
again with nothing. `Fail` is a call that stops waiting while its request, or its
answer, is still on the way; both objects go back to the pools and may be
anybody's when that answer comes. `OwnAnswer` and `ServedOnce` say that none of
this shows. The first: a call that got an answer got the one to its request, byte
for byte. The second is the refinement of `AtMostOnce`, through the history
`served` of what the handler was given, in order: each request is handled at
most once, whole and as it was asked; whoever has an answer was handled; and
one whose caller gave up may have been, or still be.

External, and assumed: fastrpc numbers requests so that no two that are under way
share a number, does not send a request again, forgets a request before `DoDeadline` returns and does not write
into its response after; an answer nobody waits for is read into an object of
fastrpc's own; the first error of a frame ends the connection; TCP loses nothing
but a tail. Contexts of requests from a connection that was closed are answered
to nobody.

## Runs

| run | instance | states | what it shows |
|---|---|---|---|
| `reconnect` | 1 client, 2 calls at a time, 2 certificates, 2 dials, 1 slot | 4.5M | the safety of `Reconnect` and the refinement of `CertSwitch` |
| `reconnect_returns` | 2 clients, 1 call | 190k | it moves every client, and returns under load |
| `renewal` | 5 certificates, 2 of them refused, the application updating too | 43k | files and pair in use, through failures and crashes; a due certificate is replaced, a fetch ends |
| `renewal_saved` | 2 certificates | violation | finding 1 |
| `renewal_clock` | RenewBefore = interval = 4, retry 1, tries of up to 2, lives of 5 to 9, 22 units | 37k | no certificate expires unasked for; failures are retried soon |
| `dns_dialer` | 3 clients, 2 addresses | 335k | something to dial, and the shares, in every order |
| `dns_dialer_settles` | 2 clients, 2 addresses | 79k | withdrawn and crowded addresses are left |
| `call` | 2 callers, 2 clients of one pending request, 3 calls, 8 requests | 3.5M | who is billed, what is counted, what OK means |
| `call_status` | 1 caller | violation | finding 2 |
| `round_robin` | 3 callers, 7 configurations, counters of two bits, 32 calls | 4.6k | what is built; turns at both levels and over wraps |
| `cloud` | 2 connections, 2 contexts, 2 requests of 9 kinds, 8 certificates | 891k | who is served, and with what |
| `exchange` | 2 callers, 2 objects in each pool, 2 contexts, 2 calls of 4 kinds, values of up to 2 bytes | 688k | own answers, and requests handled whole and at most once (`AtMostOnce`), over cuts and redials |

Why the bounds are enough. `reconnect`: the properties relate one client to one
or two calls, clients share nothing but the certificate, and two dials and two
certificates are an old and a new of each; that a call waits for all clients
needs two, which `reconnect_returns` has. Its clock runs only while a graceful
wait depends on it, and then to the end of that wait. `renewal`: each renewal
starts from matching files, or from a failed save or an `Update` of the
application's of an older or a newer pair, so that three certificates, with a refused one before each of the
later two, already meet every combination. `renewal_clock`: three lifetimes with
every way a try can end in each. `dns_dialer`: three connections over two
addresses is the smallest pool that does not divide. `call`: three calls are a
refused one, a resubmission and another caller's; a pending request per client
is enough to overflow one client while the other is idle. `round_robin`: the
upper counter wraps eight times and each lower one twice or more, over
one, two and three groups of one, two and three clients, three not dividing the
wrap; each configuration is there for a case of normalisation or of the server
name. `cloud`: a context that is reused and another beside it, on a
certified and an uncertified connection, and a certificate refused for each
reason there is. `exchange`: an object that is reused, over what a longer value
left in it, and one beside it; a value at the limit, a request over it and an
answer over it; every cut of every frame. What is read depends on the call before
it only through the buffer, so two calls are an old and a new one.
The theorems take away the bounds where there is one.

Symmetry is used in runs without liveness only, over identities the modules only
compare.

### Fairness

- `reconnect_returns`: the clock advances, and the goroutines of `Reconnect` and
  its return are scheduled. Nothing is assumed of the network, of the cloud or of
  the requests, which may keep coming.
- `renewal`: the renewer's steps are scheduled, a request to the CA ends, with or
  without an answer, and so do the poll timer and the two minutes of the fetch;
  that the fetch as a whole ends is `FetchEnds`. Strongly fair, because they may
  fail any number of times first: the CA issues, answers with a pair that is new
  and accepted, each file can be written, and what was validated passes again. The
  application stops updating at some time (a premise of `EventuallyRenewed`).
  `EventuallyRenewed` says what the
  retry loop makes of such a world; without it no client can promise anything.
  Nothing makes the process crash or start.
- `dns_dialer_settles`: the ticker ticks and a refresh goes on, and a dial ends
  one way or the other (it has a timeout).

Deadlock is not checked where the bounds, or an unreadable pair of files, stop
the system; `dns_dialer` and `dns_dialer_settles` never stop.

## What is proved

For every value of the constants that the named assumptions allow. None bounds
the clients, certificates, requests, connections or times; of `Exchange`, the
number of a request is a byte, so that a behaviour has up to 255 calls, and
`MaxBytesSize` is at most that of the code.

- `Reconnect_proofs`: `TypeCorrect`; `PointerCorrect` (`PointerInv`: pointers do
  not run ahead of dials, a goroutine about to forget a connection has closed it,
  the open one is in `client.conn`); `CertCorrect` (`CertInv`: what a running
  goroutine need not close presents a certificate at least as new as its call);
  `GraceCorrect` (`GraceInv`: who stopped waiting saw an idle client or the
  deadline). From these: `Settles`, `Reachable`, `Spares`, `ReturnMoves`, and
  `Implements`, the refinement of `CertSwitch`. `SettledStaysSettled` alone is not
  inductive: that a goroutine which found nil has nothing to close rests on
  `PointerInv`, since the hook stores the connection before the certificate is
  read.
- `Renewal_proofs`: `TypeCorrect` and `FilesCorrect` (`FilesInv`: what a check
  fetched is the leaf it started from, or a pair the application put in use during
  it, or `Newest`, no older than anything saved or used; and where a renewal has
  got to determines which of file, file and pair in use are equal), from which
  `KeyIsFirst`, `SavesUsable`, `InUseOnDisk` and the step properties
  `RestartsNotOlder` and `Forward`, for an application that hands any pair to
  `Update` at any time. Without the part about what is fetched a save could put an
  older key beside a newer certificate. `RenewerAlone`: where the application
  leaves the certificate to the renewer, used <= certificate file <= key file, and
  nothing in use is older than anything used before.
- `RenewalClock_proofs`: `TypeCorrect`; `AsksInTime`, under the named hypothesis
  `InTime`, from `WakesInTime` (a certificate nobody asked to replace is valid
  until the renewer wakes); `AlwaysTrying`, from `AccountsAhead` (what is
  accounted for reaches to the end of the sleep or the try).
- `DNSDialer_proofs`: `TypeCorrect`; `Dialable`, from `Rotation` (what a refresh
  is about to make the rotation is not empty); `Shares`, from `ShareInv` with
  `Counted`: while the mutex is held, what is counted of an address is what is
  open of it and not chosen for closing, and an address a connection of which was
  chosen still counts its share. It is stated of the time under the mutex: once
  that is released, connections are dialed and closed beside those chosen.
- `Call_proofs`: `TypeCorrect`; `StampCorrect` (`StampInv`: a rule says what the
  application named on it, or a payer it reported under, or nothing yet; past
  `Stamp` it says something), from which `Keeps` and `Paid`. The invariant has to
  cover requests that are not being sent, because a refused call leaves its
  stamps. `Successes`; and `Accounting`, for which a step begins a call, ends it,
  or leaves the counters, so that the balance of begun and ended moves with the
  number of calls waiting.
- `Cloud_proofs`: `TypeCorrect`; `Certification` and `Grants`, from `ServedInv`
  (`Handshakes`: an identity on a connection is the uuid of the certificate
  presented on it, which was authenticated, and an open one has finished;
  `OverIts`: a request is on an open or closed connection; `Remembered`: the last
  caller was so identified); `OwnAnswers` (a value under way holds nothing but its
  own number); `Reported`, from `Numbered` (requests under way have numbers
  of their own) and `Channel`.
  Of `Certificates`, for any pools and certificates: `ChecksAgree` (where client
  and server have the same CAs, and what is bundled is among the server's, the
  two checks differ in the status and the uuid only), `ServedCanBeLoaded` and
  `TouchCheckLoads` (the client is never the stricter), `DefaultsLoad` and
  `TestPKIWorks`.
- `Exchange_proofs`: the frames themselves, for any bytes - `ReadBack` (what was
  written is read, whatever the pooled object held, and what is behind it is left)
  and `CutShort` (less than the whole frame is an error); `TypeCorrect`; and
  `ExchangeCorrect`, the inductive invariant, in six parts. `StreamInv`: what is
  under way is a sequence of frames, none there twice, each of a request that was
  asked or of its answer, of which the last may be cut on a connection that has
  ended. `PoolInv`: nobody has an object that is in its pool or another's, and
  requests in the pool are empty. `CallInv`: who is about to be told an answer has
  his own. `ResultInv` and `CtxInv`: what was told, and what is handled.
  `OnceInv`: a request is in one place at most - with its caller, on the way up,
  in a context, or handled - and its answer on the way down once. From these
  `OwnAnswers`; `Implements`, the refinement of `AtMostOnce`; and `HandledOnce`,
  what the refinement comes to. That the bytes are frames is what rests on
  `ReadBack`: a reader takes a whole frame away, and leaves frames. That each is
  there once has to be kept of the bytes under way and not only of the contexts,
  or reading one could be reading it again.
- `RoundRobin_proofs`: for any configuration, any finite number of callers and
  counters that wrap anywhere. `TurnsCorrect` is the inductive invariant `IInv`:
  the client is what `NewWithMTLS` builds of the configuration; the counter of the
  groups is the number of calls modulo `Wrap`, and that of a group the turns its
  clients had; the turns of the n-th in a row are the calls whose counter
  left n. The properties of the runs speak of how far two are apart, which alone is
  not inductive: nothing in it says whose turn is next. From it `TypeCorrect`,
  `Serves`, `Verified`, `ClientsTakeTurns`, `GroupsTakeTurns`; and, where the number
  divides the wrap, `EvenForever` (never more than one call apart) and
  `NobodyStarves`. Sums over callers and clients are taken by induction on their
  number, stated of a set of naturals, and the loop over the addresses is a function, of
  which `NormalizedOnce` says that a second pass changes nothing.

Only model-checked: liveness (`ReconnectReturns`, `EventuallyRenewed`,
`FetchEnds`, `SettlesWhenQuiet`), for temporal reasoning under fairness is outside
the prover. Every invariant and step property the runs check is proved.

## Findings

1. `renewal_saved`. README.md:216 of the repository says that a renewal that could
   not be saved leaves what is on disk and what is in use the same. `SaveToFiles`
   replaces the key before it tries the certificate, and a replacement can fail
   at its read-back when it is already made: the files then differ from the pair
   in use, and after a failed certificate do not load.
2. `call_status`. README.md:544 says that a status other than OK means the request
   reached the server. Payers and tracking ids the client refuses itself, requests
   it cannot marshal and requests fastrpc does not send have such a status too.

Seen while modelling and not a run of their own:

- `server.go:36` speaks of a drop after every successful response while `dropConn`
  runs after failures as well; `server.go:56-57` speaks of Target and Report
  requests while `unauthorized` counts any request without an identity.
- `autorenew.go:104` takes every serial but the leaf's for a newer certificate. It is
  not if the application put an older pair in use during the check: that pair is
  then saved, used and loaded by the next start (`RenewsForward`, `RestartNotOlder`
  with `given`).
- `autorenew.go:30` says the certificate is renewed before it expires; nothing
  compares `RenewBefore` with `RenewCheckInterval`, and if it is shorter a
  certificate can expire between two checks. `InTime` is the hypothesis
  `AsksInTime` needs instead.
- `mtls.go:144-146` describes the client's check as the cloud's own; the server of
  this repository asks for a uuid and the OCSP status too, and does not look at
  the intermediates the client bundles (`serverauth/auth.go`), so a pair can pass
  the one check and not the other.

## Not modelled

- `IsValidTrackingID`, a comparison; the sums of `PendingRequests`, of what
  `Reconnect` counts; `SwapValue`, `RemoteAddr`, loggers.
- What `CheckTLS` and `CheckStatus` ask beyond the chain, and the server's own
  certificate: they are in another repository, or crypto/tls's.
- fastrpc, crypto/tls, the resolver and the CA, but for how the code uses them.
- The commands, but for the TLS configurations of two of them: flags and printing.
- The generated accessors and the serialisation of the messages: a message is one
  of a set, and decodes or does not.

## Plan

Done, in the order of importance: `Reconnect` over `CertSwitch`, `Renewal` with the
application beside it, `DNSDialer`, `Call`, `RoundRobin` over `Configuration`,
`Cloud` over `Certificates`, `RenewalClock`, `Exchange` over `AtMostOnce`, with the
proofs above.
What is left:

1. `Exchange` over the connections of `Reconnect` instead of one that closes at any
   time, so that a graceful call is seen to spare answers and not only requests.
2. A report accepted without its caller being told, and what the application's retry
   of it does: the repository leaves that to the application.
