# wasm-smtp in TLA+

A model of the SMTP submission client of this repository: what its session
does against any peer, at every await, under failure and cancellation; how
bytes become replies and a message becomes bytes; how the adapters carry those
bytes; whom a login or a TLS stream ends at; and what a caller may conclude from
an `Ok`. TLC checks it on small instances, TLAPS proves the central invariants
for every value of the constants.

Paths below are relative to `crates/wasm-smtp/src/` unless they start
elsewhere.

## 1. The system

wasm-smtp is a library. One `SmtpClient<T: Transport>` owns one connection. Its
methods take `&mut self`, so a client runs one call at a time; concurrency is
between that call, the server, the network, and the caller, who may drop the
future of a call (its own timeout: "the caller's timeout to impose",
`crates/wasm-smtp-wasi/src/wasi_impl/stream.rs:92`) and go on with the client.

| Component | State it keeps | Operations | What makes it correct |
|---|---|---|---|
| Session state machine (`session.rs`) | `SessionState` | `can_transition_to` | no handler asks for a transition the table lacks |
| Client (`client/*.rs`) | `state`, `capabilities`, `rx_buf`/`rx_pos`, transport, audit sink | `connect`, `starttls`, `login*`, five `send_*`, `quit` | replies answer the commands they are read for; failure poisons the session and is audited; no body without an accepted envelope; no fallback to plaintext; `Ok` means delivered |
| Reply reader (`client/io.rs`, `protocol.rs`) | `rx_buf`, `rx_pos` | `read_reply`, `read_line`, `fill_buf`, `compact_rx`, `parse_reply_line` | result independent of how reads cut the stream; bounded buffer |
| Body encoder (`protocol.rs`, `message_body.rs`) | `DotStufferState`, `SliceBody.pos` | `process_chunk`, `finish`, `read_chunk`, `dot_stuff_and_terminate` | transparency; end of data exactly once; stream equals one-shot |
| SASL (`client/auth.rs`, `scram.rs`) | the exchange | `run_auth_*` | each mechanism succeeds only where it should; the server is verified |
| Policy, audit, errors, outcome | - | hooks and values | a refusal leaves the session alone; log in causal order |
| Strings on the wire (`protocol.rs`) | - | validators, `format_*`, SASL responses, base64 | a command line is read as the one command that was meant |
| Meaning of a reply (`protocol.rs`, `outcome.rs`) | - | capabilities, enhanced codes, queue ids | nothing made up, nothing that depends on the layout |
| Transports (tokio, WASI, Cloudflare) | stream: plain, TLS, gone; options of the connect call | connect, `read`, `write_all`, `flush`, `close`, `upgrade_to_tls` | the contract of `transport.rs`: EOF is not an empty read, no byte twice, no plaintext after an upgrade was asked for |
| Component export (`crates/wasm-smtp-component`) | the configuration; per call the client | `create`, `send`, trust anchors | the one result of five steps is never wrong; anchors all accepted or none |

Interaction: the client calls the transport (await), the policy and the audit
sink (synchronously), the body source (await); the caller calls the client; the
server is reached through the transport only.

What is hard here: replies are matched to commands by position only, also in a
pipelined batch of which a part was refused; a call can be abandoned in the
middle of a write or a read and the next one inherits the buffers; the upgrade
changes the meaning of bytes that may already have been received; every error
path has to poison the session; buffers, limits and chunk boundaries meet at
off-by-one distances. `PROJECT.json` lists these hazards line by line.

## 2. Modules

| Module | Models |
|---|---|
| `SessionState` | `session.rs`: states and transition table |
| `SmtpClient` | `client/*.rs` against an arbitrary peer |
| `SmtpSystem` | the client composed with a server that follows RFC 5321 |
| `ReplyReader` | the reply reader over bytes |
| `DotStuffing` | the body encoder over bytes, with an RFC 5321 receiver |
| `ScramMessages`, `Scram` | `scram.rs` and `run_auth_scram_sha256`: messages and hashes as terms; logins, a peer in between, the server |
| `Transport` | the contract of `transport.rs`, an abstract specification |
| `TokioTransport`, `WasiTransport`, `CloudflareTransport` | the adapters, each an implementation of `Transport` |
| `TrustAnchors` | `trust.rs` of the component: PEM text to a root store |
| `Wire` | `protocol.rs`, outgoing: validators, command lines, SASL responses, base64 |
| `Replies` | `protocol.rs` and `outcome.rs`, incoming: capabilities, enhanced codes, queue ids |
| `Delivery` | what a caller of the component may rely on, an abstract specification |
| `Component` | the component's export over `SmtpSystem` and `TrustAnchors`, an implementation of `Delivery` |
| `SmtpSystemProofs`, `ComponentProofs`, `ReplyReaderProofs`, `DotStuffingProofs`, `MessageProofs`, `TransportProofs`, `TokioProofs`, `WasmAdapterProofs` | theorems; `MessageProofs` is about `Scram` and `Strings` |
| `Strings` | inputs for all pure functions of `Wire`, `Replies`, `TrustAnchors` and `ScramMessages`, and their references |
| `MC...` | instances for TLC |

### SmtpClient

The code is sequential between two awaits. An action is therefore the code from
the resumption of one await up to the next: it takes a reply off the buffer (or
a failure), changes the session, emits audit events and issues the next write.
The variable `at` names the await the running call is suspended in (`"idle"`:
no call; `"gone"`: the client was consumed or dropped); the other variables are
the fields of `SmtpClient`, the transport as the client sees it, the locals of
the running call (`mech`, `kind`, `rcpts`, `todo`, `pipelining`) and histories
(`wrote`, `audit`, `oks`, `ret`, `wantTls`, `cancels`).

* `Fail` is `mark_closed_on_logical_failure` followed by the return of the
  error; `connect` then drops the client, `quit` goes on to `close_transport`.
* `WriteThen` is `write_all`: it succeeds, fails when the link is down, or is
  abandoned with a prefix of the commands out and perhaps one of them torn.
* `fill_buf` and `read_fails` are a read; `Cancel` abandons a call that is
  suspended; `invalid_input` is every refusal by a validator or by
  `assert_state_in`, `check_send` a refusal by the policy or for want of
  SMTPUTF8, `send_message` a message that cannot be serialized.
* The send methods differ in `kind`: `send_mail`, `send_mail_bytes` and
  `send_message` are `"mail"`, `send_mail_smtputf8` is `"utf8"`,
  `send_mail_stream` is `"stream"`.
* The peer sends any reply of `Replies`, at any time, solicited or not, also in
  the clear behind the 220 of an upgrade; the link may break at any time.

Abstractions. A reply is its code, its set of keywords and, for SCRAM, whether
what it carries verifies; code 0 is a reply that cannot be parsed. Part of a
reply in the buffer counts as residue like a whole one. `enhanced_status_enabled`
only annotates errors and is left out, as are the payloads of audit events.
A chunk of a stream that is not the last leaves the model's state alone
(`DotStuffing` has the chunks). `flush` is called in one place and fails like a
write. Bytes on a TLS channel that are not TLS are a read error; an adapter whose
upgrade is lazy reports its failure at the next read, which `read_fails` covers.
The WASI and the Cloudflare transport have `starttls` whatever they were opened as,
so the call is possible on a session that is TLS already, and its second handshake
may succeed (the Cloudflare one returns `Ok`) or fail; a failed upgrade leaves a
transport with TLS on it as it was and takes away one without.

### SmtpSystem

`SmtpClient` with the arbitrary peer replaced by a server that answers every
command once and in order, may refuse any of them, may say 421 and hang up, and
queues a message when it has read its terminator. Between 354 and the terminator
every line is text of the message, so a command of a caller who abandoned a
send becomes part of it; a torn command and what follows are one line. STARTTLS
over TLS it refuses (RFC 3207). The server is external: it stands for the servers the client is written for.

### ReplyReader

Streams of bytes, cut into reads of up to `READ_CHUNK`. The three digits of a
code are one byte, so positions are shifted by two; the limits are constants.
The reference (`MeantReplies`, `MeantEnd`) knows nothing of reads, buffers
or positions: it cuts the whole stream at its CRLFs and judges each line.

### DotStuffing

The chunk loop of `send_mail_stream`, one step per byte of `process_chunk`,
the source returning any number of bytes up to the buffer's size or failing. A
receiver following RFC 5321, 4.5.2, is run over the bytes as they are produced;
since its last two modes are absorbing, a receiver that lags behind has not seen
the end of the data either when this one has not. It takes CRLF for the end of a
line and nothing else, which is the contract of the body's documentation
(CRLF-normalized).

### Scram

Several logins of one client, the server that holds the password, and a peer
between them that forwards, repeats, mixes up and makes up messages. A message
is a sequence of attributes, a nonce the pair of its two halves, a hash a term:
equal exactly if key and message are. The peer can use every signature it has
seen and sign under passwords of its own; it cannot sign under the right one. That
nonces do not repeat is an assumption about the system's generator; what the client
makes of it, looking for its own in what it reads, is `parse_server_first`.
The actions are the stretches of `run_auth_scram_sha256` between two replies:
`build_client_first`, `ReadServerFirst` (`parse_server_first` and
`compute_client_final`), `ReadServerFinal` (334 with the signature, or 235 with
the signature in it), `Confirm`, and their refusals. `Strings` has
`parse_server_first` and `escape_saslname` over every short input, against a
reference without a loop.

### Transport and its implementations

`Transport` says what `SmtpClient` relies on: one call at a time; `write_all` is
`Ok` only when every byte has been taken, in order; `read` returns bytes that
were sent, and `Ok(0)` only at the end; a call may fail or be dropped with part
of its bytes taken; from a call of `upgrade_to_tls` on the plaintext stream is
gone. A byte written is its number, so repetition, loss and reordering show.

* `TokioTransport`: `plain` and `tls` are the two `Option` fields, `holding` the
  stream while `upgrade_to_tls` has it; `close` takes both before it awaits.
* `WasiTransport`: `inner` and `tls_config` as in the code. `resolve` and
  `tcp_connect` are the lookup and the dialling loop, `EmptyRead` and `Poll` the
  read loop, `write_all` one chunk of `MAX_BLOCKING_WRITE` at a time against a
  host that takes at most `HostLimit`. Its calls block and cannot be dropped.
* `CloudflareTransport`: `start_tls` returns at once, the handshake runs with the
  next I/O (`LazyHandshake`) and fails there.

Each maps its fields to `link` (`Link`) and shows `T!Spec` (`Contract`). Before
the connect call has returned, `link` is what it will be. The TLS configuration
(`default_root_store`, the caller's root store, the server name) decides which
peers a handshake accepts; a peer is the authority and the name of its
certificate. Only `OnlyToTrusted` (`Component`) says whom TLS ends at: for an adapter
alone it would repeat the guard of its handshake. rustls, the sockets and the worker's
runtime are external, the late handshake of the worker's socket included, before which
it passes no byte: a byte counts as taken when the stream object has taken it.

### TrustAnchors, Wire, Replies and Strings

Pure functions. `Strings` grows an input for each by a line, word or character per
step and states what the functions promise about it; its bounds cut the inputs for
TLC and play no part in the proofs. A character stands for a
class the code tells apart (a letter, CR, a C1 control, any other character
beyond ASCII), and fixed text such as `MAIL FROM:` is one symbol; lengths count
octets. A reply to a message is a sequence of words and separators: the words of the
markers, `queued`, `as` and `id`, may be part of a queue id like any other, so markers
overlap, follow each other and stand for the id itself. The references are the other end: the rules over a whole PEM text, a
server that cuts a line at CR and LF and a path at its brackets, a server that
takes a SASL response apart. `base64_encode` and `base64_decode` are modelled on
numbers, with the shifts and masks as division and remainder.

### Component and Delivery

`create` validates the domain and resolves the anchors (`TrustAnchors!resolve`);
`send` then runs `connect`, `starttls`, `login`, `send_mail` and `quit`, which
are the actions of `SmtpClient` themselves, against the server of `SmtpSystem`.
`block_on` polls once and the WASI transport blocks inline, so nothing is
abandoned. A handshake succeeds only with a server whose certificate was signed
by one of the trusted roots; that the name matches is `WasiTransport`'s part.

`Delivery` has one message and one verdict. `Component` implements it: `ok` is
`sent`; `io` and `protocol` leave the outcome open (the reply may have been lost
after the server took the message); every other error is `refused`.

## 3. Runs

| Run | Properties | Shows | Bounds |
|---|---|---|---|
| `client` | `TypeOK`, `TransitionsAllowed`, `ClosedIsAudited`, `IdleIsReusable`, `ChannelIntegrity`, `BodyNeedsEveryRecipient`, `NoPlaintextFallback`, `ClosedIsFinal` | upgrades, logins and transactions against a peer that sends any reply at any time | 2 recipients, 1 transaction, 1 abandoned call; 2 unread replies where the client looks at the second |
| `system` | `InStep`, `OkMeansQueued`, `QueuedIsComplete` | each reply is read by the command it answers, and what an `Ok` and the server's queue mean | 2 recipients, 2 transactions, 1 abandoned call; a server with STARTTLS, PIPELINING and PLAIN, and one with LOGIN only |
| `streams` | `BufferBounded`, `ChunkingIrrelevant` | reading is a function of the bytes | 4 pieces, lines of 3, replies of 3 lines, threshold 4, reads of 4 |
| | `Transparent`, `StreamIsOneShot` | encoding is transparent | bodies of 6 bytes, chunks of 3 |
| `messages` | `ServerHasProved`, `NoFirstServesTwo`, `HonestServerAccepted` | a login succeeds only with the server that holds the password, never on another login's message, and does succeed with it | 2 logins, 2 users, right and mistyped password, 2 nonces of each side, first messages around every limit |
| | `OneCommand`, `CredentialsSurvive`, `RoundTrip` | what a server reads is what the caller gave | addresses of 4, credentials of 4, 5 bytes, 8 characters of base64; limits of 4, 2 and 2 octets |
| | `NoOfferIsLost`, `CodeIsSpelledOut`, `QueueIdIsReal` | what the client reads is what the server wrote | 7 words, 8 characters of text, 10 words of a final reply |
| | `AllOrNothing`, `ErrorNamesBlock` | all certificates of a text or none | 5 lines of any kind, 9 where nothing is wrong yet; limit of 2 blocks |
| | `ParsedAsSpecified`, `NameSurvives` | SCRAM messages are parsed and names escaped as specified | 4 attributes of 12, names of 4 of 7 characters |
| `tokio` | `Contract` | both Tokio transports implement `Transport` | calls of 3 bytes, 3 bytes each way; the native-roots build |
| `wasi` | `FirstThatAnswers`, `Contract`, `ReadReturns` | so does the WASI one; its dialling loop, and that a read of sent bytes returns | the same; 3 addresses, host calls of 2 bytes |
| `cloudflare` | `Contract` | so does the Cloudflare one | calls of 3 bytes, 4 bytes each way |
| `component` | `OnlyToTrusted`, `AcceptedIsReported`, `Delivers`, `SendReturns` | `Component` implements `Delivery`, and a call of `send` returns | 2 recipients, one call, 4 texts, 3 authorities, 3 sets of capabilities |
| `failed_upgrade` | `FailedUpgradeCloses` | violated, see below | 1 unread reply, nothing abandoned |
| `quit_closes` | `QuitCloses` | violated, see below | 1 recipient, 1 transaction, 1 abandoned call |
| `aborted_once` | `AbortedOnce` | violated, see below | 1 unread reply, nothing abandoned |
| `enhanced_code` | `CodeEndsAtBoundary` | violated, see below | 8 characters of text |

Why the bounds are enough to be interesting. Two recipients give a first and a
last one, and a refused one in either place; a second transaction meets what the
first left; two unread replies of an arbitrary peer are a reply and its residue,
and since only the residue check of `starttls` looks behind the first one, the
constraint `OneAtATime` of `client` keeps a second one out elsewhere, and follows
bytes in the clear on a TLS channel, which end a call like a broken link, around the
upgrade only;
the six of `SmtpSystem` exceed the four replies of the longest batch and a 421, so
that bound never cuts a behaviour short. One abandoned call, at any await or in
any write, with everything the caller may do afterwards.
In `streams` the threshold is reached by two lines and the hard limit by two
pieces, so compaction and overflow both happen with data behind them. Six bytes
hold a line, its CRLF, and the dot and CRLF that follow. In `messages` a second
login, of the same or another user, is what a replay needs, and its nonces run out
only after both have begun. Three bytes to a call and two to a host call give a
full chunk, a short one and an empty write, and a second call behind one that was
cut short. Two blocks of PEM are the limit and a third exceeds it; nine lines hold
those three. For addresses the limits are met exactly and exceeded by one, on each
side of the last `@`, and five bytes and eight characters of base64 reach every
remainder of a second group. A number exceeds `U16_MAX`, lowered to 60, with two
digits, and ten words hold two markers and an id behind either.

`streams` and `messages` put components side by side that share no variable, so the
state space is the sum of theirs: the half a behaviour is not about stays as it began.

`MaxUnread` bounds the peer, `MaxSends`, `MaxUpgrades` and `MaxCancels` the caller; no
guard of the client depends on them. A session that is TLS from the start has its one
upgrade over TLS.

Fairness. `quit_closes` (`FairSpec`): a suspended call is resumed when its I/O can
go on (an executor polls a woken task), the server goes on serving, and it closes
the connection after its last word; so the violation is not a call that is merely
never resumed. Nothing is assumed of the caller, and nothing forces the link to
break or to hold. `component` (`CFairSpec`) has the same with the guest in place of
the executor: the host lets a running guest go on. `WasiTransport` assumes just
that and no more, so its `ReadReturns` is about reads for which bytes or the end
have arrived. Without a server that goes on serving the code does wait for ever, by
design: timeouts are the caller's.

Each property has a mutant of the model (`PROJECT.json`) under which TLC finds
it violated: a missing close, a missing audit event, an off-by-one in the loop
over the recipients, a dropped residue check, a compaction that loses data, a
stuffer that forgets its state between chunks, a signature not looked at on one
of two codes, a stream kept until its upgrade is done, a last chunk that is
dropped, a trust anchor that is skipped or added.

### Where code and documents disagree

Shown by a run:

* `FailedUpgradeCloses`: after a failed upgrade nobody calls `close`, not even a
  `quit` that returns `Ok`; `transport.rs:129` promises it.
* `QuitCloses`: after a send abandoned in `Data`, `quit` writes `QUIT` into the
  text of the message and waits for a reply nobody owes, and never reaches
  `close`; `docs/src/core/core.md:106` has it close in any case.
* `AbortedOnce`: a `QUIT` that fails is audited twice, by the failing write or read
  (`client/mod.rs:242`) and by `quit` itself (`client/mod.rs:186`);
  `docs/src/core/policy-audit.md:88` and the comment at `client/mod.rs:230` rule it
  out. `ClosedIsAudited` holds with that exception.
* `CodeEndsAtBoundary`: `5.1.1.9` is read as 5.1.1 (`protocol.rs:200`);
  `protocol.rs:159` excludes a dot behind the code.

Noted without a run; the models do what the code does:

* The table has no transition from `StartTls` to `Quit` (`session.rs:92`), although
  `session.rs:30` lets any state go there: the `quit` that follows an abandoned
  `starttls` sends nothing, closes the transport and returns "internal session-state
  transition rejected" (`client/mod.rs:217`). `TransitionsAllowed` excepts it.
* On the pipelined path the session is in `Data` before any recipient was accepted
  (`client/send.rs:55`); `session.rs:56` says otherwise.
* The component reports `auth-rejected` also where no mechanism was offered and
  nothing was sent (`crates/wasm-smtp-component/src/lib.rs:306`);
  `wit/smtp.wit:167` means a rejection by the server.
* `base64_decode` takes a last group with `=` in front of data (`protocol.rs:613`);
  `protocol.rs:591` rules it out. Decoding and encoding again is checked in
  `RoundTrip` for unpadded texts only.
* An empty OAUTHBEARER user gives `n,a=,`, and a comma or an equals sign is not
  escaped (`protocol.rs:1134`); `client/auth.rs:218` says RFC 5801.
* A queue id behind `" id id "` is missed, the shared space being used up
  (`outcome.rs:175`); `outcome.rs:121` and `:132` say otherwise. `QueueIdIsReal`
  excepts the one marker that can overlap itself. `queued` is six characters of an id
  too: `queued as queued as ABCDEF` reports `queued`.
* Only the first line's enhanced code is looked at (`client/io.rs:175`);
  `protocol.rs:236` says lines that disagree are flagged. No property turns on it:
  nothing in the code compares the lines.
* With `native-roots` on WASI and no store to load, every connection fails
  (`crates/wasm-smtp-wasi/src/tls.rs:124`); `crates/wasm-smtp-wasi/src/lib.rs:68` and its
  `Cargo.toml:25` promise the bundled roots instead.
* `send_message` returns an `Io` error and leaves the session open when
  serialization fails, although `docs/src/concepts/errors.md:28` has every `Io`
  error close it (`IdleIsReusable` keeps that error apart).

## 4. Proofs

Checked by TLAPS for every value of the constants: any set of replies, any
number of recipients, transactions, unread replies and abandoned calls; any
stream, any way to cut it into reads, any limits; any body and chunk size; any number of logins and any messages
of the peer; any options, roots and peers of a transport; inputs of any length to the
pure functions. The assumptions are the
types of the constants (`RepliesAssumption`, `BoundsAssumption`, `OffersAssumption`,
`StreamsAssumption`, `LimitsAssumption`, `BytesAssumption`, `BodiesAssumption`,
`ChunkAssumption`, `TokioAssumption`, `U16Assumption`, `InputAssumption`), that `"none"`
is no reply code (`CodesAssumption`) and a body that is not base64 no certificate
(`TrustAssumption`), that PEM texts are made of the lines `classify`
returns (`TextsAssumption`), that a chunk of a WASI write is not empty and no
larger than the host takes (`WasiAssumption`), that `None` is no nonce and no user
(`NoneAssumption`), that the account's salt is base64 and its iteration count one the
client takes (`ServerAssumption`), and that no call inside the component is abandoned
(`NeverAbandoned`: `block_on` owns the future to its end). `TransportProofs` states its
theorems under `Bounded`, the type of its two constants, which `TokioAssumption` and
`WasiAssumption` imply.

| Theorem | States |
|---|---|
| `TypeCorrect` | `TypeOK` |
| `TransitionsAreAllowed` | `TransitionsAllowed` |
| `ChannelsNeverMix` | `ChannelIntegrity` |
| `NeverFallsBack` | `NoPlaintextFallback` |
| `ClosedStaysClosed` | `ClosedIsFinal` |
| `EveryEndIsAudited` | `ClosedIsAudited` |
| `BodyIsEarned` | `BodyNeedsEveryRecipient` |
| `IdleMeansReady` | `IdleIsReusable` |
| `SystemAgrees` | `SysInv`, the inductive invariant of client and server |
| `OkIsQueued` | `OkMeansQueued` |
| `NeverPartial` | `QueuedIsComplete` |
| `NeverOutOfStep` | `InStep` |
| `ComponentIsSystem` | `SysSpec`: the component runs the client of the system |
| `AcceptedIsAlwaysReported` | `AcceptedIsReported` |
| `ComponentDelivers` | `Delivers`, the refinement |
| `TrustIsEnforced` | `OnlyToResolved`: only to a server signed by what `resolve` returned |
| `ParserTakesAllOrNothing` | `parse_custom` takes all certificates of a text or nothing |
| `OnlyTheTrusted` | `OnlyToTrusted` |
| `BufferStaysBounded` | `TypeOK`, `BufferBounded` |
| `BufferIsTransparent` | `ReadsAreInvisible`: what is returned can be read off the stream |
| `ReadingIsAFunctionOfTheBytes` | `ChunkingIrrelevant` |
| `StreamIsTransparent` | `Transparent` |
| `StreamMatchesOneShot` | `StreamIsOneShot` |
| `MessageProofs!TypeCorrect` | `Scram!TypeOK` |
| `MutualAuthentication` | `ServerHasProved` |
| `NoFirstIsReplayed` | `NoFirstServesTwo` |
| `HonestServerIsAccepted` | `HonestServerAccepted` |
| `CommandsAreRead` | `OneCommand` |
| `CredentialsArrive` | `CredentialsSurvive` |
| `Base64RoundTrip` | `RoundTrip` |
| `OffersAddUp` | `NoOfferIsLost` |
| `CodesAreSpelledOut` | `CodeIsSpelledOut` |
| `QueueIdsAreReal` | `QueueIdIsReal` |
| `StoresAllOrNothing` | `AllOrNothing` |
| `ErrorsNameTheirBlock` | `ErrorNamesBlock` |
| `ParsingIsAsSpecified` | `ParsedAsSpecified` |
| `NamesSurvive` | `NameSurvives` |
| `TransportProofs!TypeCorrect` | `Transport!TypeOK` |
| `TransportProofs!BytesInOrder` | `Transport!InOrder` |
| `TransportProofs!NeverInTheClear` | `Transport!NoFallback` |
| `TokioProofs!KeepsTheContract` | `TokioTransport!Contract`, the refinement |
| `TokioProofs!BytesInOrder` | `Transport!InOrder` of the Tokio adapter |
| `TokioProofs!NeverInTheClear` | `Transport!NoFallback` of the Tokio adapter |
| `WasmAdapterProofs!KeepsTheContract` | `WasiTransport!Contract`, the refinement |
| `FirstAnswerWins` | `FirstThatAnswers` |
| `WasmAdapterProofs!BytesInOrder` | `Transport!InOrder` of the WASI adapter |
| `WasmAdapterProofs!NeverInTheClear` | `Transport!NoFallback` of the WASI adapter |
| `CloudflareKeepsTheContract` | `CloudflareTransport!Contract`, the refinement |
| `CloudflareNeverInTheClear` | `Transport!NoFallback` of the Cloudflare adapter |

The argument for the client. None of its invariants is inductive alone: what a
handler may assume about the session follows from the await it resumes. The
strengthening is `Control`: the await decides the state
(`AtDecidesState`), the counts of recipients fit it (`Counts`), and a transport
broken by a failed upgrade belongs to a session that writes no more
(`NoTlsNoSession`; without it a command could go out over no channel, and
`TypeOK` fails). `SmtpSystemProofs` first proves `TypeOK /\ Control` inductive, one
step per action, and builds each further theorem on it with the
invariant it needs: where the bytes behind the residue check come from, which
awaits may follow a call of `starttls`, how the end of the audit log mirrors the
state, and how many `RecipientAccepted` stand at its end for the recipients
already read.

The system. The server runs behind the client by the commands it has not read and
the replies the client has not consumed, so neither side's state says anything of
the other's alone; `SysInv` states what the two agree on about both and about what
is still unread. Its parts, and why each is needed:

* `Trail`: what the running envelope has written, position by position (`MAIL`,
  the recipients in order, `DATA`, all whole), on both paths of `run_envelope`.
* `Agreed`: as long as no refusal is on its way, the server's open transaction is
  the client's, with exactly the recipients up to the command it has read. A
  refusal always ends the send that reads it, which is why the pipelined path may
  lose step with a server that took fewer recipients.
* `GoIsLast`: a 354 is the last word of a server that has read everything. A client
  that reads it is in step with the server again, whatever came before; this is
  what makes pipelining after an abandoned call safe.
* `AtBody`, `AtFinal`, `PendingBody`: a body under way, torn or whole, abandoned or
  not, finds the server waiting for it with its own envelope, and the reply the
  client then reads is the reply to it.
* `NoDataYet`: a session that may start a transaction has no body, `DATA` or 354
  under way.
* `NotQueued`: the message of the running send is not yet in the queue, so nothing
  enters it twice.
* `Whole`, `Unbroken`, `Closing`: only abandoned calls tear a command, break a
  transport without closing the session or leave one in mid-transaction. `InStep`
  counts commands and replies and needs all three.

Every client action is one of a few kinds (it stays aside of a transaction, starts
one, advances one, writes the body, reads the final reply), each with its lemma; the
server's actions likewise (`Serves`, `Speaks`, `ServeText`, `ServeBody`, `Severs`).

The component. Each of its steps is a step of the system or leaves it alone
(`SystemStep`), so `SysInv` holds inside a call. `CallInv` adds what the phase
decides: which awaits can be running (`AtPhase`), how the last step ended
(`Outcome`: `send_mail` says `InvalidInput` only before a transaction has begun),
that there is one transaction and what its end makes of the result (`Reported`), and
where TLS comes from (`Channel`, `Handshaken`). With `nsend <= 1`, no message without
a number (`Envelopes`) and `QueuedIsComplete`, the queue holds one message at most;
so a message the server takes after the call has returned is one whose verdict was
left open, which is the hard step of `ComponentDelivers`. `OnlyToTrusted` needs, on
top of `TrustIsEnforced`, that the store of `parse_custom` holds only certificates of
the text. `Scanned` is the invariant of its loop: the store holds what follows every
BEGIN but the open one, and the open body is what was read behind its own.

Loops over data (`ScanLines`, `stuff_loop`, `ParseAttrs`, `scan_after`, `escape_saslname`,
the reference of the reader) are recursive functions. That such a function exists
(`Loop`, `RunsExists`), and what holds of it at every index, is an induction over the set
of the indices for which it does (`SetInduction`, from the well-foundedness of the
naturals), so it needs no theorem with an operator as a parameter.

The reader: a read preserves `BufferBounded` only because `compact_rx` leaves
fewer than the threshold of consumed bytes in front (`Compacted`), and
`find_crlf`, a least element, exists by well-foundedness. That the buffer is
invisible rests on `Window`: its unread part is the stream from `Consumed` to
`sent`. A line end is then seen in the buffer exactly if it has been read
(`SameEnds`), so the first line of the buffer is the next line of the stream
(`SameLine`). A reader that gives up at the hard limit without having seen the line
end is right to do so: the limit is twice the length of a line, and a CR that
may be the last byte read does not make up the difference. `ReadOffTheStream` is
about steps; `ChunkingIrrelevant` is its sum over a whole stream. The invariant for it is
`Progress`: of the lines the reference cuts the stream into, as many are behind the
reader as it has taken, and they make exactly the replies it has returned and the lines
and code of the one it is in (`Behind`). The line it judges next is the next of the
reference (`LinesByEnds`), good or bad alike (`LineIsJudged`), and where the stream ends
or a line is too long the reference ends as well (`EndsHere`).

The encoder: no induction over the message is needed, because the invariant is
about the step. The stuffer's registers are the last two bytes it was fed
(`Registers`) and the receiver is where the stuffer believes it to be
(`Synchronised`); one byte, doubled or not, keeps that. `StreamIsOneShot` relates the
steps of the stream to the turns of the other encoder's loop (`Agrees`): what is on
the wire is what the loop has put out after as many bytes, and the last two bytes
agree with the stuffer's registers wherever they could be a line end.

SCRAM: a login is accepted only behind a signature that verified, a signature
is either made up under a key that is not the server's or belongs to an exchange
the server signed, and a term determines the exchange, the first half of the
nonce included. A login that has taken a server-first message has found its own nonce
in it (`ReadItsNonce`), a message parses with one nonce only (`OneNonceParses`) and
nonces differ between logins; so no message serves two (`NoFirstServesTwo`).
That an honest server is not refused needs more of the state: what the server
has sent it has sent in its own form (`FirstIsOwn`), and a login past its
client-final has its proof on the wire (`ProofIsOut`). The loop of
`parse_server_first`, a recursive function, is unfolded on the three attributes
of such a message (`ThreeTurns`); the two sides then compute the same terms
(`BothCompute`).

The contract: `InOrder` relates what was taken, what waits and what was issued,
and is inductive with the types; the work is in what a cut and a concatenation
hold, position by position (`Cut`, `Tag`, `Joined`). `NoFallback` needs
`NoWayBack`: once asked, the link is never plain again.

The adapters: a step maps to a step of the contract only where the fields cannot
contradict each other, and each adapter's invariant says so. `WasmAdapterProofs`
extends `WasiTransport` and instantiates `CloudflareTransport`; the variables of the same
name are shared, and each theorem is about the specification of one adapter.

* WASI (`IInv` of `WasmAdapterProofs`): the upgrade holds the stream (`Taken`) only while it runs, a `close`
  has left none, and a plaintext stream still has its `tls_config`, without which
  `upgrade_to_tls` would leave the stream in place and `NoFallback` would fail. An
  empty read and a `poll` map to stuttering; a chunk is a `Take`, because
  `MAX_BLOCKING_WRITE` is not zero and no chunk is larger than the host takes
  (`WasiAssumption`). `Dialled` is the loop invariant of `tcp_connect`.
* Cloudflare (`CfInv`): the socket is out of its place only during the upgrade, and
  one that is there after an upgrade is the upgraded one; a TLS channel is never
  without a handshake, done or due. The late handshake maps to stuttering.
* Tokio (`IInv` of `TokioProofs`): at most one stream, the upgrade holds one only while it runs and
  then there is no other, a `close` has emptied both, and no plaintext stream once an
  upgrade was asked for.

In all three no byte waits outside a write. The simulation lemmas have one step per
action. That bytes stay in order and nothing falls back to the clear is not proved
again: those are the contract's theorems, instantiated with `Link`, and hold of every
adapter that keeps the contract.

The strings. `InputOK`, the type of the inputs, is the only invariant; each property is a
fact about all inputs of its type. What each rests on:

* `OneCommand`, `CredentialsSurvive`: where the separators stand in a concatenation; the
  positions ascend, so the rank of each is its index (`Ranks`).
* `RoundTrip`: 24 bits are four groups of six and three of eight (`SixesJoined`), and each
  position lies in one chunk at one place (`ChunkOf`, `ThirdOf`); the padding
  of the last chunk is what was missing of it.
* `CodeIsSpelledOut`, `QueueIdIsReal`: the ends of digits and tokens are least elements;
  the search is a loop that has passed over no long token yet (`NothingMissed`), which
  a turn keeps where two markers cannot share a character (`NoOverlap`).
* `NoOfferIsLost`: an offer of the whole reply is an offer of one of its lines, and
  the choice is monotone in what is offered.
* `ParsedAsSpecified`, `NameSurvives`: loop invariants. After n attributes each value is
  the last one given and nothing that refuses the message has come (`Clean`, `LastOf`);
  after n turns of the server it stands behind the escape of the nth character
  (`EscapedTo`).
* `AllOrNothing`, `ErrorNamesBlock`: `ScanInv`, what the scan has established after n
  lines. The boundaries so far come in turn, their number is twice that of the blocks,
  less one if a block is open, the store is that of the closed blocks, and the body of
  the open one is what stands behind its BEGIN. A line keeps this, or it is
  refused and the text as a whole is not acceptable (`Refused`). The text up to the END
  of the last finished block (`LastEnd`) is scanned alike, which is why it is taken.

Model-checked only: liveness (`SendReturns`, `ReadReturns`), which is out of the prover's
reach. Every safety property of a passing run is a theorem.

## 5. Not modelled, and the plan

Not modelled, and why:

* `BoundedPolicy` beyond its verdict: two comparisons of a count with a limit,
  before anything is sent.
* Error texts, `Display`, io error kinds, wording of audit events; the tracing
  helpers: output only.
* The test transport: scripted, deterministic, and deliberately not an
  implementation of `Transport` (a failed upgrade leaves it usable, and an empty
  chunk of a script reads as the end of the stream).
* The tools and examples: command lines around the library.
* What lies below the adapters: sockets, rustls and tokio-rustls, the worker's
  runtime, the WASI host. In particular what a TLS library holds back when its
  write has returned, on which the hazard at `client/send.rs:57` turns.
* SHA-256, HMAC and PBKDF2 themselves: terms in `Scram`.

What could come next: the `BoundedPolicy` with its counts, once its limits depend on more
than one message; the buffers of a TLS library between `write_all` and `flush`, which
would turn the hazard at `client/send.rs:57` into a liveness property; a lemma of
progress for `SendReturns` once the prover can reason about `ENABLED`.
