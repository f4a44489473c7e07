# Verification of rust-gaussdb

TLA+ models of the client library in `src/src/`, model-checked with TLC, and
theorems about them proved with TLAPS. Line references are to the source files.

## 1. The system

A `Client` owns one `Connection`, which owns one TCP or TLS stream wrapped in
`Framed<_, PgCodec>`. Every public call is an `async fn` on `&mut self`: it sends
one or more frames and then reads messages until `ReadyForQuery`. There is no
background task. What runs concurrently is the server at the other end, which
may send something at any time, and the application, which may drop a call's
future at any `.await` and call again.

| component | state | operations | hard behaviour | modelled in |
|---|---|---|---|---|
| wire stream (`codec.rs`, tokio-util's `Framed`) | write buffer, read buffer, the flags `is_readable`, `eof`, `has_errored` | `encode`, flush, `decode`, end of stream | frames in pieces, unknown tags, decode errors, cut streams | `Framed`, `Wire` |
| client calls (`client.rs`) | the locals of the call in progress | `query`, `query_params`, `execute`, `execute_params`, `set_schema`, `query_extended`, `poll`, `close`, `drain_until_ready` | whose answer is being read: errors, dropped futures, lost connections | `Session`, `Calls` |
| notifications (`client.rs`, `connection.rs`) | a broadcast channel | forwarded from every read loop and from `poll` | arrival between any two messages | `Session` |
| transactions (`transaction.rs`) | `finished`, `released`, the borrow of the `Client`; on the server the transaction and its savepoints | `begin`, `commit`, `rollback`, `savepoint`, `release`, `with_transaction`, the two `Drop`s | partial failure, handles dropped unfinished | `Transaction` |
| startup and TLS (`connection.rs`) | parameters, cancel key | `connect`, `tls_handshake` | refusal, hanging servers, notices | `Startup` |
| authentication (`auth.rs`, `connection.rs`, `codec.rs`) | `GaussAuthState` | `decode_auth`, `authenticate_sasl`, `rfc5802_sha256`, `detect_iteration` | four challenge forms told apart by length, mechanism choice, optional last message | `Startup` |
| database server | external | the frontend/backend protocol | | `Backend`, and parts of `Transaction` and `Startup` |
| parameter substitution, quoting (`client.rs`) | the text so far | `substitute_params`, `substitute_str_params`, `quote_string`, `double_quote_identifier` | substituted text substituted again, what the server's lexer makes of it | `Params`, `SqlText`, `Text` |
| rows and conversions (`row.rs`, `codec.rs`) | none | `to_sql`, `build_bind_message`, `decode_row_description`, `decode_data_row`, `get`, `get_by_name`, `from_sql` | NULL and empty values, counts of 16 bits, integer ranges | `Params` |
| configuration (`config.rs`) | the `Config` | `parse` (pairs and URIs), `apply_env` | quoting, delimiters, percent decoding, defaults taken for missing values | `Config`, `Text` |
| errors (`error.rs`) | none | | | not modelled: data types and formatting |
| cancellation (`Client::cancel`) | none | 16 bytes on a connection of its own | | not modelled: its effect is a failing statement, which `Backend` has |

What makes each component right:

* stream: a frame is taken once, whole and in order;
* calls: a call returns the answer to that call, all of it, and leaves nothing of
  it behind, whether it succeeds or fails; every call returns;
* notifications: each is forwarded exactly once;
* transactions: the writes of a transaction are durable together or not at all,
  and a `Client` that can be used directly has none open;
* startup: `connect` hands over an idle server, keeps what the server reported,
  honours sslmode, and succeeds when it should;
* parameters and rows: a statement means what it would with its values in place, and a
  value that goes to the server and back is the same value or visibly none;
* configuration: a connection string is read as it was meant.

`PROJECT.json` lists the hazards behind these, each at its line.

## 2. The modules

    Framed  <-  Backend  <-  Session  <-  SessionProofs  <-  AnswerProofs
    Wire         implements Framed     (INSTANCE Framed WITH ...)
    Session      implements Calls      (INSTANCE Calls WITH ...)
    Transaction  <-  TransactionProofs
    Startup      <-  StartupProofs
    Wire         <-  WireProofs
    Text  <-  SqlText  <-  Params  <-  ParamsMC
                                   <-  ParamsProofs
          <-  Config   <-  ConfigMC
                       <-  ConfigProofs
    Text         <-  DataProofs        (lemmas for ParamsProofs, ConfigProofs)

The definitions marked "Mutant:" are plausible bugs that no specification uses. Put in
the place of the definition that follows, each makes a property of the runs fail: they
document what the property is sensitive to (`PROJECT.json`, "mutants").

### Framed

Each direction is one sequence of frames with cursors into it. `out` holds what
the call in progress sends: `wr` frames are accepted by the socket, `enc` encoded
into the write buffer. `s2c` holds what the server sent: the first `got` frames are
in the read buffer. One poll of `next()` is a series of `Fill`, `FillEof`, `NeedMore`
and `SkipUnknown` steps up to one of `Yield` (a message), `YieldErr`, `YieldNone`, or
up to a pending read. The flags follow `FramedRead::poll_next` of tokio-util 0.7
(external); what `decode` does with the buffer is `codec.rs:77-147`. Sockets have a
capacity: a large frame may not fit, small ones always do. Bodies are abstracted to
kinds; `Malformed` is a body on which `decode` returns an error, `Unknown` a tag for
which it has no arm (`codec.rs:144`, which consumes the frame and returns `Ok(None)`).

### Wire

The bytes that `Framed` leaves out. A frame has a size; `buf` bytes are in the read
buffer; a read brings one byte or more, up to what has arrived, and the connection can
be cut behind any byte. `TryDecode` is `decode` of `codec.rs:77-96`: with fewer bytes than
the length field, or than the length in it says, nothing happens; else the frame is
taken. At the end of the stream `decode_eof` makes an error of what is left
(`CutFrameIsError`; `Framed`, which has no bytes, leaves both an error and the clean end
open there, and the refinement alone would not tell them apart).

`ReadsFrames` says that this implements the read half of `Framed` (`ReadHalf`). The
refinement mapping keeps the frames that are wholly there and counts those that are
wholly in the buffer; a read that brings no complete frame is a stutter, and `partial`,
a history variable, hides `is_readable` between it and the attempt to decode.

### Backend

The server (external): the simple and the extended query protocol, with result sets,
statement errors, skipping up to `Sync` after an error, COPY, notices, notifications,
fatal errors and loss of the connection with any part of what was in flight. Every
frame carries `at`, the place in the answer it belongs to (request, row, result set,
set of the last row count). The client never looks at it: properties compare it
with what a call returned.

### Session

The calls of `client.rs`. `pc` is where the client is: `idle`, `send` (inside a
`send().await`), `read` (inside a read loop), `drain` (`drain_until_ready`), `poll`,
`closed`. `query`, `query_params` are `"query"`; `execute`, `execute_params`,
`set_schema` are `"execute"`; `query_extended` is `"extended"`, its six frames in the
order of lines 127-132. The three read loops are one set of actions, one per
message kind: they differ in what they keep in `acc` (columns and rows, or the
count). `DropWhileSending` and `DropWhileReading` drop the future at its await
points. `clean` is a ghost: it becomes false when a call is dropped (a dropped `poll`
has done nothing and does not count) and when the stream ends or errs.

### Calls

What a `Client` promises, as an abstract specification of five actions: a call begins, the
server decides it once, the call returns that decision; `poll` returns something else;
or the connection is over, and nothing more is promised. `KeepsPromise` in `Session` says
that `Session` implements it. The decision is visible in `Session` before the client has
read it: it is taken when the `ReadyForQuery` that ends the answer is sent (`Ready`), and is an
error if an `ErrorResponse` stands before it or has been taken already (`Decision`). It
holds the number of rows, or the count for `execute`. Messages in between are stutters.
The connection is over when it is closed, when a call was dropped or met a stream error
(`~clean`), and when it is lost before the end of an answer was sent. So from then on a
loss does not matter: a call whose `ReadyForQuery` is on its way returns its decision.

### Transaction

`Transaction`, `Savepoint` and `with_transaction`, one step per call, over the
transaction block of the server. `borrow` says which of `Client`, `Transaction` and
`Savepoint` the program can use, as the borrow checker enforces it. Each call may
succeed, fail with a database error, or fail with the connection; in the last case
a COMMIT may or may not have been done. The two `Drop`s send nothing. `owner`,
`swallowed`, `abandoned` and `outcome` are ghosts. That a call gets its own answer is
Session's result, so no call is dropped half-way here.

### Startup

`Connection::connect` from TCP to the first `ReadyForQuery`, with `tls_handshake`, the
authentication exchanges and `decode_auth` (the form of a GaussDB challenge is
computed from its length, as the code does). Cryptography is abstracted: a proof is
right when the password and the iteration count are. The GaussDB exchange announces
`SCRAM-SHA-256` whatever mechanism it chose (`connection.rs:301`); a `strict` server takes no
proof but that of the mechanism announced, the others do not look. `process_server_final` has three ways
with a final message: `v=` with the expected signature or another, `e=`, and neither, which it
accepts without a check (`auth.rs:211`; `final`). `faulty` behaviours have refused and
unreachable addresses, wrong nonces, final messages of the wrong forms, servers that
hang or vanish; others have none of these. `cfg.tlsFeature` tells the builds with and
without the `tls` feature apart, and `cfg.trusted` says whether the certificate is one that
verification accepts: `tls_handshake` verifies it in `verify-ca` and `verify-full` only (`Verifies`).
`answer` remembers the byte with which the server answered the request for TLS. When it is
`N`, only `require` fails: `prefer`, and also `verify-ca` and `verify-full`, go on in plaintext
(`connection.rs:215-219`). `SslModeKept` says so.

### Params, SqlText and Text

The way of a parameter to the server and of a value back. Texts are sequences of byte
values (`Text` has `str::replace`, `split_once` and `split`). `substitute_params` is a loop, one
step per parameter from the last to the first (`ReplaceParam`), each a `replace` in the
whole text. `SqlText` is the server's lexer (external): literals with and without escapes, quoted
names, dollar quotes with and without a tag, both kinds of comments, words (with `_` and bytes beyond ASCII),
numbers and placeholders. What it does not read (a literal or a comment that is never closed, a comment in a comment)
is one token to the end of the text. The reference definition is `Meaning`: the tokens of the
statement with every placeholder replaced by the tokens of its value, all at once.
`StatementKeepsMeaning` compares it with the tokens of the text that is sent, and names
the six cases in which they may differ:

* `InsideLiteral`: a placeholder inside a literal, a name, a dollar quote or a comment (a value with `*/`
  in it ends the comment), or behind what the lexer does not read;
* `LongerNumber`: `$10` without a tenth parameter;
* `Touching`: nothing stands between a placeholder and a word, a literal, a number with its point or exponent,
  the `&` of `U&'..'` or another placeholder (`tbl_$1`, `1$1`, `$1$2`), or only white space with
  a line end, over which the server joins two literals;
* `InsideValue`: a value contains the placeholder of an earlier parameter;
* `Unquoted`: a value is put in without quotes though it is not a number (bool, uuid, JSON, NaN);
* `MinusSwallowed`: the minus of a negative number becomes a part of what is before it (`-$1` begins a comment,
  `@$1` is the operator `@-`).

Two of these contradict comments of the code, and have runs of their own (section 5). Outside the six cases, for
every statement and every list of values, the two are the same (section 4). What is compared are
tokens: how a grammar groups them (`2 ^ $1` with a negative value) is left out.

`query_extended` builds its Parse and Bind messages, with every value declared as text. The server
reads the values by their lengths and runs the text input of their types on them: it refuses a byte 0, and may refuse a JSON document with an escape
(`MayRefuse`); the text input of bytea reads `\x` as hex, and any other backslash as an escape (`ByteaIn`), so a `Vec<u8>`,
which is sent as its raw bytes, may be refused or become other bytes. It refuses messages whose counts are not
the number of values (`Miscounted`). That is a server's own rule, taken as given. Else it answers with a row of the values (`ServerEchoes`), and the messages are decoded and converted
(`from_sql`, `get`, `get_by_name`). Inside a message an integer field is one element.

### Config

`parse` and `apply_env` over symbols: a character that means something to the parser, or a
word that does not. The application writes a list of settings as key=value pairs or as a URI
and the result is compared with what the list means (`Meant`: the last setting of a key,
defaults for the rest). `split_key_value_parts` is a loop over characters (`SplitChar`), the
assignments are a loop over parts (`ParsePart`). `DsnReadsBack` excepts values with
their own quote, for which there is no escape. `UriReadsBack` excepts four cases: a delimiter
that was not encoded (`Undelimited`), an encoding of what is not decoded, the host, port,
database and query values other than names (`EncodedInVain`), text outside ASCII in what is
decoded (`OutsideAscii`: one character for each byte), and a port without a host, or an empty host without a
port (`EmptyHost`). `EnvReplacesOnlyDefaults` excepts a field that was given its default, which
`apply_env` takes for missing; `EnvFillsMissing`, what the comment of `apply_env` says, does not (section 5).

## 3. Runs

| run | question | bounds |
|---|---|---|
| SessionAnswers | does every call return, with its own complete answer or an error? | 2 calls of any kind, close, 2 result sets of 1 row, 1 notice, lost connections, sockets of 1 |
| SessionFaults | and next to dropped calls, polls, unknown tags, malformed bodies? is each notification forwarded once? | 2 queries and any number of polls, 1 row, 1 notification, 1 unknown tag or malformed body |
| SessionHangs | when does a call never return? | 2 calls, simple or extended, 1 row, drops, COPY, 1 unknown tag |
| DrainedNotes | violation, see 5 | 1 query |
| TransactionSafety | atomicity, nothing left open | 2 transactions, 3 writes, 2 savepoints, 2 names |
| CommitOnOk | violation, see 5 | 1 transaction, 2 writes |
| StartupFaults | what does connect hand over, when does it succeed, when hang? | all sslmodes, both builds, trusted certificates or not, 19 challenges, 2 parameters, 1 notice |
| WireChunks | does reading bytes give whole frames, and a cut frame an error? | 3 frames of 5 or 7 bytes, of every outcome of `decode` |
| Values | does a parameter mean itself, and come back? | statements of up to 3 pieces out of 6, and a placeholder in or beside comments, dollar quotes, names and line ends (45 ways); up to 2 parameters out of 13 values (or 10, of which 2 matter), names of up to 3 characters, up to 5 bound parameters with a count of 2 bits |
| ConfigParse | is a connection string read as it was meant? | up to 3 pairs; URIs with every combination of parts; 2 environments |
| ParamLiterals | violation, see 5 | the statements and values of Values |
| EnvFills | violation, see 5 | as ConfigParse |

SessionAnswers and SessionFaults also check the refinement `KeepsPromise`, WireChunks `ReadsFrames`.

Two calls are enough for one to meet what another left behind, and two result sets with a
row each for an order between them to exist. The three runs of `Session` divide the faults between
them, since all of them together are out of TLC's reach; the theorems of section 4 have them all
at once. A socket of one frame is the
smallest in which a large write blocks; a larger one delays the deadlock by one
frame. A frame of 5 bytes is the smallest there is; one of 7 can be cut inside its
length field, at its end and inside its body. The 16 bits of a parameter count are 2 in the run, so
that lists of 4 and 5 parameters pass the bound. The pieces of the statements are those
that the replacement can confuse: `$1`, `$2`, `$10`, a literal that contains `$1`, a minus and a name;
a space before the middle three sets them apart, so that statements with and without `Touching` occur. The 45 others
have a `$1` before and behind which stand the begin and the end of each construct that the lexer reads.
Deadlock is not checked where the system really may stop: a `Client` that has made its
`MaxCalls`, was closed, or failed to connect has nothing to do, nor has a value that
has arrived, or a stream that has ended. It is checked for `Transaction`.

**Fairness.** `FairSpec` of `Session` has weak fairness on the steps of a call in
progress (the executor polls a woken future) and on the server's answers. Nobody
has to begin or drop a call, and no fault has to happen. A connection that is lost
is noticed: `FillEof`, or the failed read, is one of the client's steps. `FairSpec` of
`Startup` is the same; a server that hangs (`silent`) is exempt.

**Hangs.** `HangsOnlyIf` in `Session` gives the complete list of ways in which a call never
returns, each of them really there (leaving one out of the property gives a
counterexample): the end of the answer stands behind an unknown tag in the read
buffer (`Stalled`); the server waits for COPY data (`Copying`); `query_extended` was
dropped before its `Sync` went out and the server discards everything since
(`Wedged`); or client and server each wait for the other to read, with a frame to write that does not fit (`Jammed`, which
states both halves). The last two need a call that did not read its answer to the end, so calls that are neither
dropped nor broken off hang behind an unknown tag or in a COPY only. In `Startup`,
`connect` hangs with a server that has stopped answering, and with an unreachable
address when there is no `connect_timeout`: the timeout covers TCP only.

## 4. Proofs

`SessionProofs` proves, for every number of calls, rows, result sets, notifications
and faults and every socket capacity:

* `TypeCorrect`: `TypeOK`, with the cursors within their sequences;
* `SyncCorrect`: `SyncInv`, the inductive invariant;
* `InSyncCorrect` and `AnswerCorrect`: `InSync` and `AnswerIsOwn`, from `SyncInv`.

`InSync` speaks of the moments between calls and is not inductive. `SyncInv` says what
holds at every moment of a clean connection: frames to the server belong to the
call in progress, and an extended one is followed by its `Sync` (`OutInv`); the server
works on that call, or on nothing (`PhaseInv`); frames to the client answer that call,
and a `ReadyForQuery` is its last frame, sent when the server has nothing more to read
for it (`InInv`); the rows gathered belong to it (`LocalInv`). So when the loop reads
`ReadyForQuery`, nothing of the call is left. The server's steps (`ServeInv`,
`EnvironmentInv`) and the client's (`SendingInv`, `ReadingInv`) are treated apart, over
lemmas on what taking, sending and decoding a frame do to the sequences. The proofs
use no assumption on the constants beyond the `ASSUME`s of the modules.

`TransactionProofs` proves, for every number of writes, transactions and savepoints and
every set of names, every property of `TransactionSafety`: `TypeCorrect`, `InvCorrect` (the
inductive invariant `TransactionInv`) and, from it, `NothingLeftOpenCorrect`,
`AllOrNothingCorrect`, `OutcomesCorrect` and `RollbackUndoesNothing`. `AllOrNothing` speaks
of transactions that are over. What makes it inductive is the fate of one in use
(`FateInv`: its writes are pending together, or durable together, or gone together), that
a lost connection or a finished handle leaves no block open (`BlockInv`), that a write
has one owner (`OwnerInv`), and that the latest savepoint is the one the program holds,
with nothing written since (`SavepointInv`). Every step but a statement is `Quiet`: it
adds no write, and decides those pending in one way or leaves them; the statement is
treated alone (`ExecuteKeeps`).

`AnswerProofs` proves `RowsCorrect` and `AffectedCorrect`. That the rows gathered are complete
cannot be seen from the loop's variables and the server's progress alone: the
messages between them matter. The invariant says that there is a history of what the
loop will have gathered: it starts from the loop's variables (`Starts`), goes through the messages on
their way one by one, each of which fits what precedes it (`Follows`, `Fits`), and ends with what the
server has done for the call (`Ends`). The server's steps lengthen the history at its
end, the loop's steps shorten it at its start, a cut of the connection cuts it
(`TraceSend`, `TraceRead`, `TraceCut`).

`CallsCorrect`, there too, says that `Session` implements `Calls`. It adds
to the invariants above that an error before the end of an answer belongs to that answer
(`ErrorInv`: after a loss the server's last words may stand behind it, never before it), and
that `execute` gathers no rows and the others no count. Each step of `Session` is then
matched with the step of `Calls` it is: `TakesOneStutters`, `ReturnsHands`, `ServerSimulates`,
`OverEnds`.

`NotesCorrect`, in `SessionProofs`: the number of a notification stands on its way at most
once, and then is neither forwarded nor drained (`NotesInv`); the count of
`NotificationsAccounted` follows from the theorems on finite sets.

`StartupProofs` proves every invariant of `StartupFaults`, for every number of parameters and
notices. `SslModeCorrect` needs only what each step of the negotiation leaves; `ScramCorrect` that the
loop is not entered again from the exchange but by an accepted final message. `HandsOverInSync` rests on the turns the two sides take (`ClientTurn`,
`ServerTurn`, `EarlyTurn`): a message that asks the client for something is the last one
but for notices. `KeepsServerData` needs that the last arm of the GaussDB
exchange, which consumes any message, always has the end of the authentication in front
of what the loop must not miss (`AuthInv`), and that the parameters kept and those on
their way are the ones sent, in order and without a gap (`ParamsInv`).

`WireProofs` proves `WireReadsFrames`, that `Wire` implements the read half of `Framed`, for every
number of frames of any sizes, every way of cutting the stream into reads and every
place of a loss, and `CutFrameCorrect`, that what is left of a frame at the end of the stream
is an error. The frames in the buffer are counted by where they end (`Ends`, a sum of
sizes): the ends increase, so those within the buffer are the first ones (`Whole`), a
frame that is taken shifts the others by its size, and a cut loses the last ones.

The next two speak about loops over texts. Every such loop is one recursive function over
the places of a text (`From` in `Text`), and the library's induction theorems cannot
be used with it. `DataProofs` proves induction for a set instead (`SetInduction`,
`StrongSetInduction`, `DownInduction`: a set that contains 0, and with a number the next, contains
all), and with it, from the well-foundedness of `<`, that the function `From` exists and satisfies its equation
(`FromDef`, `FromStep`), what it reads from a shifted text (`FromShift`), that
`Replace` goes on behind a place as in the rest of the text (`ReplaceRest`, `ReplaceHead`) and passes over
what has no occurrence (`ReplacePast`), and where the pieces
of a flattened sequence stand (`FlattenPlaces`).

`ParamsProofs` proves every property of `Values`, for all texts, names,
values and numbers of parameters. `QuotingReadsBack`: the server reads what `quote_string` and
`double_quote_identifier` write as one token with the given text. The proof follows
the lexer's quote search through the doubled text, byte by byte from the end (`Doubled`). `ExtendedKeeps` and
`RefusedRightly`: the count and the lengths of a Bind message delimit its values, what the text input
makes of them is theirs (`ByteaIn`), the server's echo of it is decoded at the places where they were put (`ValuesRead`), and each conversion of `row.rs` inverts
that of `to_sql`, digit by digit for the integers. `NamesFind`: each name ends
at its own terminator. The invariant `ParamsInv` says for every stage of a call what has been
written so far (`Written`, `Bound`, `Answered`). What the theorems assume of the constants is
`ParamsAssumption` and `ValuesAssumption`: texts and names are bytes, names have no terminator in them, integers fit their
types, and a float is written with at least one character.

`StatementKeeps` is the longest of these proofs: `StatementKeepsMeaning` for every statement and
every list of values. It has three parts. `Substituted` is the statement with the parameters
behind the n-th put in, in one pass. First, the loop computes it: the invariant `PutIn` says that the
text is `Substituted` for the parameters done so far, and `ReplaceEach` that one more
`replace` over the whole text does the same as one more parameter in the one pass. That is where
the direction of the loop counts: an occurrence of `$p` is the placeholder of p and never part of
`$10` (`NoOccurrence`, from `Distinct` and the numbers that digits denote) nor of a value
(`FreeValue`). Second, the lexer reads the same token where the text has not changed around it
(`TokenAgree`), and a value that is put in as the tokens it stands for (`EscapedLex`, one lemma for each
of the five forms `Escaped` writes). The bytes at the seam decide that, and `Touching` and `MinusSwallowed` are the
seams where they do not (`Apart`, `FollowsValue`). Third, reading goes from token to token, so each
placeholder that is a token is met as one (`Begun`), and the readings agree from the end backwards
(`LexSubstituted`). `ClearOrNot` says that a statement outside the six cases has what this needs.

`ConfigProofs` proves every property of `ConfigParse`: `ConfigTypeCorrect` (a Config that `parse` returns has
a user and a database, and its fields are valid after `apply_env` too), and, for all lists of settings, `DsnReads`, `UriReads` and
`EnvFills`. `ReadInv`, the invariant, says for every stage what has been made of a list that can be read back
(`IsDsn`, `IsUri`).
`split_key_value_parts` is followed through the text that `WriteDsn` has written: at any
time some pairs have been cut and a prefix of the next one has been collected, and the
loop is inside quotes exactly when that prefix ends inside them (`SplitAt`, `Turns`, `SplitTurn`); then some of the
settings have been assigned and the last of each key counts (`PartsAt`, `TakenStep`).
`parse_uri` assigns in an order of its own, so its parts are those of another list: one that
means the same (`Carries`: for each key the last value is the same, and either all settings of a set of keys are valid or none of
the two lists is). What is written of a component has none of the characters that end it (`Component`, `Stops`), each
search therefore cuts where the component ends (`SplitBehind`), and decoding gives the value
again, escape by escape (`Spells`, `DecodesAll`, `WrittenDecodes`). The components, and the pairs of the query one by one
(`QueryTurn`), carry the settings of their keys, and lists of different keys together those of both
(`CarriesBoth`, `UriIsRead`); the meaning of the list given is that of the list assigned (`UriStands`).
`ConfigAssumption` has what this needs: the application's characters are not those that only decoding makes,
and only the query of a URI has a key more than once.

Only model-checked:

* liveness (`CallReturns`, `HangsOnlyIf`, `RightPasswordConnects`), which is out of the prover's reach.

## 5. What the code does not keep

* `DrainedNotes`: notifications between an `ErrorResponse` and its `ReadyForQuery` are
  dropped by `drain_until_ready` (`client.rs:260`), although `client.rs:70` offers a
  subscription to them.
* `CommitOnOk`: `with_transaction` returns `Ok` for a transaction that the server rolled
  back, when the closure ignored a failed statement (`transaction.rs:174`).
* `ParamLiterals`: `client.rs:265` (and 36) says that a placeholder is replaced by an escaped literal value, with
  numeric and boolean types as the exception. A uuid or a JSON document is put in without quotes. And a value that
  contains the placeholder of an earlier parameter is itself replaced in, strings too, whose comments
  (`client.rs:25` and 303) promise a quoted, escaped value. `ValuesAreLiterals` excepts neither.
* `EnvFills`: `config.rs:50` says that `apply_env` fills missing values. A setting that was given, with the
  default as its value (`sslmode=prefer`), is replaced.

One more text is not kept, and has no run: `client.rs:77-78` says that `poll` returns `false` if the connection is
closed, and `PollEnds` gives `Ok(false)` also once after a decode error, on a connection that is up (`Framed` gives
`None` behind an error).

Modelled, and not what a user may expect, without a text of the repository that says otherwise: the GaussDB
exchange names `SCRAM-SHA-256` whatever it chose (`connection.rs:301`), so a server that holds the proof to it
refuses the right password (`Strict`, `Supported`); a final message with neither `v=` nor `e=` is accepted
(`auth.rs:211`); `prefer`, `verify-ca` and `verify-full` go on in plaintext when the server has no TLS
(`connection.rs:215`); without the `tls` feature the default sslmode fails at any server that
offers TLS (`connection.rs:209`), which `TlsFails` excepts from `RightPasswordConnects`; a `NoticeResponse` in
the middle of a SASL exchange fails `connect`; `query_extended` sends a `Vec<u8>` as its raw bytes, declared as
text (`codec.rs:415`, `row.rs:319`), so that bytes with a backslash may arrive as others or be refused, and any
value without bytes as NULL (`codec.rs:396`), as `ExtendedKeepsValues` says; and the other exceptions of `StatementKeepsMeaning` and those
of `UriReadsBack`.

## 6. Limits

* Message bodies are modelled where something depends on them (`Params`, `Startup`); hashes
  and base64 are abstracted. `decode` panics on lengths and counts that point beyond the body; only a
  server that breaks the protocol sends them, and they are not modelled.
* The broadcast channel's capacity is tokio's and is not modelled.
* i64 and f32 are left to i32 and f64; a float is the text it is written as; what chrono,
  uuid and serde_json accept is theirs. Texts are bytes: UTF-8 validation is left out. The bool and the
  integers are parsed as the code does.
* In `Config` the three certificate paths are treated like `application_name`. Pairs are cut at blanks only, as in
  the code; a tab stands for the other white space, which is trimmed from keys and is a part of values.
* The lexer of `SqlText` reads with `standard_conforming_strings` on, the server's default. In `E'..'` it finds
  the end, and undoubles quotes and backslashes; other escapes there, and those of `U&'..'`, are left as they are
  written, operators are single bytes, and a number is its runs of digits.
* In `Session` a poll of `next()` may be interleaved with the server at each of its
  steps. Dropping a `Client` without `close` is the end of its behaviour and has no action. A
  dropped `connect` leaves nothing behind and has none either.
* Not modelled: `error.rs` (data types and their formatting; the models keep which kind of
  error a call returns) and `Client::cancel` (16 bytes on a connection of its own; what it causes is a
  statement that fails, which `Backend` has).

## 7. Plan

Done, in this order:

1. `Framed`, `Backend`, `Session`: the calls, most important first; `SessionProofs`.
2. `Transaction` with its safety properties; `TransactionProofs`.
3. `Startup` with the authentication exchanges; `StartupProofs`.
4. `Calls` and the refinement; `AnswerProofs`.
5. `Params` with `SqlText`: substitution, quoting, Bind, rows and conversions; `ParamsProofs`,
   the substitution last.
6. `Config`; `ConfigProofs` for strings of pairs, then for URIs.
7. `Wire` and its refinement of `Framed`; `WireProofs`.

Left: a slow subscriber of the broadcast channel.
