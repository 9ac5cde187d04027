# specmcp in TLA+

specmcp turns an OpenAPI specification into MCP tools and proxies tool calls to
the API behind it. This directory holds TLA+ models of its concurrent parts, of
the pipeline from specification to tools and requests, and of its token
database with the key rotation; the TLC configurations that check them on small
instances; and proofs, checked by TLAPS, that most safety properties hold for
any number of sessions, calls, logins, tokens, schemes, files and keys. The
models are translated from the Python source; paths below are relative to
`src/specmcp/`, but for those under `scripts/`, `docs/` and the repository's
`README.md`.

## The system

The server is a single asyncio process. A coroutine runs until an `await`
suspends it, so the unit of interleaving is the code between two suspending
awaits, and one such stretch is one action of a model.

| Component | State | Operations | Hard part | What makes it correct |
|---|---|---|---|---|
| Token stores (`auth/token_store.py`) | one row per session in one store per scheme | get, save, delete | saves and deletes of callbacks, refreshes, DELETE and purge in any order | a row is of its own session; deleted rows do not come back |
| Login flow (`runtime/oauth_handler.py`, `auth/login_nonce.py`, `auth/state.py`, `auth/pkce.py`) | nonces, PKCE verifiers by signed state, both with a TTL | login, callback, DELETE session | replays, expiry, two logins at once, the callback outliving its session | a login takes effect once, for its own session and scheme |
| Authorization-code handler (`auth/oauth2_authcode.py`) | a TTL cache of one lock per session | apply: read, refresh, save, or raise with a login link | refresh-token rotation, store errors, cancellation at any await, the lock expiring while held | one refresh at a time, no leaked lock, no lost refresh token |
| HTTP server (`cli/serve.py`) | the SSE sessions | connect, call a tool, disconnect and purge | calls and callbacks still running when the session ends | a session that ended leaves no tokens |
| Token cache (`auth/token_cache.py`) | one token, one lock | get_or_refresh, invalidate | invalidate takes no lock; expiry; failing fetches | one fetch at a time, shared by those who wait |
| Dispatcher and HTTP client (`runtime/dispatcher.py`, `runtime/http_client.py`) | none between calls | inject, send with retries, one more round after a 401, or stream | the 401 of one call and the fetch of another | bounded requests, no repeated bad token, every call ends |
| Auth injector (`auth/injector.py`) | the scheme handlers | choose the first satisfied group, apply its schemes | invalidation across groups | the invalidated token is the one that was sent |
| Hot reload (`runtime/registry_ref.py`, `cli/serve.py`) | the current registry | get, swap | calls that looked up a tool before the swap; failing reloads | a call sees one registry; a failed reload keeps the old one |
| Normalizer, registry, simplifier (`core/`) | none | names, argument maps, schemas | collisions of names and of unwrapped fields | distinct operations keep distinct tools, no argument is lost |
| Key rotation (`scripts/token_store_rotate.py`) | the database file | re-encrypt a copy, rename it | a running server, a crash | every row is readable under one key |

A tool call enters through the MCP server of its session, looks up the tool and
calls `dispatch`. That asks the injector for credentials, which asks the token
cache or the authorization-code handler. The latter reads and writes the token
store of its scheme and, when it cannot find or refresh a token, issues a nonce
and raises `AuthRequiredError` with a login link. A browser follows the link and
returns to the callback, which stores the tokens under the session. Disconnecting
the SSE stream and `DELETE /auth/session/<id>` delete them. So all of these share
the token stores, and nonces, states and verifiers link a call to a later
callback.

Before any call there is a pipeline: the specification file is loaded,
normalized into operations, simplified into tools with an argument map, and put
into a registry. `--watch` runs it again beside the calls. A call validates its
arguments against the tool's schema and puts each where its binding says.

The SQLite stores outlive the process. `scripts/token_store_rotate.py` replaces
their file while a server may have it open.

## The modules

    TokenStore <- LoginFlow <- AuthCodeHandler <- OAuthServer <- MCOAuthServer
                                                       ^-- OAuthServer_proofs
    TokenCache <- Dispatcher <- MCDispatcher     SingleFlight (abstract)
                      ^-- Dispatcher_proofs
    Lists <- OrderedDict, ToolNames, Schemas <- Normalizer <- Simplifier <- RequestBuilder
      ^-- Lists_proofs   ^-- ToolNames_proofs                                    |
    ToolRegistry <- Pipeline <---------------------------------------------------+
                       ^-- MCPipeline, Stages_proofs <- Pipeline_proofs
    HotReload, AuthInjector, Lists <- ToolServer <- MCToolServer
                                          ^-- ToolServer_proofs (with Lists_proofs)
    TokenDatabase <- KeyRotation <- MCKeyRotation
                          ^-- KeyRotation_proofs

Each module to the left is extended by the one to its right. A component's
actions say nothing of the variables of modules that extend it; the composing
module (`OAuthServer`, `Dispatcher`, `ToolServer`, `KeyRotation`) adds their
`UNCHANGED`.

**TokenStore.** `store` maps a slot, that is a scheme and a session, to a token
record or `None`. A token record is abstract: the login it was granted to, a
generation number that stands for the refresh token (0 for none), and whether
`is_expired()` holds. The module also holds the identity provider: `gen` is the
generation it accepts for each login, so a rotating provider moves it on at each
refresh, and `lost` records the logins whose newest refresh token never reached
a store. `FromTokenResponse` is `OAuthTokens.from_token_response`.

**LoginFlow.** A login is a nonce together with the PKCE verifier made when the
nonce is consumed and the code the provider returns for it, because each
determines the next. `stage` follows a login from `fresh` through `issued` (link
handed out), `redirected` (verifier stored), `exchanging` and `saving` (the two
awaits of the callback) to `over`. States and verifiers are kept apart as in the
code: `stateOf` is the signed state of the redirect, the session and the second
it was made in; `pkce` maps such a state to the login whose verifier it holds.
The callback takes the session from the state and the scheme from the verifier's
entry (`Target`). `Callback(l)` may happen any number of times for one redirect.
DELETE is a loop over the schemes with an await at each get and each delete.

**AuthCodeHandler.** `pc` tells at which await of `apply` a call is suspended:
`waiting` for the session lock, `reading` the store, `refreshing`, `saving`.
A lock object is a slot with an epoch, the number of earlier lock objects the
TTL cache dropped for it. A call keeps the object it looked up (`lock`), the next
call gets the current one (`epoch`), and `held` is the set of locked objects.
`Cancel` models the cancellation of a call at each of its awaits, with what may
already have happened on the other side.

**OAuthServer** composes them: open sessions start calls, `Disconnect` ends the
session, `Purge` runs after the session's calls were joined, scheme by scheme,
errors swallowed.

**TokenCache and Dispatcher.** Tokens of a client-credentials scheme are numbered
in the order they are fetched. `expired` are those in their last 60 seconds,
`revoked` those the upstream rejects anyway. A call goes through `waiting` and
`fetching` (`get_or_refresh`) to `sending`, at most two `round`s of at most
`MaxAttempts` attempts; a streamed call has one round of one attempt.

**SingleFlight** says what the cache promises those who ask it: one fetch at a
time, only when there is no usable token; every answer is the usable token or
what one's own fetch brought.

**ToolNames, Schemas, Normalizer** are the Normalize stage as operators. A name
is the sequence of its parts between underscores, which is all that deriving,
sanitising and suffixing look at: `x_2` is `<<"x", "2">>`. A schema keeps the
keywords that the rewriting from 3.0 to 3.1 touches; `Accepts30` and `Accepts31`
are the reference definitions, what a schema of either dialect means. The schemas
of parameters, bodies and body fields are rewritten; `WronglyRefused` names what
the rewriting gets wrong, `WellFormed` what jsonschema does not raise for. `Ids` is
pass 2 of `normalize`, `Kept` its filters, `Normalized` the whole. `ValidItems` is
what the OpenAPI validator lets through (`core/load.py:186-202`): the types of
what a path item has, a required path parameter for each variable of a path,
different names for the fields of an object; `WrittenIn30`, that a 3.0 document
has a boolean for `exclusiveMaximum`.

**Lists** has the two loops of the pipeline, a comprehension with a condition
(`Keep`) and a loop that carries a value along (`Fold`), as recursive functions
of the position, about which the proofs go by induction.

**Simplifier, ToolRegistry, RequestBuilder** are the Simplify and Expose stages
and the first half of `dispatch`. Dicts whose order matters are those of
`OrderedDict`. A slot is where a value goes in a request, as in
`ArgumentBinding`; a property also keeps the slot its schema was written for,
so that a value that arrives elsewhere is noticed. The value of an argument is
its key. `SchemaIsSound` is the check of the schema in `jsonschema.validate`, whose
`SchemaError` `_validate_args` does not catch (`runtime/dispatcher.py:445-446`).
**Pipeline** runs the stages as actions, `NormalizeError` included, and
then calls every tool with every set of arguments its schema or an inventive LLM
may name.

**HotReload.** `file` is what an editor left at the path; `load` follows one
`load_spec` through its three looks at it: `path.exists()`, `read_bytes()` for
the version, and the resolver. A load blocks the event loop (`LoopFree`), not the
editor. A missing file at the first look is a `SpecmcpError` (`LoadRaises`), at
the second a `FileNotFoundError` that nothing catches (`ReadCrashes`). Contents that
are not usable are reported (`ReadFails`) or, if they are JSON but no object, raise
an `AttributeError` in `_detect_openapi_version` (`ReadCrashes` again). `pending`
is a change that the watch library has not reported yet.

**AuthInjector** chooses the first group whose schemes are all configured and
applies them one by one, with an await at each; a cookie is appended to what is
at its place, any other credential replaces it. The token cache appears as its
`SingleFlight` specification shows it to a caller, whose refinement `Dispatcher`
checks and proves. `request` is what was put into headers and parameters, in
order. **ToolServer** composes the two: a call keeps the requirements of the tool
it found, reloads swap the registry, a 401 invalidates and injects again, and a
watcher that dies takes all calls with it.

**TokenDatabase** is `SqliteTokenStore` with `execute` and `commit` as separate
steps, because each is awaited and a call may be cancelled in between; the open
transaction then belongs to the shared connection, and the next operation commits
it. A row is a value under a key, and decrypts to nothing under another.
**KeyRotation** adds the script, which takes its copy, goes through the rows,
commits and renames, and may be killed anywhere. A server that has the old file
open keeps it. What SQLite does then was established by experiment: a statement
that writes a row raises, one that changes nothing does not, and a transaction
that is already open still commits, to the file that is gone.

### What was abstracted

Token values, PKCE and signatures are ideal: codes, verifiers and states cannot
be guessed and a bad signature is a request that changes nothing. Clocks are
actions that may happen at any time (`ExpireTokens`, `ExpireLock`, `ExpireNonce`,
`ExpireVerifier`, `NextSecond`, `ExpireToken`), so all orders of expiry are
covered and no real durations are. Text of errors and pages, logging and scope
checks are left out.

## The runs

| Run | Shows |
|---|---|
| `oauth_slot` | one session and scheme, two calls, two logins, rotation up to generation 2, two seconds, one dropped lock: `TypeOK`, `NoLeakedLock`, `RefreshExclusion`, `RotationKept`, `VerifierKept`, `NoResurrection`, `LoginsOnlyAdvance` |
| `oauth_sessions` | two sessions with two logins and two calls: `SessionIsolation` |
| `oauth_live` | two schemes, two calls and one login under fairness: `CallsComplete`, `RequestsComplete`, `SessionsArePurged` |
| `oauth_double_refresh` | violates `SingleRefresh` |
| `oauth_orphan_tokens` | violates `NoTokensAfterPurge` |
| `dispatch` | two calls, three tokens, two attempts: `TypeOK`, `OneFetch`, `RetryUsesNewerToken`, `SendsAreBounded`, the refinement `ImplementsSingleFlight`, and `DispatchEnds` under fairness |
| `dispatch_refetch` | violates `FetchOncePerWindow` |
| `pipeline` | up to three path items that compete for names under six filters and five sets of overrides; one operation under all combinations of two rules and strictness, with parameters and fields that compete for keys: `TypeOK`, `DistinctUnlessSuffixed`, `NamesAreStable`, `ToolsReachable`, `SchemasKeepMeaning`, `RoundTrip` |
| `pipeline_collision` | violates `NamesDistinct` |
| `pipeline_roundtrip` | violates `AcceptedCallsDispatch`, with operations whose simplification does not raise |
| `tool_server` | two calls, six schemes of every kind, five tools, two edits, two tokens per scheme: `TypeOK`, `RegistryFollowsFile`, `NeverUnknown`, `CarriesOneGroup`, `RetryIsFresh`, and under fairness `CatchesUp` and `CallsEnd` |
| `rotation` | two sessions, values and keys, three files: `TypeOK`, `NothingLost`, `OneKey`, `ReadsItsWrites` |

Bounds. Every race of these components is between two actors on one row, lock
or token: two calls, a call and a callback, two callbacks, a call and a deletion.
Two calls and two logins give all of them; a third actor would repeat one of the
two. `MaxGen = 2` lets a token rotate once after the first, `MaxSecond = 1` lets
two logins fall into one second or into two, `MaxEpoch = 1` lets the cache drop a
lock while it is held. `Logins` bounds the number of links (with none left
`IssueNonce` hands out none), `MaxTokens = 3` allows a token, its successor, and
one fetched after a late 401; a further fetch then fails. The proofs below have
no such bounds: they hold for any values of these constants. `Calls` and `Logins`
are symmetric in the safety runs; the liveness runs use no symmetry.

Pipeline: three equal or suffixed names are the fewest that clash in a way two
do not (two equal ones and the one the suffix imitates); an operation has at most
two parameters of its own beside the path variable and two body fields, since
every clash of keys is between two of them. Numerals go up to 8, above the number
of operations (an assumption of the module). Schemas have one level of `allOf`;
the code's recursion treats each level alike. The schemas of the run have both
misreadings, in a parameter and in a body, and each keyword beside and without the
one it takes its value from.

Tool server: two edits let a file change during a load, or break and be mended,
or change before the watch begins; two contents of different versions show a
registry torn between them. Two tokens per scheme are the rejected one and its
successor; two calls give all orders of fetch and invalidation.

Rotation: three files are the one at the path, the one a server kept open and a
copy; a further rotation reuses names that are free. Two keys let the new key of
one rotation be the old key of the next; `WrongKey` makes every row fail. There is
no bound on the number of starts, writes, crashes and rotations.

Deadlock is checked in all runs but two kinds: a client can always call again or
browse. A pipeline may end with an error, or without tools to call, and a server
whose watcher died is down, so `pipeline*` and `tool_server` allow it.

Fairness. The liveness runs assume that every await of the server is answered:
weak fairness of a suspended call, callback, DELETE and purge. The code bounds its
requests to token endpoints by 15 seconds and those to the upstream by the
configured timeout, and SQLite answers or raises. `asyncio.Lock` wakes its waiters
in order, which is strong fairness of taking the lock. Nothing is assumed of
clients, browsers, the provider or clocks. `oauth_live` allows no dropped lock
(`MaxEpoch = 0`): dropping locks only makes waiting shorter.

`tool_server` assumes that a load that runs ends (it has no loop that waits), that
the watch library reports every change of a watched file, and that injections and
requests are answered or time out. It assumes nothing of editors and clients. No
fairness is assumed of `Expire` or of 401 answers.

### Where the code differs from its comments

* `oauth2_authcode.py:15-16`, `:42` and `:97` say that the session lock prevents
  double refreshes and expires an hour after its last use. `TTLCache` counts from
  insertion, so a session older than an hour can lose its lock during a refresh.
  `RefreshExclusion` is what remains true: two calls in the critical section hold
  different lock objects, and the cache dropped one.
* `serve.py:762-763` says that the purge keeps abandoned sessions from
  accumulating tokens. A callback that saves after the purge leaves them.
  `NoResurrection` is what remains true: after the purge only a login saves.
* `token_cache.py:54-55` says that the endpoint is asked at most once per expiry
  window. `invalidate()` drops the cached token without comparing it to the
  rejected one, so a late 401 causes a fetch while a good token is there.
  `RetryUsesNewerToken` and `SingleFlight` are what remains true.

* `docs/naming.md:59` says that two different operations always have different
  tool names. GET /x, GET /{x} and GET /x/2 get `get_x`, `get_x_2` and `get_x_2`.
  `DistinctUnlessSuffixed` is what remains true.
* `core/model.py:7-12`, `core/simplify.py:22-24` and `runtime/dispatcher.py:8-11`
  state a round-trip invariant: accepted arguments make a complete request. With
  a body {user: {id}, user_id: {id}} beside a parameter `id`, unwrapping `user_id`
  deletes the binding that unwrapping `user` has just made. Names like `example`
  taken for keywords, requirements passed on to the wrong key and the free-form
  fallback break it too. `RoundTrip` is what remains true. With the two rules off,
  and when simplification does not raise, no accepted call is incomplete, and a bad
  bound (below) is the one thing that makes the validation itself raise.

Each of these has a run whose counterexample is the trace described. Further
differences that the models contain, without a run of their own:

* The docstring at `core/normalize.py:129-132` says that boolean bounds become
  numeric and that `nullable` adds "null" to the type. Only
  `exclusiveMaximum: true` beside a `maximum` becomes numeric
  (`core/normalize.py:151-153`, and `:156-158` for the minimum):
  `exclusiveMaximum: false`, the default of the keyword, stays a boolean, and
  `true` without a `maximum` becomes `None`. jsonschema raises `SchemaError` for
  either, which `runtime/dispatcher.py:446` does not catch, so no call of a tool
  that shows such a schema succeeds (`BoundStays`, `BadBound`). `nullable` without
  `type`, which 3.0 ignores and which is common beside `allOf`, becomes the type
  `["null"]` (`core/normalize.py:143-144`), so that only null is accepted
  (`NullOnly`). `SchemasKeepMeaning` says that nothing else changes. A nullable
  object body, which keeps its meaning, is offered as one argument `body` instead
  of one per field (`core/simplify.py:110`).
* A reload uses the configuration read at start-up (`serve.py:901`); the help text
  (`serve.py:126`) and README.md:168 say that a change of the configuration file
  is reloaded, but for its `auth:` section.
* `serve.py:72-73` and `:843-844` say that a failed reload keeps the previous
  registry. A file that vanishes between the two looks of `load_spec` raises
  `FileNotFoundError`, and one with JSON that is no object an `AttributeError`
  (`core/load.py:100`); each ends the watcher and the server's task group
  (`ReadCrashes`). `NeverUnknown` and `CatchesUp` hold for a server that is up.
* `dispatcher.py:222-225` says that a 401 is not retried when the scheme has no
  cache. The retry is decided on all groups of the operation: a request sent with
  the bearer group is retried when another group names a client-credentials
  scheme.
* The script reads its keys as hexadecimal (`scripts/token_store_rotate.py:61`,
  from `TOKEN_STORE_KEY`); the server takes the characters of `SPECMCP_TOKEN_KEY`
  as they are (`serve.py:270`), also those of `openssl rand -hex 32` that
  README.md:236 recommends. Such a key is a different key to each. The model gives
  both the same keys.
* `serve.py:161-162` says that SQLite tokens survive a restart. The rows do
  (`NothingLost`); the sessions they belong to do not, since a session id is made
  for each connection.

## The proofs

Assumptions: the named ones on the constants (bounds are naturals, `MaxGen` and
`MaxAttempts` positive, `None` and `Nobody` are not elements of the sets they
stand outside of). TLC evaluates them in the runs. The pipeline assumes more of
its inputs, `FamiliesAssumption`: a specification passed the validator, which is
a dependency of the program, so that in a 3.0 document `exclusiveMaximum` is a
boolean where it is there (`WrittenIn30`), and there are more numerals than
operations and arguments, because Python never runs out of them.
`NoBodyAssumption` says that no body is the constant that stands for none. Word lists are constants too:
`ExtensionWords`, those that begin with `x-`, are not the word `body`.

**OAuthServer_proofs** proves the type invariant, the five safety invariants of
the passing runs and both action properties. None but `TypeOK` is inductive.
`IInv` adds:

* `CallShape`: a suspended call has a slot, one that refreshes or saves has tokens;
* `LockInv`: a call in the critical section holds its lock object, no two share
  one, and none is from a later epoch than the cache's;
* `FlowInv`: what a login has at each stage; its state names its own session;
* `PkceInv`: each stored verifier belongs to a redirected login with that state;
* `GrantInv`: stored tokens and those of calls come from a finished login of the
  same slot;
* `PendingInv`: tokens about to be saved carry the refresh token the provider
  accepts, or it was lost, or the slot's lock was dropped;
* `SessionInv`: a session with a suspended call has not been purged completely.

`RotationKept` needs `LockInv`: while one call refreshes, no other call of the same
slot and epoch may read the same refresh token. `SessionIsolation` follows from
`GrantInv` and `FlowInv`, and `NoResurrection` from `SessionInv`. There is a lemma for each action, `StepIInv` combines them, and
`Invariance` concludes.

**Dispatcher_proofs** proves `TypeOK`, `OneFetch`, `RetryUsesNewerToken` and
`SendsAreBounded` from an `IInv` that adds that tokens are numbered as issued
(`IssueInv`), that a call in its second round finds the cache empty or newer than
what it rejected (`RetryInv`), and how many requests precede the current attempt
(`SendInv`). `RefinesSingleFlight` maps each step to a step of `SingleFlight` or
to a stutter; it needs `OneFetch`, which tells that a call cancelled outside the
fetch does not hold the lock.

**ToolNames_proofs** proves `CollisionsResolved` for any list of candidates: two
places with one candidate differ in how often it occurred before, by cardinality
of nested sets, hence in the suffix; a suffixed name and a plain one can only meet
where one candidate is written like another with a suffix.

**Pipeline_proofs** proves all six invariants of `pipeline`, for every
specification, configuration and set of arguments. The stages are functions, so
its inductive invariant is short: `PipelineInv` says that each stage holds what
its operator yields of the stage before, and what a call was answered with is what
the tool that is found under its name yields for its arguments (`ResultInv`). The
work is in what the operators yield, most of it in **Stages_proofs**, which rests
on **Lists_proofs**. These are inductions over sequences. An induction theorem
with a predicate as its parameter cannot be instantiated by the provers, so
`PositionsInduce`, `LoopStaysGood` and the lemmas for each loop take the *set* of
the positions, or of pairs of a position and a value, for which the claim holds.

* `NamesAreStable`: `OperationsOf` of a prefix of the path items is a prefix of
  that of all (`FlattenGrows`), and an id depends on the candidates before it only.
* `ToolsReachable`: without a rename clash the name of a tool determines its
  place, so that the last tool of the name, which the index keeps, is the tool.
* `SchemasKeepMeaning`: `SchemaKeepsMeaning` is an equivalence for every schema of
  the 3.0 meta-schema and every value: what the rewritten schema accepts is what the
  3.0 schema accepts without what the two misreadings refuse. It goes level by
  level (`LevelKeepsMeaning`); the run has sample values.
* `RoundTrip` goes through the stages. `MergeFacts`: what `_merge_parameters`
  returns are parameters of the specification, different in name or place, with
  every path parameter among them; hence every operation is a `SoundOperation`.
  `InputsOffered`: after `build_argument_map` the tool `Offers` every input under
  a key of its own (`UniqueKeyIsFree`, by counting numerals), bound to the slot its
  schema is of, and requires the required ones; this is an invariant of the two
  loops. `NothingDropped`: without a `MetadataClash` the metadata rule changes
  nothing. `FlattenedIsComplete`: without a `WrapperClash` the bindings
  stay apart while wrappers are unwrapped, and a required wrapper has exactly one
  heir (`HeirIsUnique`). What results is `Complete` (`SimplifiedIsComplete`), and
  from a complete tool `dispatch` builds an exact request (`RequestIsExact`): bindings
  whose slots are apart do not overwrite each other, so the required inputs and the
  variables of the path are there. That only a bad bound makes the validation raise
  is the converse of `SchemaIsSound`: in a complete tool no entry of `required` is
  repeated, and what a tool shows are schemas of its operation.

**ToolServer_proofs** proves `TypeOK`, `RegistryFollowsFile`, `NeverUnknown`,
`RetryIsFresh` and `CarriesOneGroup`. `RegistryFollowsFile` says nothing during a load; `ReloadInv` adds
that, with no change left to take up, the version a running load has read is that
of the file it is about to resolve, and that a server that serves has a registry.
`CallInv` adds to the types that tokens are numbered as issued, that a request has
tokens of its own requirements only, and that in the second round every cache of
these requirements is empty or newer than the rejected token, already before the
request is put together. It needs that `invalidate_cached_tokens` goes through all
groups. `CarriesOneGroup` speaks of requests that are sent; `PlaceInv` says the same
of the schemes that are applied so far, at each await of `inject`.

**KeyRotation_proofs** proves all four properties of its run from one `IInv`.
`CopyTrue` says that for every session not in `late` the script's copy has the
value of the database at the path, in each phase of the script, and `NewKey` under
which key; `Apart`, that the copy is neither the file at the path nor the
server's; `Owned`, that the server finds its own writes, committed or in its open
transaction, under its key; `Acknowledged`, that the open transaction holds no
write that has returned; `OwnKey`, that a server that can write has the key in
force. `NothingLost` needs `CopyTrue` at the rename, and `Acknowledged` at a crash.

Assumptions are again only the named ones on the constants; `WrongKey` is not one
of the keys.

Only model-checked: the liveness properties `CallsComplete`, `RequestsComplete`,
`SessionsArePurged`, `DispatchEnds`, `CatchesUp` and `CallsEnd`, because the prover
does not reason about fairness and `ENABLED`. Every invariant and every other
temporal property of a passing run is proved.

## Not modelled

* `config.py`: schemas and validators evaluated once at start-up. Their values are
  the constants and configurations of the models.
* `errors.py`: exception classes and their texts. The models keep who raises and
  who catches.
* The one-shot commands (`cli/app.py`, `init.py`, `inspect.py`, `validate.py`,
  `report_issue.py`) and the test tooling under `scripts/`: they print or write a
  file and end.
* Of the modelled parts: how values are serialised into paths, queries and
  headers; that cookies share one `Cookie` header, which a header parameter of that
  name could overwrite (`runtime/dispatcher.py:114-122`; the model has a slot for
  each); the bounds in the schemas of the fields of a wrapper; an `expires_in` that
  is no number, which raises `ValueError` at a refresh (`auth/token_store.py:45`)
  and leaves what a cancellation at that await leaves; content types and the formatting of results; responses, security and
  server URLs beyond whether they resolve, which the stages pass on; the
  simplification rules that rewrite the inside of schemas (references, unions,
  descriptions); option parsing; the client token of a session; the remote fetch
  of a specification, YAML and the resolution of references, which libraries do;
  cryptography, which is ideal; the pages of a database file, so that a copy is
  taken in one step although `copy2` ignores SQLite's locks.
* Hazards without a property are in `PROJECT.json` with the reason. What would add
  most next: the configuration as a second input of a reload; a dispatcher with
  authorization-code schemes whose tokens are revoked; values as they are
  serialised.
