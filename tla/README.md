# A TLA+ model of the ipgeolocation C++ SDK

The SDK is a client library: one class, `IpGeolocationClient`, with four request methods, `Close`
and moves, over a transport that keeps a pool of libcurl handles for any number of threads. This
directory models it in TLA+, checks the models with TLC on small instances, and proves with TLAPS
most of their safety properties for every value of the constants: any number of threads, handles
and clients, any answers, any headers, any width of the integers.

`PROJECT.json` names, for each definition, the lines it stands for, and for each property a mutation
of the model that breaks it. Definitions whose comment begins with `Mutant:` are those mutations;
nothing in a specification uses them.

## 1. Inventory

| Part (source) | State | Operations | What is hard | What makes it correct |
|---|---|---|---|---|
| Handle pool, `CurlHttpTransport` (`curl_http_transport.cpp` 132-254) | `handles_mutex_`, `idle_handles_`, `closed_`, libcurl's handles and the pointers set in them | `Send` (`AcquireHandle`, reset, setopts, perform, `~HandleReturn`/`ReleaseHandle`), `Close`, destructor | threads; a `Send` in flight across `Close`; failures between acquiring and performing; pointers into dead frames left in a handle; `noexcept` on `push_back` | a handle has one user; none is leaked or freed twice; the pool stays within its reserved capacity; no transfer sees another's options; a closed pool drains |
| One exchange (`WriteBody`, `Send` 219-243) | bytes collected, limit, flag, status, result code | callbacks of libcurl, classification of the result | arithmetic of `size_t`; timeouts, early ends and refusals at any point, with or without a status | no more than the limit kept; success only when complete; error statuses survive; failures named for their cause |
| Response headers (`ReadHeaders`, `ToMetadata`, `ParseHeaderInt`) | a map from names to values | one call per line | interim responses and trailers in one map; spellings; repeated and unreadable values | nothing lost; metadata is what the counting line begins with |
| libcurl's global state (`EnsureCurlGlobalState`) | once-flag, initialisation count, `atexit` list | constructors, exit | racing constructors; failing ones; static clients | one initialisation, cleanup after the last client |
| Client (`client.cpp`, `client_impl.hpp`) | `impl_`, `Impl::closed`, config | construct, 4 requests, `Close`, `closed()`, move, destroy | a flag read once and acted on later; `Close` from several threads; moved-from objects | requests after `Close` refused; refused before sending; a closed client ends up holding nothing |
| Configuration and request building (`internal.cpp` 32-500, 596-618, 968-1149, 1244-1283; `curl_http_transport.cpp` 120-122) | raw and normalized config and request, `HttpRequestData` | `Normalize*`, `Build*HttpRequest`, `IsValidAuthority` | order of checks and trimming; names that collide when trimmed or in other cases; lists with and without repetitions; hosts and ports at their limits; timeouts that do not fit a `long` | one value per controlled header; nothing breaks a line; lists and addresses sent as meant; requests go to well-formed authorities only; stable, but for one spelling of the base URL |
| JSON parser (`json.cpp`) | `index_`, the recursion, containers being built | `Parse*` | nesting limit, root limit during parsing, repeated keys | exactly JSON, within limits, with its meaning; strings: UTF-8 and surrogates |
| Reading responses (`internal.cpp` 502-594, 949-964, 1164-1242; second halves of the methods in `client.cpp`) | results so far | `ParseBulkLookupResults`, `ToApiError`, redaction | classification of items from the members present; order of decoding and redacting; keys behind escapes and percent signs | results match by position; failures are not data; errors hide the key, only the key, and still explain |
| Typed models (`models.hpp`, `internal.cpp` 669-948) | - | `ParseResponseObject` and what it calls | over a hundred fields in a dozen structures, read by name; two names for one field | a typed answer is the answer |
| Version table, public headers, test access, build | - | - | - | not modelled, see section 7 |

How they interact: the application calls the client from several threads. The client holds its
transport by pointer and its flag `closed` by value in one `Impl`, shared by nobody, moved between
client objects. A request method reads the flag, normalizes, builds, calls `transport->Send`, and
reads the answer, all in the caller's thread; the SDK has no threads of its own and no retries.
`Send` shares only the pool with other sends; libcurl calls `WriteBody` and `ReadHeaders` back during
`curl_easy_perform`, with pointers into the frame of `Send`. The first transport of the process
initialises libcurl and registers the cleanup that runs at exit.

The hazards this leads to are listed with their lines in `PROJECT.json`.

## 2. Modules

| Module | Models | State and actions |
|---|---|---|
| `HandlePool` | what the transport promises: an atomic, bounded pool | `LendIdle`, `LendFresh`, `GiveBack`, `ClosePool` |
| `CurlTransport` | the pool as coded | one action for each access to shared state between lock and unlock; `pc` names the step, `mutex` the holder; `options[h]` says into whose frame a handle points |
| `CurlTransportProofs` | theorems about it, and that it implements `HandlePool` | inductive invariant, section 6 |
| `Transfer` | one exchange, body and limit as lengths, `size_t` modulo `WordSize` | libcurl's events are nondeterministic actions; `Conclude` is what `Send` does after `perform` and the status check of the client |
| `ResponseHeaders` | the header callback and the metadata | `ReadHeaders` per line; `NextPart` for interim, final, body, trailers; `ReadMetadata` |
| `CurlGlobal` | once-flag, initialisation, exit | constructors step by step; `RunAtExit` runs the registrations backwards |
| `LibcurlProofs` | theorems about `Transfer`, `ResponseHeaders` and `CurlGlobal` | section 6 |
| `SdkClient` | the client over `HandlePool` | a request takes the steps enter (flag), normalize, send, perform, read; `Close` two, flag and transport |
| `SdkClientProofs` | theorems about it | section 6 |
| `Authority` | hosts and ports, character by character, and what the SDK takes for a host and a port, said without the code's tests | operators that `RequestBuild` uses |
| `RequestBuild` | from raw values to `HttpRequestData` | `Configure`, `Normalize`, `Build` and refusals; the helpers are operators with the names of the code |
| `RequestBuildProofs` | theorems about it and about `Authority` | section 6 |
| `JsonParser` | the recursive descent as a stack of frames | one action per kind of token |
| `JsonParserProofs` | theorems about it | section 6 |
| `JsonGrammar` | what a JSON text means, without a parser: the meanings of every stretch of it, by the number of levels | recursive functions that `AcceptsExactlyJson` compares the parser with |
| `JsonStrings` | string tokens byte by byte: escapes, surrogate pairs, UTF-8 | operators that `JsonText` and `Redaction` use |
| `JsonText` | a scalar: a string, a number or a keyword, byte by byte | `ReadKeyword`, `OpenString`, `AppendPiece`, `CloseString`, `ReadNumber`, `Finish`, `Fail` |
| `JsonTextGrammar` | RFC 8259's scalars and their meaning, by code points and not by bytes | operators that `ScalarsReadExactly` compares the parser with |
| `JsonTextProofs` | theorems about `JsonText` against it | section 6 |
| `ResponseModels` | the fields of every model and how `ParseResponseObject` fills them; what makes a model a faithful form of an object | operators that `Responses` uses |
| `Responses` | from a status and a body to a result or an error | `ThrowApiError`, `ReturnRaw`, `ReturnSingle`, one action per bulk item |
| `ResponsesProofs` | theorems about it | section 6 |
| `Redaction` | how the key is kept out of errors, byte by byte | `ToApiError`, `ReadBulkError` |
| `RedactionProofs` | theorems about it | section 6 |
| `MC*` | instances for TLC | inputs, symmetry |

`CurlTransport` and `SdkClient` meet in `HandlePool`: the first implements it (checked and proved),
the second is built on it. So what is checked of the client at the grain of atomic pool operations
carries over to the code with its lock. `Transfer`, `ResponseHeaders`, `Responses` and `Redaction` fill
in what `SdkClient` leaves open in its steps *perform* and *read*, and `RequestBuild` its step
*normalize*; the error kinds have the same names there. `JsonParser` has tokens, and `JsonText` says what
the bytes of a token are; `Responses` starts from the values that the two deliver.

### Choices that need a word

- **The steps of the pool.** `back()`, `pop_back()`, each `curl_easy_cleanup` of the loop in `Close`
  and `clear()` are actions of their own. Atomicity is thus what the mutex provides and not what the
  model assumes; without `Lock` (a mutant) two sends get one handle.
- **Handles are addresses.** libcurl may return an address again after it was freed; options of a
  freed handle are gone.
- **A transport is destroyed only when no call runs on it.** That is C++'s rule for every object; the
  same goes for moving and destroying a client. `Close` may race with requests in `client_racing`;
  `client_orderly` has the documented rule that it is not called while requests run.
- **Undefined behaviour.** Moving or destroying a client in use is excluded, since it is the caller's
  to avoid. No data race was found in the code between operations that are allowed to overlap.
- **Texts** (in `RequestBuild`) are a word with what surrounds and what is inside it: outside blanks or
  line breaks; inside a line break, another control below 0x20, 0x7f (a control for a header, but not one
  that JSON escapes), a quote, a tab, a separator or nothing. `Trim`, the header tests and the encoders
  act on these. Names of headers are such texts too, with a field and a spelling for a word, so what a
  name is sent with is the doing of the model's `NormalizeHeaders`. The order "validate, then trim" against
  "trim, then validate" is kept, as the code has both.
- **The end of a base URL** is a sequence of counts of slashes with a blank between two counts:
  `/v1// /` has the path `/v1` and the slashes `<<2, 1>>`. `NormalizeBaseUrl` trims and then takes the last
  slashes away, and a blank in front of these stays, as in the code (internal.cpp 276-279).
- **Values of response headers** are the int they begin with, if any, and whether something follows it, since
  `std::stoi` reads as far as it can: `1.5` is 1, `12abc` is 12, `-3` is -3, `abc` is nothing, and a number that
  no `int` holds is nothing either.
- **Bytes** (in `JsonText`, `Redaction`) are numbers from 0 to 255, and **characters** (in `Authority`)
  stand for their class. The key and the answers are really masked, decoded and searched, since it is
  the order of these, and what one of them leaves for the next, that could be wrong.
- **The mask is one byte, repeated**, and no key holds it (`MaskAssumption`). With a key that contains
  part of `[REDACTED]`, a mask beside what is left of a text can spell the key again; such keys are left out.
- **Numbers.** Which decimal texts a `double` represents is `std::from_chars`'s or `strtod`'s business,
  depending on the build. `Unrepresentable` and `Subnormal` are the texts on which they differ or fail.
- **`long`** is 32 or 64 bits wide: `LongMax` is a constant, and so is `size_t` in `Transfer`.

## 3. Runs

| Run | Instance | States | Shows |
|---|---|---|---|
| `transport` | 2 threads, 3 handles, capacity 1, 3 calls each | 77,842 | exclusivity, accounting, bounds, options, refinement of `HandlePool`; every call returns; a closed transport drains |
| `client_racing` | 3 threads, 2 objects, 2 calls each | 609,095 | requests after `Close` are refused, a closed client holds nothing |
| `client_orderly` | 2 threads, all requests and credentials | 159,528 | nothing is sent that is refused; nobody who follows the rule sees a closed transport |
| `client_liveness` | 2 threads, 2 calls each | 107,169 | setting the flag leads to an empty transport |
| `transfer` | `size_t` of 4 bits | 24,894 | what is reported is what happened |
| `curl_global` | 3 threads, 3 clients, 2 static, 2 failures | 2,412 | one initialisation, cleanup last |
| `request_build` | families of inputs in `MCRequestBuild` | 18,625 | what is sent is what was meant, to a well-formed authority, in time |
| `responses` | families of answers in `MCResponses` | 6,974 | positions, classification, typed models, messages |
| `json` | all inputs of up to 5 tokens, edits of 8 longer texts | 189,939 | exactly the grammar, within the limits |
| `json_text` | bytes around every boundary, in every place of a token | 49,487 | exactly RFC 8259's scalars, with their meaning |
| `redaction` | up to three fragments of a key, in six kinds of body | 35,771 | the key is hidden, and it alone; errors stay short |
| `response_headers` | up to 3 lines, 3 names and none, 2 spellings, 6 values | 564,725 | lossless; metadata is what the counting line begins with |

Why the bounds are enough:

- Pool: two threads can fight over one handle, release and close; a capacity below the number of
  threads makes the pool overflow; three calls per thread let a handle come back, be reused by another
  kind of request, and be discarded while the other thread closes. There is one handle more than
  threads, so that `HandlesBounded` is not a matter of running out of addresses. The proofs remove the
  bounds on threads, handles, capacity and calls.
- Client: with two objects the Impl can be moved away and back; with three threads a request and two
  Closes overlap. `MaxIdle` is 1, so that a handle is also discarded when the client is open. The
  proofs remove these bounds too; those on `client_liveness` remain.
- Transfer: `WordSize = 16` keeps the limit at 1, at the largest value and in between; blocks are
  chosen so that `size * nmemb` wraps (`2 * 8`). The proofs hold for every width.
- Requests: up to three headers out of eleven names with four fields, so that names collide by blanks, by
  case and by both; lists of up to four values; authorities of up to four characters of each class,
  and longer ones with ports around 65535, 2^31 and 2^32. `LongMax` is 3 and timeouts go to 9, past one
  and two wraps. Base URLs end in up to three groups of slashes with blanks between them.
- Response headers: the values begin with the largest and the smallest int and with the numbers next to
  these, with a number and something behind it, or with no number (`Int32` is -8 to 7).
- JSON: `MaxDepth` is 3 instead of 256 and `MaxRootItems` 2; the inputs reach both limits, one less and
  one more. Every pair of adjacent grammar rules occurs within five tokens or one edit of a text.
- JSON text: for each lead byte the values next to both ends of the range that may follow, each kind
  of escape, pairs of code units around both surrogate ranges, and each of these cut short. Pieces of
  a string do not influence each other beyond the next two.
- Answers: bulk answers hold up to one item more than was asked for, and every field of every model
  occurs in every type, alone and beside its second name.
- Redaction: the key has up to two bytes, one of which percent-encoding changes. Fragments are the key's
  bytes raw, encoded in both cases and escaped, so that three of them build the key across every kind
  of border. `MaskLen` is 4 and `MinLimit` 12 instead of 10 and 4096; texts around both limits, with
  masks before and after the rest, are among the bodies.
- Header collisions take up to three names.

`SYMMETRY` is used in `client_racing` and `client_orderly` only, which have no liveness property. `CHECK_DEADLOCK` is left on: every module has an
action for a program that has finished.

## 4. Fairness

- `CurlTransport`, `SdkClient`, `CurlGlobal`: weak fairness of each thread's `Proceed`, i.e. of the
  steps inside a call. A thread inside a call is scheduled; calls are never forced to begin. For a
  contended mutex weak fairness is enough because each thread makes finitely many calls (`MaxCalls`),
  so that the lock is free for good at some point: nothing is assumed about the fairness of
  `std::mutex`, and nothing shown for a stream of calls without end.
- That `perform` ends, in `CurlTransport` and `SdkClient`, is an assumption about libcurl's timer. The code
  does its part: `NormalizeConfig` refuses a `read_timeout` that is not positive, and `Send` sets it as
  `CURLOPT_TIMEOUT_MS`, which covers the whole exchange. Nothing is assumed of the server. `Transfer` states
  no fairness and no liveness: that an exchange ends would be that assumption again.
- `CurlGlobal`: weak fairness of `RunAtExit` once the program exits.

## 5. Properties

Each property has its comment in its module. The ones that took most thought:

- `ImplementsPool` (refinement), `LiveAccounted`, `OptionsOwned`: a `Send` may fail anywhere between
  acquiring and performing, and the guard returns a handle whose options point into the frame that is
  being destroyed. `curl_easy_reset` at the start of the next `Send` is what makes that safe, and not
  anything at the end of this one.
- `LateRequestsRefused`: holds also for the `Close` that lost the race for `closed.exchange(true)` and
  returned while the transport was still open, because a request reads the flag and not the transport.
  What does not hold is that connections are gone when that `Close` returns: the FAQ says that `Close`
  "marks the client closed and releases the internal transport state" (src/README.md:481), and for the
  loser of the race the release is still the winner's to finish. `ClosingCompletes` says that it comes.
- `LiveAccounted` does not look while the lock is held, when a handle may be in neither place. And the
  refinement mapping of `ImplementsPool` has an empty pool once `closed_` is set: a handle kept after `Close`
  would show in `ClosedDrains` and, for the client, in `ClosedClientHoldsNothing`.
- `ErrorStatusSurvives` against `FailureNamesItsCause`: an exchange that fails after the status line of
  an error is an `ApiError` with that status, whatever else went wrong; in every other case the type
  of the exception tells timeouts and oversized bodies from the rest. Excepted is the
  exchange whose status libcurl cannot tell (`StatusUnknown`): `Send` throws for that before it looks at anything else.
- `OneOfEachControlledHeader`: one spelling of each, with the value the SDK decided on: the agent of the
  request or the caller's header, the type of the output, that of the body, the scheme and authority of the origin.
- `NothingBreaksTheLines`: of names and values, the base URL, the query and the addresses in the body. What
  is allowed differs by place: 0x7f passes into the body, as JSON lets it, and into no header.
- `NormalizedIsStable`, with one exception that the code has: `https://a/v1 /` is normalized to `https://a/v1`
  and a blank, which is accepted, and loses the blank when it is normalized again.
- `FailuresApartFromData`: which items of a bulk answer are failures, exactly. `{}`, `{"status":..}` and
  `{"data":{..},"x":1}` are data to the code, locations with nothing known in them; a single object `data` is
  the only wrapping it refuses.
- `MetadataAsStated`: exactly the int that the line which counts begins with. The prefixes of `std::stoi` are
  part of it: `1,000` credits are reported as 1.
- `CleanupComesLast`: `atexit` is called inside the first constructor, hence before the constructor of
  any static client completes and its destructor is registered.
- `AcceptsExactlyJson`: the parser against a grammar written independently of it, on token sequences.
- `ScalarsReadExactly`: likewise, with strings as code points that are encoded, and not decoded bytes.
- `ErrorsHideTheKeyOnly`: what a reader could get out of an error, by undoing JSON escapes and then
  percent-encoding, once each, does not hold the key; and a body from which nobody could get it is passed on
  unchanged. Each half alone would be satisfied by hiding everything or nothing. It is checked for keys of
  letters and slashes: a key that itself contains `%`, a quote or a backslash, or part of the mask, could be
  spelled by what masking leaves, and nothing is claimed of it. `ApiErrorsExplain` adds
  that the message is the API's, and what the status means when the API says nothing.
- `MaskBounded`: a key of one byte makes a text grow tenfold; no error is longer than the answer was or
  than `MinLimit`, whichever is more.
- `TypedAsAnswered`: over all fields of all models, told from the answer's side and without the parsers:
  each field under its own name and place, nothing lost or made up, the newer of two names first.
- `AuthoritiesWellFormed`: base URLs are accepted exactly if their authority is well formed, by a definition
  that knows nothing of the order in which the code looks for colons and brackets. It is the SDK's notion of
  well-formed and not RFC 3986's: in brackets it asks for hexadecimal digits, colons and dots and at least one
  colon, so `[:]` passes, and `my_host` and an IPv6 address with a zone do not.
- `TimeoutsSurvive`: a cast alone would turn a long timeout into none or a negative one.

## 6. Proofs

`CurlTransportProofs` proves for any finite set of threads, any set of handles, any positive capacity
and any bound on calls, that `Spec` implies `[]TypeOK`, `[]HandleExclusive`, `[]LiveAccounted`,
`[]PoolBounded`, `[]HandlesBounded`, `[]OptionsOwned`, `[]NothingLeaksAfterDestruction` and
`NoAcquireAfterClose`. The assumptions are those declared with the constants in `CurlTransport`.

None of these is inductive: `LiveAccounted`, for one, says nothing while the lock is held. The
inductive invariant is

    IInv == Control /\ Ownership /\ Lifetime

- *Control*: types; a thread is in a critical step exactly if it holds the mutex; a thread has a handle
  exactly in the steps between acquiring and releasing.
- *Ownership*: the pool has no repetitions and at most `MaxIdle` entries, none of them held by a thread
  (between `back()` and `pop_back()` the top entry is the one about to be lent); no two threads hold one
  handle; the live handles are those not yet swept by a running `Close` and those held.
- *Lifetime*: a destructor runs only when no call does; a destroyed object is closed and empty; and
  `OptionsOwned`.

Each part is proved inductive on its own, `Ownership` and `Lifetime` relative to `Control`, with one step for each action. `HandlesBounded` needs the
additional fact that a handle is allocated only when the pool is empty, and the cardinality facts of
`FiniteSetTheorems`.

The theorem `Implementation` of the same module is `Spec => Pool!PoolSpec`, i.e. that the steps under the lock refine
the atomic pool: a send takes a pooled handle at `pop_back`, a fresh one at `curl_easy_init`, gives it
back in `ReleaseHandle`; the pool closes when `closed_` is set, and the handles that `Close` is still
cleaning up count as gone from that moment. All other steps stutter.

The first part of `LibcurlProofs`, about `Transfer`, proves `[]TypeOK`, `[]BodyWithinLimit`,
`[]SuccessIsComplete`, `[]ErrorStatusSurvives` and `[]FailureNamesItsCause` for every width of `size_t`
(`WordSize`), every set of limits below it, every length of a body and every set of blocks libcurl may
deliver it in. The invariant adds to the types that while the exchange runs all that was sent is in the
body (*Counted*), and that the outcome is what `Send` and the client make of what was recorded
(*Concluded*). The arithmetic is in the lemma `DivisionCompares`: the test `nmemb > (limit - body) /
size` of `WriteBody` holds exactly when the product, which the code must not compute before, would pass
the limit; so the product it computes afterwards does not wrap around.

Its second part, about `ResponseHeaders`, proves `[]HeadersTypeOK`, `[]HeadersLossless` and
`[]MetadataAsStated` for any number of lines, names, spellings and values. The invariant is
`HeadersLossless` itself, with the types and with the metadata being those of the headers once they are
read: the values of a name stand for the places of its lines, one for one and in their order (`Lists`);
a further line extends that for its own name and leaves the others alone. What `ParseHeaderInt` reads is
the first value of the first spelling in the order of the map, and that is the value of the line that counts.

Its third part, about `CurlGlobal`, proves `[]ProcessTypeOK`, `[]InitialisedOnce` and `[]CleanupComesLast` for any number of
threads and clients, any choice of static ones and any bound on failures. The invariant says that one
thread at a time is inside `call_once` and others pass it only when it is done (*OnceInv*), that the
count of initialisations follows from the flag until exit (*SetUpInv*), and that the cleanup is
registered at most once and below every static client that is still alive (*ExitInv*): the last point
is what makes the reverse order at exit safe, and it rests on a destructor being registered only after
the constructor that passed `call_once`.

`SdkClientProofs` proves `[]TypeOK`, `[]LateRequestsRefused`, `[]ClosedClientHoldsNothing`,
`[]ClosedTransportSeenByRacersOnly` and `[]RefusedBeforeSending` for any number of threads, client
objects and handles and any bound on calls. The invariant is made of: who has a handle and which
handles live (*PoolInv*); that calls run on objects that exist, and that a set flag has closed the
transport or has a thread about to (*OwnerInv*); that a late request waits for the flag which will
refuse it (*LateInv*: this is the strengthening that `LateRequestsRefused` lacks, as it says nothing of
the flag); that a request that was let in works with the Impl it was let in to (*InsideInv*), which
under the documented rule no `Close` uses (*ApartInv*); and what a request needed to get where it is
(*SentInv*). One lemma says of each part that a step of a call concerns no other call.

`RequestBuildProofs` proves all eight properties of `request_build` for any inputs of the types that
`InputsAssumption` states. The invariant is that each phase holds what the phases before it made of the
input, and that there is a configuration exactly if the raw one was valid; the rest is about the
operators, in five groups.

- *Headers.* `SetHeader` and `SetAnotherHeader` say what `SetHeaderCaseInsensitive` does to the header it
  sets and to the others, `NormalizedHeaders` that a name which several spellings fall on keeps one of
  their values, `FirstSpelling` that a header found in any case has a value given for it.
- *Lists.* `Deduplicated` says of the loop of `NormalizeStringList` that its result has the values trimmed,
  without repetitions, in the order of their first places; `ListSent` carries that over to the query.
- *Lines.* A text is harmless if it was trimmed after, or before, it was found free of breaks; `EncodedLine`,
  `QueryLine`, `BaseUrlLine` and, for both sides of the colon, `EveryHeaderName` and `EveryHeaderLine` follow each
  text on its way.
- *Stability.* `ListStable`, `OriginStable`, `ConfigStable`, `HeadersStable` and `RequestStable`: the result of
  a normalization is valid, and normalizing does nothing to it. For the base URL these are two lemmas:
  `BaseUrlValid` for every one, `BaseUrlStable` for those without a blank among the slashes at their end.
- *Authorities.* `Authorities`: `IsValidAuthority` accepts exactly what `IsWellFormed` describes, for authorities
  of any length. `Ports` says that five digits without zeros in front are all that can pass (`Magnitude`: a
  sixth digit is already out of range, whether or not `stoi` gives up, and stays out), `Names` that the
  tests of the labels amount to a test of each place with its neighbours (`LabelPlaces`, `NamePlaces`),
  `HostAndPort` and the rest that the colons and brackets the code finds are those that delimit the host.

`ResponsesProofs` proves all four properties of `responses` for any answers, of any length and nesting. The
invariant is that each item read so far has become a result about it, that data is that of the root, and
that an `ApiError` has the message of the answer. That items are told apart as `FailuresApartFromData` says goes
by two lemmas about the loop and the look-up for messages, `Speaks` and `SaidWithin`. What the models hold is a matter of the operators:
`ReadsContent` says of one field that the Read functions give the content of what `GetMember` found;
`Represented` and `Within` carry that to the fields of all models at a name and to the models within them;
`Parts`, `TimeZoneParts` and `UserAgentPartsRead` say where each Parse function puts them; and `TypedForm`
puts the pieces together over `ModelPlaces`. The reference follows a path by a recursive function; a path
has at most three names, so `JsonSteps` and `TypedSteps` write that function out instead of using an
induction. `FirstHeard` says that the order in which `ExtractMessageFromErrorObject` asks is that of
`Speakers`.

`JsonParserProofs` proves `[]TypeOK`, `[]LimitsHoldThroughout` and `[]AcceptsExactlyJson` for any token
sequences and any two limits. For the limits the invariant says that the innermost container fits what is
expected next, and that a root array with something open inside has room for it. For the grammar it says
(*MeaningInv*) that at every moment the whole input means exactly the values that `Denotes` finds: what is
still to be read, by the rules of the grammar, with the containers on the stack around it. No step changes
that, so at the end the value that was built is the only meaning, and what is refused has none. The proof
goes from the grammar to the parser in three steps.

- The grammar speaks of stretches of the text and of lists between brackets. `ListsStep` and `MeaningsStep`
  unfold its two recursions, `ListsCut` cuts a list after its first part, and `RestCut` says that the rest of
  a container is a part and what follows it; the last of repeated keys counts (`LastOfCons`), as in a map.
- `Completes` carries a value from the place where it ends through all open containers to the end of the
  text (`CompletesNone`, `CompletesMore`).
- `OpenMeans`, `LeafMeans`, `RestMeans`, `AfterMeans` and `FullMeans` say what each kind of token does to the
  meaning, and `LeafStep` to `FailStep` that the parser's actions do the same.

The tokens of one kind must differ from those of another (`TokensAssumption`): in the code the first
character tells them apart.

`JsonTextProofs` proves `[]TypeOK` and `[]ScalarsReadExactly` for texts of any bytes and any length, with any
sets of numbers that the conversion to a double refuses. The reference does not say where the pieces of a
string are: a string spells a sequence of code points if it can be cut into escapes and encoded characters
that spell it, and so does the string that is handed out. The parser cuts it in one way, from the left.
The invariant says what that leaves open (*Inside*): inside a string the text denotes what has been read,
with what is left up to the last quote behind it. Behind a scalar (*Behind*) the value is what the text
denotes if nothing but white space follows, and the text denotes nothing if more follows; and the parser
fails only where the text denotes nothing, or a subnormal number that `strtod` gives up on (*Ended*).
`TypeOK` and these were checked on the instance of `json_text` before the proof. The argument has these parts.

- *Pieces.* `PieceSpelled`: at each place of a string the piece that `PieceAt` reads is the only one that
  spells anything, it spells one code point, and the bytes that are handed out are the UTF-8 form of that
  point; where it is refused no piece spells anything. This is the arithmetic of UTF-8 (`TwoForm` to
  `FourForm`, `NoForm`, and `Utf8Back` for `AppendUnicodeCodePoint`) and of the escapes (`HexDigit`,
  `UnitsOf`, `Surrogates`). `Follower`, the table of the code for the second byte, stands for four
  conditions on the code point that a form gives.
- *Cuts.* `ReadingsUnfold` unfolds the recursion of the reference. `LeftPiece` takes a piece from the front of what
  is left; `AppendPoint` adds its point to the end of what has been read, by an induction from the end of the
  string (`Backwards`), and `JoinedMoves` puts the two together.
- *Numbers.* `NumberParts` says what the places between the parts of a number are, `NumberFound` that the
  parser finds such places, and `NumberRead` that it finds the last ones: it never takes a shorter number
  than the text holds, so what follows makes the text wrong (`NumberWhole`).
- *Bounds of a text.* `BareIs`, `WholeIs` and `RestIs` relate the white space that `Parse` skips in front and
  behind to the text without it; `DenotesBy` says that the first byte decides what a text can be.

`RedactionProofs` proves `[]MaskBounded` for answers and keys of any bytes and lengths,
`ErrorsHideTheKeyOnly` for every key that a URL holds as it is (`PlainKeyHidden`, with `Plain(key)`: letters,
digits and `-._~`, the bytes `UrlEncode` leaves alone), and for other keys a part of it: the key occurs in no
text of an error as it is (`KeyOut`), nor, if it has no percent sign, in what such a text is percent-decoded
to (`KeyUndecoded`). The invariant is `MaskBounded` with these two and the types; that the body of an error is
what `SafeErrorBody` made (`SafeMade`) is one by itself. All come from the loop of `MaskMatches`, by an
induction from the end of the text (`Backwards`).

- *Length.* `MaskMatchesBounded`: the loop compares what is done with the limit at each match and before
  it adds the rest. `ExtractNoLonger` says that the message found in a body is no longer than the body, as
  no piece of a JSON string adds more bytes than it takes (`PieceFits`).
- *Key.* `MaskMatchesHides`: what is done is empty or ends with a mask, and holds no key (`Sealed`). A key
  does not contain the byte of the mask, so that none can reach over a mask (`Seam`), and the stretches
  between two masks are free of it as they were before (`StretchFree`).
- *Decoded key.* Masking takes bytes away, and what is left could be escapes that were none before. It is
  not: each byte of a masked text that is no mask comes from one of the text, and neighbours from
  neighbours (`MaskMatchesTraced`), and the byte of the mask is no hexadecimal digit. So an escape of the
  masked text is one of the text (`EscapeKept`), what both decode to is the same between two masks
  (`DecodingKept`), and an occurrence of the key maps back to one in the decoded text (`MaskedUndecoded`).
  There was none, or the whole text would have been masked. A key that is a single hexadecimal digit can be
  masked inside an escape, which makes it none.
- *Plain key behind escapes.* `SafeErrorBody` looks for suspicious tokens in the answer, but a reader gets
  to see what is left of it, and reads the tokens of that. The two are compared byte by byte: a text `Follows`
  another when each of its bytes is one of the other, the next of its neighbour's, or is of a mask in the place
  of a key. `Tracks` says that `ParseString` reads the same from both, up to the place that belongs to the
  end of the first, and the same string, or else one that holds the key: a piece that is copied is the
  same piece (`PieceKept`), as none but its first byte can be of a mask (`LaterBytes`); and a plain key stands
  for itself where a mask does (`PlainRun`). So a token of the body is one of the answer (`TokenTracked`), and if
  that was not suspicious it shows no key: its escapes were looked into, and without escapes it is a stretch of
  the body between two quotes, which has no key in it, decoded or not, because the body has none (`TokenGood`,
  `StretchHides`). `MembersShown` and `MembersCalm` go through an object as `HiddenByEscapes` does; `TrimPlaced`
  adds the white space around it.
- *What does not show the key.* `GoodRedact`: a text is left alone when and only when it shows a plain key neither
  as it is nor decoded. For an answer of which no reading shows it, the way just taken is taken back: no token
  is suspicious (`TokenCalm`), so nothing is hidden (`StringsCalm`).

Induction over data. The induction theorems of the library take an operator as parameter, which the
provers cannot instantiate. The proofs do without: `Induct` says that a set of numbers which
holds 0 and is closed under successors holds all, from the well-foundedness of the order of the naturals
(`WFMin`). `Recursion` (in `RequestBuildProofs`), `Solution` (in `RedactionProofs` and `JsonTextProofs`) and `ListsStep` build
the function that a recursive definition describes, so that the definition, a `CHOOSE` to the prover, can
be unfolded. What has to be proved about is therefore defined by recursive functions and not by folds.

Only model-checked:

- liveness (`EveryCallReturns` of `CurlTransport`, `ClosedDrains`, `ClosingCompletes`, `ConstructorsReturn`), which is out of
  the prover's reach, as is `ENABLED`;
- `ErrorsHideTheKeyOnly` for keys with other bytes, such as the slash in those of the run: that the key does not
  come back when JSON escapes are undone, and that an answer which does not show it is passed on. The
  second of these does not hold of every key: with the key `1` and a blank, an answer with `%41%20` shows
  no key to a reader, and the encoded key, `1%20`, is masked in it.

## 7. Not modelled

- `NeedsHttp11ForCurl`: a table of libcurl versions, with nothing in the repository to compare it to.
- `BindingMembers` in `models.hpp` (210-263), which keeps structured bindings of older versions working:
  resolved by the compiler.
- The value of a number: left to the C++ library.
- Trimming of a header line and the measured duration.
- Memory exhaustion outside the pool and the callbacks.
- Headers with declarations only, the access for tests, and the build.

## 8. Possible continuations

- `ErrorsHideTheKeyOnly` for keys that percent-encoding changes, under the weakest assumption that it needs.
- Liveness of the transport under a stream of calls without end, which would need an assumption about
  the fairness of `std::mutex` that the standard does not give.
