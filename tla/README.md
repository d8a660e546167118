# A TLA+ model of mixerclient

mixerclient is the C++ library that an Istio proxy uses to talk to a Mixer
server: it checks requests against policy (`Check`), takes rate-limit tokens
(quota), and sends telemetry (`Report`), and it caches, prefetches and batches so
that most requests need no remote call. This directory holds TLA+ modules for
its parts, TLC configurations that check them, and proofs for TLAPS.

## The system

| component | state it keeps | operations | interacts with |
|---|---|---|---|
| `MixerClientImpl` (src/client_impl.cc) | both caches, the report batch, the compressor, statistics | `Check`, `Report`, `GetStatistics` | calls all parts below; the transport calls back on any thread |
| `CheckCache` (src/check_cache.cc) | `referenced_map_`, an LRU cache of verdicts with expiry and use counts | `Check`, the response callback (`CacheResponse`), `FlushAll` | `Referenced`, `SimpleLRUCache` |
| `QuotaCache` (src/quota_cache.cc) | per quota name a pending item and a referenced map, an LRU cache of prefetch objects | `Check`, `SetResponse`, `Flush` | `Referenced`, `SimpleLRUCache`, `QuotaPrefetch` |
| `Referenced` (src/referenced.cc) | absence and exact keys | `Fill`, `Signature`, `Hash` | pure |
| `QuotaPrefetch` (prefetch/quota_prefetch.cc) | a queue of token slots, a predict counter, OPEN/CLOSE mode, requests in flight | `Check`, `OnResponse` | `CircularQueue`, `TimeBasedCounter`, the transport |
| `CircularQueue` (prefetch/circular_queue.h) | a ring of nodes, head, tail, count | `Push`, `Pop`, `Head`, `Iterate` | - |
| `TimeBasedCounter` (prefetch/time_based_counter.cc) | a ring of time slots and their sum | `Inc`, `Count` | - |
| `ReportBatch` (src/report_batch.cc) | the batch under construction, a timer | `Report`, `Flush`, destructor | compressor, timer, transport |
| `AttributeCompressor`, `DeltaUpdate` (src/) | the size of the global dictionary in use; per batch the message words and the previous entry | `Compress`, `Add`, `ShrinkGlobalDictionary` | shared by all threads |
| `SimpleLRUCache` (utils/simple_lru_cache_inl.h) | table, deferred entries, eviction list, unit counts | lookups, releases, insertion, removal, resizing, time-out | the two caches |
| HTTP and TCP handlers (control/src/{http,tcp}) | the request context: attributes, quotas, the check's status; for TCP what the last report covered | `ExtractRequestAttributes`, `Check`, `Report` | service context, attributes builders, the client, whose answer comes back on another thread |
| controller, service and client contexts (control/src/http) | an LRU cache of service contexts by configuration id, a map of them by service name | `LookupServiceConfig`, `AddServiceConfig`, `CreateRequestHandler` | handlers, `SimpleLRUCache`, parsers |
| attributes builders (include, control/src) | - | copy headers, peer, JWT, forwarded attributes and byte counts into attributes | the proxy's `CheckData` and `ReportData` |
| quota config parser (quota/src) | rules with match clauses | `GetRequirements` | service context |
| API specification (api_spec/src) | a trie of URI templates, a list of regexes, API key sources | `Register`, `Lookup`, `AddAttributes`, `ExtractApiKey` | service context |

What is hard here: callbacks of the transport and of the timer run on other
threads and in any order; the global dictionary is lowered while other threads
compress; tokens are used before they are granted and taken back later; cached
verdicts are found through keys that depend on the answer; pinned cache entries
are removed, replaced and timed out while in use; a report may be made before the
answer to its check; a hand-written parser and a backtracking search decide which
pattern describes a request.

What makes each part correct: a queue, a counter and a cache that are what they
seem through every wrap-around, resize and eviction; no report lost, duplicated,
reordered or changed by batching; no token created or lost; no cached verdict
for a request the server would treat differently, nor beyond its lease; the
configuration, the quotas, the verdict and the byte counts of a request are its
own; the pattern found is the best match and its variables get their own parts.

## Modules

Every module models the code named in its head comment; `PROJECT.json` maps
definitions to lines. Operators called `...` "Mutant" in a comment are slips of
that code that the checks must notice; nothing else uses them.

* `FifoQueue` - what a queue promises. `CircularQueue` - the ring, one action per
  operation; `Items` is the abstract queue. A client writes through `Head()`
  (`SetHead`) and through the item at which `Iterate` stops.
* `TimeBasedCounter` - a counter as a record, with `Clear`, `Roll`, `Inc` as
  operators. A difference that is negative by a slot or more becomes a huge
  `uint32_t` in the code and clears the counter. `CounterWindow` - one such counter
  with the history of what was counted when. `PrefetchRingProofs` - the theorems about
  both rings.
* `QuotaPrefetch` - `Check` and `OnResponse`, each one step because it holds
  `mutex_`. It takes the queue as the sequence that `PrefetchRingProofs`
  justifies, plus the number of nodes, because `Iterate` sees nothing of a full
  ring. `Substract` is written as its result: the slots popped and what remains of
  the next. `balance` is history: what was granted, less used and expired. Callers
  read the clock before they lock, so a step may use a time up to `Skew` back.
  `QuotaPrefetchProofs` - the theorems.
* `AttributeCompressor` - the words, indexes, delta update and dictionary as
  operators, and (external) how a receiver reads a batch. A value is the words the
  compressor looks up and an opaque rest. `top_index_` is an unlocked `int`: an
  `Add` reads it once per word, so a *view* gives each lookup its value.
  `ReportLog` - every report reaches the transport once and in order.
  `ReportBatch` - `Report` (with and without a dictionary change during it),
  `TimerFires`, `Flush`, `OnReportDone`, `Destroy`. `ReportBatchProofs` - the theorems.
* `SimpleLRUCache` - the cache as one record and its operations as functions on
  it, composed as the code composes them. `held` is history: the pins callers have.
  A value stands for its `Elem`; per-key deferred lists are abstracted to a mark.
  `SimpleLRUCacheProofs` - the theorems.
* `Referenced` - `Fill`, `Signature` and `Hash`; words are numbers so that they
  sort, and MD5 is taken to be injective. `CheckCache` - calls of several threads:
  `BeginCheck`, one `VisitReferenced` per matching entry of `referenced_map_`,
  `EndWalk`, then the server's answer (`OnResponse`, `OnBadResponse`,
  `OnNetworkFailure`). The walk holds no lock; an entry added meanwhile may be
  seen or not. The LRU cache appears as the function and the eviction order that
  `SimpleLRUCache` has for entries of one unit whose pins do not outlive the lock.
  The server is a constant, `Policy`: a verdict and the attributes it looked at,
  assumed to depend on these alone (`PolicyAssumption`). `CheckCacheProofs` - the
  theorems.

* `QuotaCache` - the quota cache over `Referenced` and the LRU cache for entries of
  one unit, this time with null values and with pins that outlive the lock: both
  occur here and nowhere else. `CheckRemote` and `CheckCached` are the two halves of
  `CheckCache`; `SetResponse` and `OnQuotaResponse` are what an answer does. A
  prefetch object is the number of answers it waits for: whether it passes a request
  and whether it asks for tokens is left open (`QuotaPrefetch` has that). An object that
  nothing points to any more, neither the cache nor a callback, may be made again.
* `MixerClient` - `Check` calls of several threads, in the pieces between which
  other threads can run: the entry with the check cache, one `CheckQuota` per quota
  (each locks `cache_mutex_` for itself), `BuildRequest` with `Compress`, `Send` with
  the word count read after it, the transport's answer or failure, one `OnQuota` and
  `Deliver` per quota, `Finish`. The check cache is abstracted to what the
  `CheckCache` module shows of it: the last verdict on a request, which it can lose
  at any time. `MixerClientProofs` - the theorems, those about the quota cache included.

* `HttpTemplate` - the recursive descent parser as functions from parser records to
  parser records, and the grammar in its comment as the set of all derivations of a
  text. `PathMatcher` - trie nodes, registration, lookup, the splitting of request
  paths and the bindings of variables. `ApiPatterns` - which patterns of a specification
  match a request. `HttpApiSpec` - API attributes and API keys; the positions of the
  patterns that match are a parameter (`MatchedPatterns`), which `MCControl` gives the
  value that `ApiPatterns` defines: the theorems about the controller hold for any
  matcher that finds patterns of its own specification. `ApiSpecMatch` - patterns are
  added one by one, and every lookup is compared with `Best`, which knows no trie: a
  pattern matches if its segments can be laid over the parts of the path (`Alignments`),
  and of those that match the most specific in the first difference (`Rank`) wins. Before
  the first pattern it writes a text chunk by chunk, an input of the parser in every state.
  A string is the sequence of its characters; a complete escape (`%2F`) is one.
* `Pointers` - pointers that may be null and what is found in maps. `Attributes` -
  `AttributesBuilder`. `QuotaConfig` - the quotas that rules demand.
  `RequestContext` - what HTTP and TCP handlers share: the context, the callback that
  saves the status, HTTP codes of statuses. `HttpControl` - the controller with its
  service contexts and several handlers at once; the mixer client is external here: an
  answer comes within `Check`, later, or after the report. A `ServiceContext` without
  configuration (null) has both calls disabled. `TcpHandler` - one connection.
  `Control` - both, with the properties. `ControlProofs` - the theorems.

`DataTheorems` holds the lemmas that the proofs share: induction, sums, folds and
sequences.

`MCCircularQueue`, `MCReportBatch`, `MCSimpleLRUCache`, `MCCheckCache`,
`MCMixerClient`, `MCApiSpecMatch` and `MCControl` hold constants and symmetry for TLC.

## Runs

| run | what it shows | bounds |
|---|---|---|
| `circular_queue` | the ring is a FIFO queue (`FifoSpec`), its indexes agree (`RingOK`), and `Iterate` misses items only in an exactly full ring | 2 values, initial size 2, up to 5 items: the ring doubles twice, with every position of head |
| `report_batch` | batching is invisible: decoding what was sent gives the reports back in order (`LogSpec`, `NothingLostInBatch`), also when the dictionary shrinks in the middle of an `Add`; a batch always has a timer and every report is sent in the end; after a dictionary error later requests keep to the base version | 4 reports of 4 attribute sets that change, repeat, add and drop names, 2 dictionary words of which 1 is base, limits 0 and 3 |
| `counter_window` | the count is right up to one slot, wherever calls fall | 3 slots of 2 ticks, 11 ticks, sum 5: the window passes twice |
| `quota_prefetch` | tokens balance, answers find their own slot, one token is never refused in OPEN mode, a granted Check takes exactly its amount | 3 slots ever, 2 requests in flight, times 0..3 with readings one tick late, initial ring of 2 so that it fills |
| `lru_cache` | pinned values live until their last release; unit counts and eviction list are exact; the cache is overfull only through pins; the oldest goes first | 2 keys, 3 values, sizes 1-2, times 0..2, 2 pins each, both modes |
| `check_cache` | a cached verdict is the server's own for the very request, within its lease, and every cached verdict can be found | 2 threads, 4 requests, 2 entries, 2 times, unlimited or single use |
| `check_cache_absence` | violated: a verdict that depends on an absent attribute is used for a request that has it | a server that looks at the map key only for some sources |
| `mixer_client` | each caller is told once; a call that is denied takes no tokens; a prefetch object has one owner and gets as many answers as it waits for; once the dictionary is lowered no request uses words beyond the count it announces | 2 calls at once and 4 in all, 2 quotas of which one is per source, room for 0 or 1 entry, entries that may expire at any lookup |
| `quota_cache_pins` | violated: a second answer for one pending item caches null, and each lookup of it leaves a pin for good | same, room for 1 entry, no expiry |
| `path_matcher` | the parser answers exactly what its grammar derives and the grammar is unambiguous; `Lookup` finds the one best pattern; a variable is bound to the parts on its own segments | every text up to 8 characters from the grammar's symbols; every sequence of up to 3 patterns, among them constants, `*`, `**`, variables over both, custom verbs, two methods and the wildcard method; paths that fit several of them |
| `control` | a handler gets the configuration of its route; one context per service; the quotas asked for are those due for the attributes sent; nothing forwarded overrides what the proxy saw; a report gives the verdict there was; byte deltas add up | 2 HTTP handlers at once, 3 configuration ids in a cache of 2, 4 service contexts, 2 client configurations; 1 TCP connection of 3 configurations that moves up to 2 bytes each way |
| `quota_cache_late_answer` | violated: an answer reaches a prefetch object that was evicted meanwhile | as `quota_cache_pins` |

In `check_cache` all requests carry the map and the server looks at the map key
first; `check_cache_absence` shows that a hit need not be the server's verdict
otherwise.

Four calls are what the quota cache's hard cases need: one that gets a verdict into
the check cache, two that miss the quota cache together, and one that looks up what
their answers left there. Room for one entry makes the second quota evict the first.
The passing run fails closed (`FailOpens`), the case in which a transport error denies
the request; the other two fail open, and the theorems cover both.

In `path_matcher`, three patterns are what backtracking needs: one that fits the first
parts only, one to come back to, and a third that must not matter. Eight characters
hold a variable with a wildcard and something behind it. In `control`, three ids in a
cache of two make one of them be evicted before its route is used, and two handlers
are enough for one to be answered while the other reports.

Deadlock is checked except in `report_batch` and `mixer_client`, which end with the
destructor, `quota_prefetch`, where the bounds on the clock and on slots end a
behaviour, and `path_matcher` and `control`, which end when all patterns are added and
all requests are done.

Where the code and its comments disagree, beyond the runs that are violated:

* A slot ring that is exactly full looks empty to `CircularQueue::Iterate`
  (circular_queue.h:88, whose comment promises "each element"), so `QuotaPrefetch`
  rejects a `Check` that the pool could pay for. `IterateUnlessFull` and
  `RejectsOnlyWhenShortOrFull` state the exception and show that it is the only one.
* `CheckCache::Check` walks `referenced_map_` without `cache_mutex_` while
  `CacheResponse` inserts into it (check_cache.cc:104 and 150; check_cache.h:38: "This
  interface is thread safe"). The model lets the walk miss or meet the new entry.
* `PathMatcherBuilder::Register` keeps the first pattern for a template and refuses the
  second; path_matcher.h:105 says "Only the last registered method is stored".
  `LookupIsBestMatch` is stated for the first.
* A pattern `/a:b` registered after `/a/b` is such a duplicate, since a verb is stored as
  a last segment; its verb does not become known (`Valid` in `ApiSpecMatch`).
* TCP `Report` with one argument is a final report and does not move
  `last_report_info`; request_handler.h:39 says "This can be called multiple times for
  long connection". A second call reports the bytes of the first again. `DeltasAddUp`
  is therefore stated up to the first report that follows a final one.

**Fairness** is assumed in `ReportBatch` only: a pending timer fires
(`WF_vars(TimerFires)`), which is what `Environment`'s timer is for, and a thread
that waits for `mutex_` gets it (`WF_vars(Flush)`): the mutex is held for one call
at a time. `EveryReportSent` needs both.

## Proofs

Each theorem holds for every value of its module's constants: any number of threads,
calls, keys, reports, slots and tokens, any dictionary, server and configuration. The
bounds of the runs (`Max...`) are constants like the others.

**How data are reasoned about.** The models use folds over sequences and sets, sums and
removals. A fold of the community modules is a `CHOOSE` of a recursive function;
`DataTheorems` shows by induction that there is exactly one, and from that the laws of
`SumFunctionOnSet`, of `SetToSeq` and of `RemoveFirst`. Induction is by least
counterexample: the library's well-foundedness of `<` and of `\subset` on sets, which take
no operator parameter.

`PrefetchRingProofs` (`CircularQueue`, `CounterWindow`):

* `RingSafe`: `[](TypeOK /\ RingOK)`. `RingOK` says that tail is `count` nodes after head
  and that these nodes hold pushed items; with `TypeOK` it is inductive. Without it
  nothing tells a full ring from an empty one. `RingTypes` is its first half.
* `RingImplementsFifo`: `Spec => FifoSpec`. Each operation changes `Items` as the
  abstract queue does; the case that matters is `Push` on a full ring, where the
  nodes before head move behind the old end.
* `WalkMissesOnlyWhenFull`: `IterateUnlessFull`, from `Span = count` unless the ring is
  full.
* `CountsItsWindow`: `CounterSpec => []WindowBounds`. `WindowBounds` speaks of `count`
  only, which says nothing of the next `Roll`; the invariant `WindowOK` says what each
  slot holds: from the tail on, what was counted in one stretch of `SlotDuration` after
  the other. Rolling n slots empties the n oldest, so the rest are the slots of a window
  n slots later (`RolledSum`, `RolledHolds`). The bounds follow because the last call is
  within one slot of `last`. The constants' sizes do not matter, the order of the calls'
  times does: they must not go back (time_based_counter.h:33).

`QuotaPrefetchProofs`, all from `PrefetchInvariant` (`Shapes`, `IdsInOrder`,
`TokensConserved`):

* `Conservation`: `TokensConserved`. It is inductive only with the ids: an answer takes
  tokens back from the slot that has its id, and that this is one slot, its own, is what
  `IdsInOrder` says (ids grow along the queue and requests share none). `Substract` is
  shown to take exactly what it is asked or all there is, popping a prefix
  (`SubstractKeeps`).
* `SlotIds`: `SlotIdsDistinct`. `OpenPasses`: `OpenNeverRejectsOne`. `CheckIsExact`:
  `TakesExactly`. `Rejections`: `RejectsOnlyWhenShortOrFull`. Each follows from the
  invariant and from what a `Check` step does to the sum of unexpired tokens.

`ReportBatchProofs`:

* `BatchSafe`, `BelowLimit`: `BatchIsTimed`, `BatchBelowLimit`. With `Control` (entries and
  counts are sequences, the timer's flags Boolean, the limit a number) they are inductive:
  the first report of a batch starts the timer and only a flush stops it, which closes the
  batch.
* `StaysOnBase`: `FallsBackToBase`. A batch takes its word count from `top_index_` when it
  is opened, and nothing raises `top_index_`.
* `NothingLost`: `NothingLostInBatch`. The invariant `GoodBatch` says what the next
  `CompressByDict` needs: the delta update's previous map has exactly the indexes used so
  far, each for a word of its own, and its value is what the latest entry with that index
  decodes to; message words are distinct and only appended. So a report is encoded to
  something that decodes to it (`Compressed`), whatever value of `top_index_` each lookup
  sees.
* `BatchImplementsLog`: `Spec => LogSpec`. A step appends to what was received a part of
  what waits, and nothing else (`LogStep`).
* `TypesHold`: `TypeOK`, which includes that no entry uses an index the receiver has no word
  for.

`SimpleLRUCacheProofs`, under `OneOption` (`UpdateOrder = {TRUE}`: everything in this
repository looks up with the default option; what the other one can do is among the
hazards, simple_lru_cache_inl.h:684):

* `CacheInvariant`: `[]LRUInv`. `LRUInv` says where an entry can be and with which fields,
  that both sums of units are exact, that the eviction list is complete, free of
  duplicates and in the order of use, and that `pin` counts the holders. Removing an entry
  keeps all of it and only takes away (`Less`); garbage collection, `DiscardIdle` and
  `RemoveAll` are folds of removals, so they keep it by induction over the fold.
* `PinnedStay`, `UnitsAreExact`, `ListIsSound`, `OverfullByPins`: the properties of the
  run, each from `LRUInv`. `OldestFirst`: `EvictsOldestFirst`; garbage collection stops at
  the first entry it need not take, so what it took is a prefix of the list apart from
  what is pinned.

`CheckCacheProofs`, from one invariant (`Inv`: threads, map, entries, eviction order,
the last hit):

* `WithinLease`: `HitWithinLease`. Of an entry with limited uses, those used and those left
  add up to what the server granted (`LeaseOK`).
* `Reachable`: `EntriesReachable`, if `HashTellsApart`: no two answers of the server have
  the same hash and refer to different attributes. `Referenced::Hash` skips the map key
  where it is empty (referenced.cc), so two answers could share the hashed words even with
  an injective digest, and then the second one's entry is never found.
* `ServersVerdict`: `HitIsServersVerdict`, if `SameKinds` and `AbsenceFollowsExact`: the
  absence keys of an answer, which do not enter the signature, depend on its exact keys,
  which do. TLC finds all three hypotheses true in `check_cache` and the last one false in
  `check_cache_absence`: it is where that run's violation begins.

`MixerClientProofs`:

* `ToldOnce`: `OnDoneOnce` and `DeniedKeepsTokens`: `DeniedTakesNothing`, from one invariant
  over the record of each call (`Good`): the quota cache is used for all quotas of a call
  or for none, so tokens are taken only if no quota has to be asked for; then both results
  are cached and the caller is told before the request leaves. For these two the LRU cache
  and the prefetch objects need no invariant, since `CheckCached` answers at once whatever
  they hold (`CachedResult`).
* `DictionaryStays`: `DictionarySettles`.
* `TypesHold`: `TypeOK`, and `OneOwner`: `ElemsOwnedOnce`, from `QuotaInv`: outside a call of
  `QuotaCache` only null entries are pinned; an object belongs to the pending item of its
  quota or to one entry, whose signature begins with that quota's name. Without the name
  an answer for one quota could overwrite, and share, the object of another.
* `AnswersMatch`: `InflightMatches`, from `WaitInv`: an object waits for as many answers as
  the callbacks of all calls together have for it.

`ControlProofs`, under the specification of `Control`:

* `HttpInvariant`: `[]HttpInv`. Its half about contexts (`ContextInv`) says that every name
  in the map and its service have the same context, whose configuration is the service's,
  and that the cache is the end of `recent`, the history of all ids used (`ById`).
  `HandlerGetsItsConfig` speaks of that history only, so nothing in it would be inductive.
  What carries it are two facts about sequences: to use an id that is kept leaves the same
  ids to keep (`UsedWhileKept`), and an id that is not kept is added as if it had never
  been used (`AddedWhereNotKept`). The half about handlers (`HandlerInv`) says that the
  status of a request is that of its answer and "OK" until then, that it has no quotas
  before its check, and that its attributes are those of its check until its report
  (`Progress`). Every step of the controller is shown to be one of six moves of one handler
  (`HandlerMoves`); the invariants below are kept move by move.
* `OneContext`: `OneContextPerService`, and `HandlersGetTheirConfig`: `HandlerGetsItsConfig`.
* `ObservedAttributesWin`: `ObservedWins`. Each operation of the builder has an equation for
  what `Find` gives after it; from these, what is observed survives every later stage of the
  extraction but the API attributes of the service, and the report as well.
* `VerdictsAreReported`: `VerdictReported`, if `ErrorCodeReserved`: no static, forwarded or
  API attribute is named `check.error_code`. The code does not reserve the name: a proxy
  that forwards it has it in every report. TLC finds the hypothesis true in `control`.
* `QuotasAreDue`: `QuotasMatchSent`. The property counts places in rules, the code appends to
  a list. The proof follows the folds of `AddQuotas` and `GetRequirements` rule by rule and
  numbers the places of the rules gone through in the order of the list (`Listed`): the
  numbering is a bijection, also onto the places of any one quota, so both counts agree
  (`ListedCounts`). That quotas and attributes of a check belong together is the invariant
  `AskedInv`, for a connection `TcpAsked` (`TcpAnswersInvariant`).
* `TcpDeltas`: `DeltasAddUp`. It is inductive with `UpToDate`: until the final report
  `last_report_info` is exactly what the deltas have come to, and it never exceeds the
  connection's counts (`TcpInvariant`).

The assumptions are the named `ASSUME`s of the modules, which TLC evaluates in the runs,
and the hypotheses named above (`OneOption`, `HashTellsApart`, `SameKinds`,
`AbsenceFollowsExact`, `ErrorCodeReserved`), which the theorems state. The `ASSUME`s say that
sizes, times and counts are numbers of the right kind, that calls, quota names and values
are finitely many, that the words of the global dictionary are distinct (it is a map from
words to indexes, global_dictionary.cc) and that reports are finite maps (protobuf maps).

Only model-checked: `EveryReportSent` (liveness under fairness) and the parser and the path
matcher (`ParserImplementsGrammar`, `LookupIsBestMatch`, `VariablesBindTheirSegments` of
`ApiSpecMatch`): both are recursive over their input, and what a recursive definition
computes for every input is beyond the provers.

## Not modelled

* The translation of transport options into client options
  (client_context_base.cc:34-71): what the options do is covered by the limits that the
  runs of the client's parts use.
* The statistics of `MixerClientImpl` and deduplication ids.
* `SimpleLRUCache`'s iterators, getters and debug output; `PathMatcherNode::Clone` and
  `AppendSingleParameterNode`, which nothing calls.
* The life time of handlers and of the client: the callback given to the mixer client
  holds a plain pointer to the request context (client_context_base.cc:77), and the
  proxy has to cancel a check before it destroys its handler.
* MD5 (taken as injective), `std::regex` (a set of strings), protobuf conversions,
  generated word lists, mock classes, build files and logging, which hold no state of
  the system's own.

## Plan

Done: the modules above, and theorems for all invariants and action properties of the runs
but those of the parser and the path matcher. Open: the statistics and the deduplication
ids of `MixerClientImpl`, and a model of the life time of handlers, with cancellation, in
which a callback can meet a request context that is gone.
