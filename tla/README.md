# TLA+ models of the GLC gateway

The GLC gateway (`glc/`) is one asyncio process (FastAPI) between chat clients,
messaging channels and LLM providers. This directory holds TLA+ modules of its
stateful parts, the TLC configurations that check them on small instances, and
proofs by TLAPS of the theorems that hold for every instance. `PROJECT.json`
maps every definition to the lines of code it stands for and lists the runs,
the mutants that show each property can fail, the hazards and the findings.

## 1. The system

| component | state it keeps | operations | interacts with | what is hard |
|---|---|---|---|---|
| Audit store (`glc/audit/store.py`) | SQLite tables `audit_log` (hash-chained rows) and `audit_head` (anchor), a thread lock | `append`, `verify_chain`, `query` | every route appends | two autocommit statements per append; kills and failures between them; `verify_chain` reads without the lock |
| Rate limiter (`glc/security/rate_limits.py`) | in memory, per channel and user: times of accepted calls; limits read once | `check_message`, `check_tool_call` | channel routes | window boundary; limits stale until a restart; forgets on restart |
| Allowlist (`glc/security/allowlists.py`) | none, reads `channels.yaml` on every call | `allowed` | channel routes, adapters | what it is handed may be stale; adapters and gateway ask it twice |
| Channel routes (`glc/routes/channels.py`) | per WebSocket: the owners read at connect; per webhook: the adapter | WebSocket loop, webhook POST | all of the above, the adapters | interleaving at each await; an exception in the middle; a restart; redelivery |
| Pairing store (`glc/security/pairing.py`) | SQLite tables of pairings and pending codes | `issue_code`, `confirm_code`, `revoke`, `force_pair_owner`, reads | control routes, channel routes, command-line tools in other processes | three statements per confirmation, no transaction, two processes |
| Control routes (`glc/routes/control.py`) | none | pair, confirm, presence, kill | pairing store | |
| Policy engine (`glc/policy/engine.py`, `glc/main.py`) | the rules in force, two locks | `evaluate`, lazy `get_engine`, `reload_engine` on SIGHUP | `policy.yaml`, a library for tool calls | a signal handler that takes locks; a file read while it is written |
| Chat routing (`glc/routing.py`, `glc/routes/chat.py`) | per provider: calls and tokens of the minute and the day, cooldown, backoff | `pick`, `record`, `mark_unavailable`, the failover loop of `chat` | providers, ledger | concurrent requests between awaits; retries; pins that wait; streams; a ledger that cannot be written |
| Tier classifier (`_classify_tier` of `chat.py`, `RouterPool`) | a second ring of small models | classify | chat routing, ledger | overlapping requests check and record between awaits |
| Ledger (`glc/db.py`) | SQLite rows of calls | `log_call`, aggregations | chat, embed, voice | a row for every attempt |
| Provider clients (`glc/providers.py`) | none | `chat`, `stream` | vendors | one recorded attempt is several requests; conversations with tools change vendor |
| Embedding ring (`glc/embedders.py`) | per embedder: calls, cooldown, backoff step | `embed_with_failover` | broker | results of overlapping calls in any order; calls recorded after the await |
| Key broker (`glc/security/broker.py`, `capabilities.py`) | one sandbox per provider, tokens | `call`, `enabled` | Modal, providers | lazily created from several threads; 30 s tokens; errors cross a process |
| Gemini cache (`glc/cache.py`) | name and expiry per prompt | `get_or_create` | provider client | the lock is left between look-up and store |
| SSRF guard (`glc/security/ssrf.py`) and image fetch | none | `resolve_validated` | DNS | records change between a check and a connection |
| Voice routers (`glc/voice/`) | none beyond a request | transcribe, speak | vendors, broker | errors and their classes |
| Channel adapters (`glc/channels/catalogue/`) | offsets, seen UIDs, reply tokens, caches, attachments, stream buffers | `on_message`, `send`, poll loops | vendors, channel routes | at-most-once or at-least-once delivery, crashes, handlers that overlap |
| Deployment (`modal_app.py`) | a volume committed every 30 s | start, commit, stop | all stores | an eviction loses what is not committed |

What makes each correct, where it is not obvious:

- audit: an anchored row is never lost, chained twice or moved; an "intact"
  verdict is right whatever happens between its two reads;
- limiter: never more than the limit in any window, and never a refusal the
  window does not justify;
- channels: every judged envelope leaves a row, no reply without a row, the
  judgement uses current data where the code can have it; no message is lost
  to a redelivery, no mail or update is taken twice within a run;
- pairing: nobody is paired but by the installer or a fresh code for him;
- policy: a verdict is that of one rule list in force during the call; a reload
  takes effect; nobody waits for ever;
- routing: rpm, rpd and cooldown hold over all concurrent requests, no provider
  is tried twice for a request, 503 is the truth, and every request ends;
- broker and caches: a call has its provider's key and a live token, a cached
  name lives on at the vendor;
- errors: what the client is told, what is logged and who backs off follow from
  what the vendor said, wherever the call was made.

## 2. Modules

    AppendOnlyLog   <-- implemented by --  AuditLog   (refinement, checked and proved)
          ^
          | INSTANCE (Audit)
    ChannelGateway  -- INSTANCE (Limiter) --> RateLimiter
                       (Limiter!Spec is a property: checked and proved)
    PairingStore    PolicyEngine    ProviderRouting

    MCProviderSide     EXTENDS  EmbedRing  TierRing  KeyBroker  PromptCache  VolumeCommit
                                ProviderCall  ToolDialogue  ImageFetch  KeyedCalls
    MCChannelDelivery  EXTENDS  MailPoll  ImapSession  ArtifactShelf  TelegramBridge
                                WhatsAppRoutes  VoiceStreams  WebhookDelivery
                                AdapterGates  AdapterSends  SendTokens
    Clock              is what those that read the time have in common

    AtMostOnce      <-- implemented by --  MailPoll, ImapSession
    AtLeastOnce     <-- implemented by --  TelegramBridge, WebhookDelivery
                        (refinements, checked and proved)

### The gateway's core

| module | models | variables | actions |
|---|---|---|---|
| `AppendOnlyLog` | what the audit store promises | `log` | `Record` |
| `AuditLog` | `glc/audit/store.py` | `rows`, `head` the tables; `lock`, `pc`, `pending` the threads in `append`; `verifier` | `Chain`, `InsertRow`, `UpsertHead`, `Return` are the steps of `append` between which a kill (`Crash`), an exception (`StatementFails`), `verify_chain` (`VerifyReadHead`, `VerifyReadRows`) or an outside change (`EditRow`, `DeleteRow`) may fall |
| `RateLimiter` | `glc/security/rate_limits.py` | `limits`, `window` | `Accept`, `Refuse` are the two outcomes of `_check`, `Load` the first `get_rate_limiter`, `Restart` |
| `ChannelGateway` | `glc/routes/channels.py`, `allowlists.py`, the readers of the pairing store and of `channels.yaml` | the limiter's, `log`, `yaml`, `owners`, `conns`, `hooks` | one action per stretch between two awaits: `Connect`, `Receive`, `Send`, `Disconnect`; `Request`, `NoMessage`, `Process`, `Answer`; and `ChangeOwner`, `EditYaml`, `Restart` |
| `PairingStore` | `glc/security/pairing.py` between two processes | `pairings`, `pending` the tables; `confirms` the calls of `confirm_code` | `IssueCode`, `FindCode`, `Grant`, `DeleteCode`, `Cut`, `Revoke`, `ForcePairOwner` |
| `PolicyEngine` | `glc/policy/engine.py`, the handler of `glc/main.py` | `file`, `engine`, the two locks, `frames` the call stack of each thread, `hup` | one action per lock entered or left: `LockEngine`, `BuildEngine`, `LockRules`, `Snapshot`, `Decide`, `ReadFile`, `Install`; `HandleSignal` pushes a reload on the main thread's stack |
| `ProviderRouting` | `glc/routing.py` and `chat()` | `rate`, `req` the locals of each request, `ledger` | `Begin`, `Wake`, `Answer`, `Fail`, `Pause`, `Retry`, `Mismatch`, `MismatchAgain`, `StreamEnds`, `StreamDropped`; a `log_call()` that raises after an answer makes the handler ask the next candidate, with no backoff of the one that answered (`AnswerUnnoted`), or ends the request if the handler's own row fails too |

### Between the chat worker and the vendors

| module | models | variables | actions and what they stand for |
|---|---|---|---|
| `EmbedRing` | `EmbedRateState`, `embed_with_failover` (`embedders.py`) | `embedder`, `embed` | `EmbedBegin`, `EmbedAnswers`, `EmbedFails`: from a place in the ring to the next call |
| `TierRing` | `_classify_tier` and `RouterPool` | `router_calls`, `classify`, `tier_rows` | `ClassifyBegins`, `RouterSays`, `RouterFails`, `ClassifyDies`, `Routed` |
| `KeyBroker` | `HybridBroker`, `SandboxBroker` (`broker.py`), `broker_entrypoint.py`, `capabilities.py` | `sandboxes`, `box`, `task` | a step per access to the table of sandboxes or call to Modal; `MintToken`, `AskEnabled`, `BoxEnds` |
| `PromptCache` | `GeminiCache.get_or_create` (`cache.py`) | `cached`, `lookup`, `content` | `CacheHit`, `CacheMiss`, `VendorMints`, `MintFails`, `StoreName`, `HitUsed` |
| `VolumeCommit` | the commit loop and the lifespan of `modal_app.py` | `serving`, `wrote`, `committed`, `wake` | `Serve`, `StoreWrites`, `LoopCommits` (which may fail), `GracefulStop`, `Evict` |
| `ProviderCall` | the clients of `providers.py`, one recorded attempt of `chat()` | `ask`, `vendor`, `stage`, `turn`, `body` | `VendorBegin`, `CacheAnswers`, `Refuses` (a rung down the ladder of formats), `TimesOut`, `RetryCalls`, `Accepts` |
| `ToolDialogue` | `_translate_messages` of each family of clients | `client`, `dialogue`, `request` | `UserSays`, `VendorAnswers`, `ClientReplies`, `Sends` |
| `ImageFetch` | `_resolve_image_urls` (`chat.py`), `resolve_validated` (`ssrf.py`) | `dns`, `images` | `Resolve`, `Connect`, `Redirects`, `ImageArrives`, `FetchFails`, `DnsChanges` |
| `KeyedCalls` | the ends of chat, embed, speak and transcribe through each broker | `deployed`, `keyed` | `KeyedBegins`, `ProviderEnds`, `BrokerFails`, `RouteTells`, `KeyedReturns` |

### Between the vendors' channels and the gateway

| module | models | variables | actions and what they stand for |
|---|---|---|---|
| `AtMostOnce` | what the two readers of mail promise | `asked`, `handed`, `let_go` | `Ask`, `Hand`, `LetGo` |
| `AtLeastOnce` | what a channel promises whose vendor delivers again | `settled`, `forgotten` | `Settle`, `Forget` |
| `MailPoll` | the poll loop of `gmail/server.py` with its adapter | `mailbox`, `last_history_id`, `processed_ids`, `batch` | `MailPollBegins`, `TakeMail` with each of its ends, `MailPollEnds`, `MailRestarts` |
| `ImapSession` | `imap/connection.py`, `uid_tracker.py`, the adapter | `unseen`, `session`, `tracked` | `Connects`, `Searches`, `Fetches`, `Processes`, `HandsOver`, `MarksSeen`, `LoopEnds` |
| `ArtifactShelf` | the attachment stores of gmail, twilio_sms and imap | `shelf`, `created`, `storing` | `StoreBytes`, `StoreMeta`, `StoreDies`, `ImapStores`, `RemoveArtifact`, `CleanupExpired` |
| `TelegramBridge` | `telegram/dev/live_poll.py` with the adapter | `confirmed`, `offset`, the updates under way | `GetUpdates`, `TakeUpdate`, `UpdateRaises`, `SocketCloses`, `BridgeRestarts` |
| `WhatsAppRoutes` | the provider cache of `whatsapp/adapter.py` | `provider_cache`, `wa_send` | `WaInbound`, `WaSendBegins`, `WaTrialWorks`, `WaNotInMetasList`, `WaSendEnds`, `WaRestarts` |
| `VoiceStreams` | the media streams of `twilio_voice/adapter.py` | `stream_callers`, `stream_buffers`, `hearing` | `StreamStarts`, `MediaArrives`, `StreamStops`, `StreamBreaks`, `TranscriptReady` |
| `WebhookDelivery` | the gateway's webhook route, `twilio_sms/webhook.py`, `line/dev/live_bridge.py` against a vendor that delivers again | tasks, `acked`, `answers`, `rows`, `attempts` | `Deliver`, `HandleBegins`, `Acknowledge`, `AgentAnswers`, `SendEnds`, `Finish`, `ReceiversDie` |
| `AdapterGates` | the public-channel gate of every adapter, then the gateway's `allowed` | `trust`, `gate_yaml`, `passage` | `Comes`, `AdapterGate`, `GatewayGate`, `Answered`, `GateChanges` |
| `AdapterSends` | `send` of every adapter under the webhook route | `outgoing`, `vendor_has` | `SendBegins`, `Speaks`, `TokenFetched`, `TypingShown`, `CallAnswered`, `CallBreaks`, `RouteAnswers` |
| `SendTokens` | LINE's reply tokens, the access token of Teams | `line_events`, `line_sends`, `teams` | `LineInbound`, `LineSend`, `TeamsBegins`, `TokenArrives`, `TeamsPosts`, `TeamsFails` |

`MCProviderSide` and `MCChannelDelivery` compose these for TLC. The parts do not
share state, so a behaviour picks one `part` at its start and the others rest;
the product would only repeat each part's states. Where parts do meet in the
code, the module says what it takes from the other: `ProviderCall` is what
`ProviderRouting` sees as one call, `AdapterGates` has the gateway's own gate
behind the adapter's, `WebhookDelivery` the route around the adapters.

Variables whose comment says "history" are not in the code; they remember what
the properties speak about and no action reads them to decide anything (the
bounds on counted events excepted).

Abstractions that matter:

- SHA-256 is collision free: the hash of a row is the sequence of the contents
  hashed into it (`RowHash`).
- A limiter check holds its lock throughout and is one step; `time.time()` does
  not step back.
- asyncio: what lies between two awaits is one step. `append` is called from
  the loop, so in `ChannelGateway` it is one step too; `AuditLog` is where its
  inside is taken apart, with several threads.
- A policy condition is the set of parameters that meet it. Globs and regular
  expressions are not interpreted.
- The two reads of the clock in `confirm_code` (expiry, `paired_at`) are one.
- A provider answers, fails in one of several ways, or is called again; what it
  says is left out, what it costs is a small number. What a failure looks like
  on its way to the client is `KeyedCalls`' subject.
- A mail, an update, an attachment, a chunk of audio or an image is a number or
  a model value. An address is public, blocked or none; `is_blocked` itself is
  not computed.
- Vendors are modelled from how the code uses them: a page of `history.list`,
  updates confirmed by the next offset, FETCH that sets `\Seen`, a webhook
  repeated without a 200, content that expires after its ttl.
- Mutants (operators whose comment says so) are wrong variants of a definition;
  no specification uses them.

## 3. Runs

| run | module, config | shows | bounds |
|---|---|---|---|
| `audit_store` | `MCAuditLog`, `AuditLog.cfg` | `StoreSound`, `VerdictSound`, refinement `RecordedSpec` | 2 threads, 2 contents, 3 rows, 1 torn append, 2 outside changes |
| `audit_torn` | `MCAuditLog`, `AuditLogTorn.cfg` | **violated**: a false alarm of `verify_chain` after a torn append | same |
| `rate_limiter` | `MCRateLimiter`, `RateLimiter.cfg` | `WindowRespected`, `RefusesExactlyWhenFull` | see the module; the window is long enough for calls to leave it while others stay |
| `channel_gateway` | `MCChannelGateway`, `ChannelGateway.cfg` | `EveryMessageAudited`, `AuditExplains`, `JudgedOnFreshOwners`, refinement `LimiterSpec` | 1 connection and 1 webhook (they interleave with each other), 2 channels of which one is spoofed, 3 envelopes, 1 failed audit write, 1 change of owners or file |
| `ws_owner_snapshot` | `MCChannelGateway`, `ChannelGatewayOwners.cfg` | **violated**: an envelope judged on owners that are no more | same |
| `policy_engine` | `MCPolicyEngine`, `PolicyEngine.cfg` | `VerdictsHold`, `ReloadTakesEffect`, liveness `EndsUnlessMainStuck` | main and 1 worker, 2 rule lists (a deny after an allow; an approval before an allow), 1 rewrite, 2 signals (nested handlers), 2 calls |
| `sighup` | `MCPolicyEngine`, `PolicyEngineSignal.cfg` | **violated**: a signal is not handled, the main thread waits for itself | 1 signal, 1 call |
| `chat_routing` | `MCProviderRouting`, `ProviderRouting.cfg` | `LimitsKept`, `AttemptsAccounted`, `UnavailableOnlyWhenSo`, `BackoffCutOnlyByOverlap`, liveness `EveryRequestAnswered` | 2 requests of 5 kinds, 2 providers, 1 ledger row that cannot be written; a "minute" of 2 and a "day" of 4 ticks, requests from tick 3 to 4 and a clock up to 6, so that both windows roll over (172 295 states) |
| `agent_pin` | `MCProviderRouting`, `ProviderRoutingPin.cfg` | **violated**: a pinned request gets 503 with another provider usable | same |
| `pairing` | `MCPairingStore`, `PairingStore.cfg` | `PairedByIntent`, `CodesAreSpent`, `OnlySpentCodesGo` | 2 processes, 2 senders, 2 codes (drawn twice), Ttl of 1 tick, 1 cut, 1 revocation or forced pairing; symmetric in processes, senders and codes |
| `provider_side` | `MCProviderSide`, `ProviderSide.cfg` | one property for each part, two for the embedding ring: see below | per part: 2 embedders, 2 routers, 2 concurrent requests and 4 calls; 2 providers, 1 shared kind, 3 sandboxes, 2 threads, 3 calls; 2 prompts, 2 contents; 4 writes; every request and every vendor of `MCVendorAsks` and `MCVendors`; dialogues of 5 messages; 2 images of 1 redirect over 2 hosts and 1 change of DNS; every kind of keyed call under every broker (672 286 states) |
| `channel_delivery` | `MCChannelDelivery`, `ChannelDelivery.cfg` | one property for each part; four of them with a refinement | per part: 4 mails or updates in pages of 2, 2 runs; 3 WhatsApp users over a cache of 2; 2 streams of 3 chunks, buffers below 2; 2 webhooks delivered twice, batches of 2; 2 changes between gates; every channel with every answer of its vendor; 3 LINE events, 2 Teams replies (816 974 states) |

Some properties are conjunctions, so that one run of a mutant covers an
invariant and what it rests on:

- `StoreSound` is the types, `RowsAccounted` (surplus rows are torn appends or
  under way), `AnchoredSurvive` and `IntactWhenQuiescent`;
- `AuditExplains` is the types, `RepliesAudited` (no reply without its row) and
  `InboundWithinLimit` (the audit log itself shows the rate limit);
- `VerdictsHold` is the types, `VerdictOfOneList` and `DeniedByEveryVersion`;
- `LimitsKept` is `RpmRespected`, `RpdRespected` and `CooldownRespected`;
  `AttemptsAccounted` the types, `TriedOnce` and `LedgerAccounts`;
- `PairedByIntent` is the types and `PairingBacked`;
- `BrokerSound` is the types, `OneBoxUnlessRaced` and `ExecutedInTime`;
  `CacheSound` the types, `HitStillThere` and `MintedTwiceOnlyWhenRaced`;
  `VendorCallSound` is `SystemTextOnce`, `PostsBounded` and `FormFound`;
- `MailPromiseKept` is the types and `MailOnceOrLost` in every state, and the
  refinement `MailImplementsAtMostOnce`; likewise `ImapPromiseKept`
  (`MailHandedOnce`, `ImapImplementsAtMostOnce`), `TelegramPromiseKept`
  (`UpdatesInOrder`, `TelegramImplementsAtLeastOnce`) and `WebhookPromiseKept`
  (`AckedIsSettled`, `WebhookImplementsAtLeastOnce`).

What the two large runs show, by part:

| property | says |
|---|---|
| `EmbedCallsWhenDue` | a call starts only after the backoff of all failures in a row, in whatever order overlapping answers came |
| `EmbedOverrunBounded` | since a call is recorded after its await, rpm is overrun, but by less than the number of concurrent requests |
| `TierHonest` | a tier is that of the request's own count or of the last router it asked; HUGE exactly for huge prompts; rpm holds; each call has its row |
| `BrokerSound` | two sandboxes of a provider only after a race or a failed poll; each call with its provider's key and a token in time |
| `CacheSound` | a hit's content lives on at the vendor; a prompt is paid for twice only after a race or a lost answer |
| `LossBounded` | an eviction takes the writes of 30 s, or those since a commit that failed |
| `VendorCallSound` | the system text is in every request once; the requests of one recorded attempt are bounded; the ladder finds the strongest form the vendor accepts |
| `ResultsFindTheirCalls` | after any changes of vendor, each result is tied to its call as far as that family can tell |
| `FetchOnlyValidated` | every connection goes to an address of the validation it followed |
| `FailureTold` | status, ledger row and backoff follow from what the provider said, but for the named losses of the sandbox broker |
| `MailPromiseKept` | no mail answered twice; a mail left behind was answered or is lost in a named way, and once lost it is never answered |
| `ImapPromiseKept` | an IMAP mail is handed over at most once for each time it is unseen, and none vanishes unnoticed |
| `ArtifactKept` | an attachment is readable for its whole time; times do not outlive contents |
| `TelegramPromiseKept` | updates in order and once within a run; a restart repeats a page at most; none skipped; Telegram forgets only what was settled |
| `RouteIsLatest` | a WhatsApp reply goes by the sender's latest vendor, but for a trial that overlapped |
| `VoiceAttributed` | each chunk of a call is heard once, under the caller of its stream |
| `WebhookPromiseKept` | a delivery with its 200 is settled; batches from the front; no more answers than deliveries; nothing is unsettled again |
| `MentionRuleKept` | a public message without a mention is answered only where the adapter looks for none |
| `SendTells` | a vendor's limit reaches the caller as such, and "done" is said of accepted replies, with named exceptions |
| `TokensGood` | a reply token is used once, in time, for its sender; Teams never posts with an expired token |

The refinements in the four `...PromiseKept` say more than the invariants beside
them: what a step may do with a mail or an update, at any time later. In
`MailPoll` a mail asks when it comes and is handed on with its answer, so that a
mail once lost is never answered, by a later process either; in `ImapSession` a
mail asks each time it comes to be unseen. `AtMostOnce` lets any number of mails
go in one step, since one exception loses the rest of a fetched list, and lets
mails ask at will. `AtLeastOnce` wants all that Telegram's offset, or a
webhook's 200, makes the vendor forget to be settled before. A redelivery
settles again what is settled, which is a stutter of `AtLeastOnce`.

Constants that stand for durations keep the order the code gives them (a nap is
shorter than a wait, the cooldown no longer than the minute, the cache's margin
shorter than its ttl), not their values. The bounds on events are the smallest
that let each hazard occur together with whatever must race it: the mutants, one
per property, are all caught within them.

`CHECK_DEADLOCK FALSE` is set where the model may come to rest: when the bounds
on calls and signals are used up, in the self-deadlock of the main thread, when
every request is answered, when clock and codes are used up, or when the part
that a behaviour is about has nothing left to do.

### Fairness

- `PolicyEngine`: weak fairness of every thread's steps and of `HandleSignal`.
  The operating system runs threads that can run, `threading.Lock` is given to
  a waiter when it is free (weak fairness suffices because the number of calls
  is bounded), and Python runs a pending handler on the main thread.
- `ProviderRouting`: weak fairness of the clock and of every request's steps.
  `asyncio.sleep` returns, and a provider's call ends because the HTTP clients
  of `glc/providers.py` have timeouts.
- All others: safety only. Mailboxes, vendors, users and evictions owe the
  gateway no step, and nothing in those parts waits for another of them.

## 4. What is proved

`tlapm` checks these for all values of the constants, under the named
assumptions (`ASSUME`) of the modules, which say that the markers for "nothing"
are no proper values and that bounds are numbers.

- `AuditLogProofs`. The inductive invariant says who may be inside the lock,
  that a thread inside read the current head, that the rows hold the anchored
  rows in order, and that the head is the hash and number of the anchored rows.
  It is needed because `VerdictSound` speaks about two moments: what
  the verifier holds must be a prefix of `anchored` in the meantime.
  `TypeCorrect`, `RowsAreKept` (all of `StoreSound`), `VerdictIsSound`,
  `ImplementsAppendOnlyLog`.
- `RateLimiterProofs`. What the window remembers is what was accepted without a
  prefix, and every time in that prefix is too old to matter at any later time
  (`Drops`). `LimiterInvariant`, `WindowIsRespected`, `RefusalIsExact`.
- `ChannelGatewayProofs`. `GatewayImplementsLimiter`: each step of the gateway
  is one call of the limiter or leaves it alone, so the theorems of
  `RateLimiterProofs` carry over. `EveryEnvelopeIsAudited`. `AuditLogExplains`,
  for `AuditExplains`: the replies of a sender that left and those a connection
  or a request still owes are together at most its rows (`Counted`); the rows of
  a sender since the boot are among the calls its limiter accepted, in their
  order and at their times (`Embedded`), so what `RateLimiterProofs` proves of
  those calls holds of the rows. `OwnersAreFresh`, for `JudgedOnFreshOwners`: a
  connection whose channel's owners have not changed since it was opened has
  them (`FreshOwners`). Both assume finitely many connections and requests.
- `TrustProofs`, of two components that do not read each other's state.
  `PairingStore`: a pairing is written from what a process has in hand,
  and that was read from the pending table; the invariant says of both that
  they were issued, and of the first that it was fresh. `NobodyPairedByAccident`.
  What a process is about to delete was granted or has expired (`HandsKnown`):
  `CodesGoWhenSpent`. For `CodesPairOnce` the invariant counts (`OnceEach`):
  while an issue of a code is pending, its grants are at most the processes that
  have granted it and not yet deleted it, plus the cuts; its grants and the
  processes about to grant it are at most the processes plus the cuts. It
  assumes that there are finitely many processes. `PolicyEngine`:
  `VerdictIsMeaning` says of the loop of `evaluate()` that it decides as the guide
  says, for every list and call; the induction on its turns is a least turn that
  would be wrong. `VerdictsAreSound` and `ReloadsTakeEffect` rest on an invariant
  about each call on each stack, wherever it was interrupted (`PolicyInv`): an
  `evaluate()` has seen the rules in force and decides on rules it has seen; unless
  a SIGHUP is pending or handlers were nested, a reload has yet to read the file or
  has what it says (`HoldsRules`), and such a reload is there or the rules are the
  file's (`EngineSound`). A signal never lands in a worker (`Main \notin Workers`).
- `ProviderRoutingProofs`. `LimitsAreKept`, for all of `LimitsKept`. For each
  provider (`Booked`): its deque of calls is what was attempted without a prefix
  that has left the minute, the day's counter covers the attempts of the day,
  and `last_call` is the last attempt. An attempt is recorded in the step that
  found room for it, so the attempt rpm (or rpd) places earlier is among those
  that are too old. Every other step of the failover loop changes at most the
  backoff and the tokens. `BackoffsHold`, for `BackoffCutOnlyByOverlap`: an attempt
  under way began when its provider was not backed off, or has seen another
  request mark it since (`BeganFree`); so a failure that ends a backoff earlier
  is of an attempt older than that backoff. `AttemptsAreAccounted` and
  `UnavailableMeansSo` are about the failover loop (`LoopInv`): no candidate left
  was tried, but for the provider the request is at; whoever was in the order is
  left or was tried; there are at least as many turns as candidates left
  (`Ready`, `Trying`). An attempt is open while its request is at the provider,
  and stays so if it ends without a row; attempts are rows and open ones
  (`RowsAccount`). A step either leaves that alone, or writes the row of what it
  closes and records what it opens (`Moves`). They assume finitely many requests.
- `ProviderSideProofs`, part by part; no part reads another's state.
  `CacheIsSound`: the cache alone does not say when a content was paid for; the
  invariant says of each content who knows it (`Followed`: a call that will
  store it, or the cache, which still has it or a later one), and of what the
  cache believes that the vendor outlives it (`Outlived`). `BrokerIsSound`: a
  sandbox that runs is in the table, in the hands of the one thread that made
  it, or raced (`KnownBoxes`); threads that create, store and poll for the same
  provider at once are marked as not alone (`Creating`, `Storing`, `Polling`,
  `Alone`); a thread's sandbox has the key of its scope (`Tasks`).
  `VendorCallsAreSound`: the requests so far are those of the rungs so far
  (`PostsSound`), and a rung tells what the body still holds and what earlier
  responses have used up (`OpenAIRung`, `GeminiRung`), so that a refusal at the
  last rung leaves no form to offer. `FailuresAreTold`: what came back is the
  provider's error as its side raised it, or the broker's own (`CameBack`); the
  rest is the case by case argument of each route. `ImagesAreFetchedSafely`:
  the address of the hop under way was checked when it was resolved
  (`TargetChecked`), and earlier connections are of earlier hops
  (`HopsInOrder`). `LossIsBounded`: a write not committed is younger than the
  last commit, or not younger than one that failed (`Pending`).
  `EmbedsCallWhenDue` and `EmbedOverrunIsBounded`: an embedder's window differs
  from its successes only in times too old to count (`SameWindow`), its backoff
  is that of the failures in a row (`BackoffIsDue`), and no request is counted
  twice, since it is either under way or done (`OverrunAt`). `TiersAreHonest`:
  the window of a router likewise (`TierWindow`), the routers left to a request
  are none of those asked (`AskedSound`), and rows, deaths and calls under way
  add up to the calls (`TierRowsCounted`). Both assume finitely many requests, and of the
  configuration that the order names each member once: the default orders do,
  and the code does not check what `EMBED_ORDER` and `ROUTER_ORDER` say.
  `ResultsAlwaysFindTheirCalls`: a result belongs to the turn from which only
  results separate it, and has the id of one of its calls (`AnswersTurn`); a
  translation drops at most the first message (`TranslationShifts`, by the least
  place where the loop would have gone wrong), so that a turn and its results are
  one for the vendor as well.
- `ChannelDeliveryProofs`, likewise. `ShelfKeeps` (a time is that of the content
  beside it or of an earlier write, `TimesHaveContents`; what is gone was removed
  or is too old, `GoneByAge`). `MailsAreAnsweredOnce` (the batch is a stretch of
  the mailbox that begins where the settled messages end, `BatchSound`,
  `SettledInOrder`; what was answered is noted or lies before the history the
  process knows, `AnswersNoted`). `ImapHandsOnce` (the list under way has each
  mail once and none still to be fetched, `ListSound`; the theorem counts).
  `TelegramKeepsOrder` (a page follows on what was taken, `PageFollows`;
  everything before was relayed or passed over, `AllTaken`, in this run only
  once, `RelayedBefore`). `VoiceGoesUnderItsName` (what was said is partitioned
  between buffer, speech-to-text and messages, `Partitioned`; a caller is
  registered until the last flush, `CallerFollows`). `AckedIsSettledAlways`
  (answers and rows have an attempt each, counting the requests that may still
  make one, `Counted`; a batch is settled from its front, `FromTheFront`).
  `TokensStayGood` (a reply token is that of the last event until it is used,
  `TokenKept`; a reply of Teams is younger than a call's timeout, which its token
  outlasts, `ReplyInTime`). `MentionRuleIsKept` (`MentionKept`). `SendsAreTold`
  (`Honest`). `RoutesAreLatest` (behind a sender's entry are only those remembered
  since his latest message, unless those fill the cache, `BehindSince`; the entry
  is of that message unless a trial overlapped it, `EntryIsLatest`, and trials are
  of senders of whom nothing is claimed, `TrialsExcused`).
  Four refinements go with these. `MailIsAtMostOnce` needs that a lost mail was
  noted, or lies before the history the process knows (`LostNoted`), whence no
  later step answers it; every other step lets mails come or be lost, and
  answers none. In `ImapIsAtMostOnce` the counts of the abstract specification
  are histories of the model, and `ImapInv` says that what is about to be handed
  over or dropped has been asked for. `TelegramIsAtLeastOnce`: the offset a poll
  sends is behind what was taken (`AllTaken`). `WebhookIsAtLeastOnce`: a 200 is
  under way only for a batch settled to its end (`FromTheFront`), and no crash
  or exception unsettles an event. With the invariants they are `PollKeepsPromise`,
  `ImapKeepsPromise`, `TelegramKeepsPromise` and `WebhooksKeepPromise`.
- `NatLemmas` has induction over the naturals in the form of least and greatest
  elements, which all of these share.

Only model-checked: the liveness properties, since liveness under fairness is
out of the prover's reach. So is what the library's folds compute for every
input; the loops of the code that the proofs reach (`Scan` of `PolicyEngine`,
`Filtered` of `ProviderRouting`, `Translation` of `ToolDialogue`) are recursive
functions on an interval of the naturals instead, and what they return is proved
by the least place where they would not.

## 5. Findings

1. `audit_torn`: `verify_chain` calls a surplus row "(rows deleted)"
   (`store.py:161`); a kill between the INSERT and the anchor's upsert is
   enough, and the alarm never goes away.
2. `ws_owner_snapshot`: owners are those "currently in the pairings table"
   (`allowlists.py:5`), but a WebSocket connection uses those of its connect
   (`channels.py:57`).
3. `sighup`: "Hot-reload by sending SIGHUP" (`docs/POLICY_GUIDE.md:13`) can
   leave the main thread waiting for a lock it holds (`engine.py:109`, `:153`).
4. `agent_pin`: "The pin is a preference, not a hard binding"
   (`agent_routing.yaml:13`), but `chat()` makes it the only candidate.

Places where a comment and the code differ that have no run of their own; the
models follow the code, and the properties name the exception:

- `allowlists.allowed`: "owners always pass", yet the mention rule refuses them;
  Gmail's `_check_allowlist` counts a paired sender as one who mentions
  (`MentionRuleKept`).
- `providers.py:19` promises each vendor its native shape; for Gemini a result
  without a tool name is one of a tool called "tool", an inline system message
  is dropped for Gemini and for Ollama without tools, and Ollama ties results to
  calls by order alone (`ResultsFindTheirCalls`).
- An answer is thrown away and the next provider asked when
  only the ledger row cannot be written (`AttemptsAccounted`).
- Through the sandbox broker a provider's error becomes a `RuntimeError`: its
  status is lost, and with it retry and backoff; a sandbox call also starts with
  an empty `GeminiCache`. httpx timeouts may have an empty text, which `chat()`
  does not recognise. A pinned embedding that fails outside `EmbedderError` is a
  500 without a ledger row (`FailureTold`).
- The IMAP tracker "prevents reprocessing on reconnect", but nobody calls
  `is_seen`; what prevents it is that FETCH of RFC822 sets `\Seen`. `search()`
  gives sequence numbers, not UIDs. Its artifact clean-up is never called
  (`MailHandedOnce`, `ArtifactKept`).
- Gmail's poll reads the first page of `history.list` only, and advances past
  the rest (`MailOnceOrLost`); attachments expire from the first time their
  content was stored (`ArtifactKept`).
- The Telegram loop goes on taking updates after its WebSocket has closed
  (`UpdatesInOrder`, as updates passed over).
- `twilio_sms/webhook.py` awaits the whole handling before its 200; the LINE
  bridge's acknowledgement uses the reply token, so that the answer is a push
  (`AckedIsSettled`, `TokensGood`).
- "Rate-limit responses propagate to the caller as a 429" is not so for the JSON
  answers of webhook and WhatsApp and for Gmail; the gateway's route ignores
  what `send` returns; the web UI without a socket reports an acknowledgement
  (`SendTells`).

## 6. Not modelled, and what could come next

Not modelled, with the reason:

- Formatting and parsing: field-by-field payloads of providers and channels,
  MIME, TwiML, audio conversion, signatures, OAuth. They keep no state and do
  not interleave; what the state needs of them is a field of a record.
- Reads: `query`, `lookup`, the ledger's aggregations, dashboards, health.
- `batch()` and `vision()`, which only call `chat()`; token estimates and the
  tpm limit, prices.
- A clock that steps back; a second gateway process (the deployment allows one
  container); files (`channels.yaml`, `policy.yaml`) that do not parse.
- Scripts, daemon templates, demonstrations and the test harnesses.

What could come next: `AdapterGates` joined with `ChannelGateway`, so that an
adapter's trust level and the owners of the gateway change in one model.
