# A verification of Earthropy

Earthropy is a platform for local groups that work on the UN's development goals. It is a
TypeScript monorepo: a Next.js application (`apps/app`: pages and server actions), a worker
process (`apps/api/src/workers`), a PostgreSQL database reached through Drizzle, and Redis for
BullMQ queues and rate limits. This directory holds TLA+ models of its core logic, the TLC runs
that check them, and proofs checked by TLAPS.

The promise of the platform is *pre-publication moderation*: nothing is public before the
classifier or a moderator has ruled on it. That promise is kept, or not, by a handful of server
actions and a worker that share database rows, use transactions sparsely and never lock a row
across two statements, and that BullMQ retries and redelivers. The project therefore starts there.

## The system and its parts

| part | where | state it keeps | operations |
| --- | --- | --- | --- |
| moderation policy | `packages/moderation/src/provider.ts` | none | `decide`, `verdictToStatus` |
| content status machine | `packages/{posts,comments}/src/update*Status.ts` | `posts.status`, `comments.status` | check against the table of legal transitions, then UPDATE by id |
| create, withdraw | `packages/{posts,comments}/src/{create,withdraw}*.ts` | the content row | insert, publish at once when the gate is off, enqueue (not awaited); withdraw |
| moderation queue | `packages/queue/src/moderation.ts`, BullMQ | jobs, attempts, stalls | add, deliver, retry, redeliver, fail |
| moderation worker | `apps/api/src/workers/moderation.ts` | an attempt's local variables | classify, log the verdict, set the status, reward, notify; the `failed` handler |
| review queue | `(authenticated)/moderation/{page.tsx,_actions.ts}` | a rendered page | publish, reject |
| appeals | `(authenticated)/moderation/_appeal-actions.ts` | `appeals` rows | submit, resolve |
| reputation ledger | `packages/trust/src/recordEvent.ts` | events, cached sum | `recordEvent` (one transaction) |
| notifications | `packages/notifications/src`, stream route, bell | rows, emitter, open streams | `notify`, subscribe, mark as read |
| groups | `packages/groups/src`, `g/_actions.ts`, `members/_actions.ts` | members and roles, invitations | create, join, leave, invite, claim, set role, transfer, remove |
| authentication | `packages/auth/src`, `(public)/_actions/auth.ts`, `account/_actions` | account, sessions, tokens, password hash | sign up, sign in, magic link, verify, reset, revoke, disable |
| rate limits | `packages/ratelimit/src` | Redis counters | `limit`, `rateLimitAction` |
| translation cache | `packages/translation/src`, `_translate-toggle.tsx` | cached translations, a toggle's state | look up, translate, insert, show |
| plug-ins and MCP server | `packages/plugin-sdk/src`, `packages/mcp-server/src` | registry, hook lists, a process | load, init, `createPost`, dispatch, destroy |
| community agent | `apps/api/src/workers/community-agent.ts` | repeatable jobs, run log, alerts | digest, stale discussions |
| Ollama adapter | `packages/moderation/src/providers/ollama.ts` | none | `classify` with two models |
| comment thread | `p/[id]/_thread.tsx` | one request's five answers | fetch by status, filter, build the tree |
| post form | `post/new/_form.tsx`, `SdgMultiSelect.tsx` | tab, body, preview, chosen goals | edit, preview, toggle, make primary |
| paged listings | `(public)/g/page.tsx`, `u/[handle]/reputation/page.tsx` | a page, a total | open, next, previous |
| feeds and follows | `packages/posts/src/listPosts.ts`, dashboard, goal hub | follows, memberships | list, follow, unfollow |
| outcomes | `g/[slug]/outcomes` | `outcomes` rows | report, list, progress |
| the rest | transparency, profile, i18n, design system, observability, e-mail, `apps/web`, `apps/docs` | | single-row updates, read-only queries, rendering and I/O |

How they interact: a server action inserts the content with status `pending_ai` and adds a job;
the worker takes the job, classifies, writes a row of `moderation_decisions` and then the status;
the status decides on which page the content shows (`published`: group page, `pending_review`:
review queue, `rejected`: the author's page, with the appeal form). Moderators and the appeals
page write to the same two tables. Nothing but the rows is shared, and no statement locks a row
for the next one.

What is hard here: every operation is a sequence of awaited statements, so two requests, or a
request and the worker, interleave between any two of them; a job is retried after a failure and
delivered again after a crash, from the start; a page acts on what it showed; one statement of
several may fail. `PROJECT.json` lists these hazards with their lines.

What makes each part correct:

- *status machine*: only transitions of the table, each on the strength of a logged verdict;
- *worker and queue*: attempts bounded, no content forgotten, no effect (reward, notification,
  dead letter) that does not correspond to what was written, at most one reward of a kind;
- *review*: a person rules on held content only (on appeal, on rejected), and decided content does
  not come back;
- *appeals*: an upheld appeal publishes, a rejected one changes nothing, the credits for a reversal
  are bounded by the requests in flight, and neither meets an attempt of the worker half way;
- *groups*: exactly one owner, an invitation admits once;
- *authentication*: a revoked session stays revoked, a link is used once and for its purpose, a
  reset ends what came before it, a disabled account has no access;
- *rate limits*: a bound on the hits granted in any window's length; *translation cache*: a bound
  on its rows, and no toggle that loads for ever; *plug-ins*: no dispatch to a plugin that is not
  initialised, destruction in reverse order; *community agent*: bounded retries, a digest for those
  who asked; *bell*: each notification once, and shown as read only when its row is or for a known
  reason;
- *pages and forms*: what they show is true of the rows they read, although they read them in
  several statements: no comment lost to a reader but those beyond the limit of its query, no page
  of a listing skipped, no fresh post buried, the preview is what is sent unless text was typed
  while it was rendered.

## The modules

| module | role | extends |
| --- | --- | --- |
| `ModerationPolicy` | verdicts, statuses, transition tables, `Decide`, rewards: pure operators | Integers |
| `EditorialContract` | the abstract specification: what moderation promises | `ModerationPolicy` |
| `ModerationPipeline` | create, queue, worker, failure handler, review, withdrawal | `ModerationPolicy` |
| `ModerationPipelineProofs` | the theorems about it | `ModerationPipeline`, TLAPS |
| `Appeals` | filing and resolving appeals, over `EditorialContract` as environment | `ModerationPolicy` |
| `Moderation` | the pipeline and the appeals over the same rows | `ModerationPipeline`, `Appeals` (instance) |
| `ModerationProofs` | the theorems about it | `Moderation`, `ModerationPipelineProofs`, `AppealsProofs` (instance) |
| `GroupMembership` | roles, ownership and invitations of a group | Naturals |
| `GroupMembershipProofs` | the theorems about it | `GroupMembership`, TLAPS |
| `AuthSessions` | one account: password, links, sessions, statement by statement | Naturals |
| `AccessContract` | the abstract specification: what sessions promise | |
| `McpServer` | the MCP server's process: plugin registry, hook bus, `createPost` | SequencesExt |
| `RateLimit` | one bucket in Redis | FiniteSets |
| `TranslationCache` | toggle, server action, cache, provider | FiniteSets |
| `CommunityAgent` | crons, jobs, retries, alerts of one group | FiniteSets |
| `Notifications` | one user's rows, event streams and bells | SequencesExt |
| `PostPage`, `PostForm` | a request for the thread; the form of a new post | SequencesExt |
| `GuardAdapter` | the Ollama adapter | `ModerationPolicy` |
| `Listings`, `Feeds`, `Outcomes` | paged listings; feed, hub and group page; a group's outcomes | SequencesExt, FiniteSetsExt |
| `Lists` | a list without one element | FiniteSets, Sequences |
| `AppealsProofs`, `AuthSessionsProofs`, `CommunityAgentProofs`, `NotificationsProofs` | the theorems about the module in the name | that module, TLAPS |
| `ServicesProofs` | the theorems about `McpServer`, `RateLimit`, `TranslationCache`, `PostPage`, `PostForm`, `GuardAdapter`, `Outcomes`, `Feeds`, `Listings`, and about all services side by side | `MCServices`, `CommunityAgentProofs`, `NotificationsProofs` |
| `MCServices` | the eleven modules above from `McpServer` on, one in focus at a time | all of them |
| `MCModerationPipeline`, `MCAppeals`, `MCModeration`, `MCGroupMembership`, `MCAuthSessions`, `MCMcpServer` | small instances for TLC | |

### ModerationPipeline

An action is the code between two awaits that can be told apart by somebody else.

- `status`, `kind`, `rulings` are columns of `posts`/`comments` and the verdicts in
  `moderation_decisions`; `reputation` is the cached sum of the author; `rewards`, `notices`,
  `deadLetters` record the effects; `everPublished` and `everRejected` are history: the contents
  whose status has been set to `published`, and to `rejected`, by anybody.
- `request` is `createPost`/`createComment`: `CreatePost`, `CreateComment` (the transaction that
  inserts), `FastPublish` (`MODERATION_DISABLED=1`), `ReadContext` (the reputation that travels in
  the job), `Enqueue`, and `CreateLost` (the enqueue that failed; its error is swallowed). The
  comment at `createPost.ts:38` also names an unset `REDIS_URL`; the code tests the flag only.
- `job`, `run` are the BullMQ job and the attempt that runs it. `StartAttempt`, `Classify`,
  `WriteDecision`, `CheckStatus` (the SELECT of `update*Status`), `WriteStatus` (its UPDATE) or
  `RefuseTransition` (`IllegalTransitionError`), `Reward`, `Notify`, `Complete` follow
  `processModerationJob` line by line. `AttemptFails` is a statement that throws,
  `WriteUnacknowledged` an UPDATE that took effect though its answer was lost, `RewardFails` the
  swallowed catch. `CrashAttempt` is the death of the worker process, `RecoverStalled` BullMQ's
  check for stalled jobs: the job is delivered again, or fails after `MaxStalls` of them.
- `handler` is the `failed` listener: `HandlerHold`, `HandlerDeadLetter`, each of whose writes may
  fail alone, and `HandlerLost` for a process that exits while the unawaited promise is running.
- `review` is a moderator's request: `OpenItem` (page), `RulePublish`/`RuleReject` (log the human
  verdict), `ReviewCheck`, `ReviewWrite`, and `ReviewEnds` for any early end (not authorised,
  illegal transition, error).
- `withdrawal` is the author's: `WithdrawCheck`, `WithdrawWrite`, `WithdrawFails`.

Scores are integers per hundred, so `DEFAULT_POLICY` reads 25, 85, 500. A classification is one of
a constant set `Results`; prompts, texts and reasons are left out. Rows are never deleted: deleting
an account or a group (cascades) is out of scope.

### EditorialContract and refinement

The contract has the variables `gateOff`, `status` and `rulings` only: content is submitted; the
classifier may rule at any time; a person may rule on what was held; the status may follow any
logged ruling, `pending_review` from `pending_ai` only; content that had a publishing ruling can
be withdrawn. It says nothing of jobs, attempts, requests or pages. `ContractHolds` is the
pipeline's refinement of it, checked by TLC and proved (`Implements`); the mapping is the identity.

### Appeals

`offered` is the form that the page of rejected content shows (`OfferForm`), `filing` an author's
request in one of several tabs (`SubmitCheck`, `SubmitInsert`, `SubmitFails`), `appeals` the table.
`resolving` is a moderator's request: `Fetch` (row, `resolvedAt`, authority), `Audit` (the human
verdict), `PublishCheck` and `PublishWrite`, `Credit`, `Mark`, `Notify`; `ResolveFails` may end it
between any two statements. The content lives in the environment: `PipelineStep` is any step of the
contract (with the gate on). `shown` is `published_at`; `overturns` counts, as history, how often a
ruling made earlier has taken down content that was public or withdrawn; `credits` counts the events
in the ledger, and `credited` names the appeals they are about.

Two moderators who are both past `PublishCheck` when the first of them publishes both go on to
`Credit`, in the model as in the code: the ledger has no constraint against it. Nor does a rejected
appeal take a credit back. What the code does keep is a bound, `CreditsBounded`: one credit for each
request in flight, and as many again for each overturning, because the transition table refuses
whoever comes to check after the content was published.

Using the contract as environment keeps the two components apart: `Implements` shows that the
pipeline is one of its implementations. The other direction is the next module's.

### Moderation

`Moderation` puts the two together. `PipelineMoves` is a step of the pipeline, `AppealMoves` a
statement of an appeal; the columns `status`, `rulings` and the author's `reputation` are the same
variables for both, `published_at` is `everPublished` for the one and `shown` for the other
(`Shown`). `AppealPublishes` and `AppealCredits` are the two statements of an appeal that write what
`Appeals` has no variable for: `published_at` in the UPDATE, and the two points that an upheld
appeal earns (`AppealDelta`). Nothing else is shared: jobs, requests, pages and their notices belong
to the pipeline, appeals and their notices to `Appeals`. The gate is on, as in `Appeals`.

Neither component is an implementation of the other's environment by itself, and the module says
what the two need of each other:

- `ContractWithAppeals` is the contract with one sentence added: a person may also rule on what the
  classifier has *rejected*. With appeals, "a person rules on held content only" is false, and
  `HumansRuleOnFlagged` is what takes its place: held, or rejected and appealed. A verdict of a
  person about content that the classifier would have let pass remains impossible.
- `AppealsFollowDecision`: the form is offered for rejected content only
  (`p/[id]/page.tsx:91`, `_thread.tsx:144`), and content that was decided never waits at the gate
  again, so that no appeal, form or request is about content that an attempt could be about to move
  out of `pending_ai`.
- `ReversalNeedsCauseOrAppeal`, `PaidOnce`: the two properties about delivery again, with the
  appeals beside the worker. Both write rewards into one ledger and both may be repeated.

### GroupMembership

`role` is the table `group_members` of one group, `invites` its tokens of purpose `group_invite`.
The pages offer forms according to the roles at the time they were rendered (`GroupPageForms`,
`MembersPageForms`, `InvitePageForms`); `Submit` sends one. A request then follows its server
action: it looks roles up (`CheckLeave`, `CheckOwner`, `CheckTarget`, `CheckStaff`) and writes by
user id in a later statement (`WriteRole`, `DeleteMember`, `Transfer`, which is one transaction,
`Issue`, `Revoke`). `Join` has no check. A claim is `Consume`, the DELETE ... RETURNING, and
`Admit`, the insertion that leaves an existing row alone; a claim sent from an account other than
the one invited uses the invitation up, as in the code. `Expire` is the passing of a token's
lifetime, `RequestEnds` any refusal or failure.

Two history variables serve the properties. `admissions` counts the insertions made on the strength
of an invitation. `overtaken` says that a transfer has committed between the check and the write of
a request it collides with: another transfer, or a leave, role change or removal of the same person.
`OneOwner` holds until then, which names the only window in which the code can lose or double the
owner; the run `leave` shows one such loss. The columns of `groups` and the SDGs are left out.

### AuthSessions and AccessContract

`account` is the row of `users` (password hash, whether the hash has outdated parameters, verified,
disabled), `sessions` and `tokens` the rows of those tables, in order of creation. A `request` is a
server action between two of its statements. `SignUpLook`/`SignUpInsert`, `MagicLinkLook`,
`ForgotPasswordLook` and `Issue` lead to a link. `SignInRead` verifies the password and remembers
which one; `Rehash` writes the hash of that password again, whatever the row holds by now;
`Consume` is the DELETE ... RETURNING of a link, followed by `MarkVerified`, `SetPassword` and
`RevokeAll`, or `CreateSession`, as the purpose asks. The account page lists the sessions and
revokes one or the others; deleting the account is `Disable` and `RevokeAll`. `ExpireToken` is the
passing of a lifetime, `SignOut` the page of that name, `RequestFails` any end between statements.

Passwords are numbered by the reset that set them, so that "the latest" has a meaning. Three
history variables name the windows in which the code promises less: a session is `late` when a
revocation ran between the check it rests on and its INSERT; `torn` says that a request ended
between its write to the account and its revocation; `overwritten` that a rehash was under way when
a reset set the password. The properties hold outside these windows, and the windows are real: a
sign-in that verified the old password may open a session after the reset has revoked them all, a
reset may fail half way, and a sign-in under way can put the old password back.

`AccessContract` knows only which ids were ever granted, which give access, and whether the account
is closed. `AccessContractHolds` is the refinement: `used` are the rows ever inserted, `open` those
for which `getSession` answers (`Authenticates`), `closed` is `disabled_at`. It shows why the order
of `Disable` and `RevokeAll` does no harm, and that rows inserted after it open nothing.

`docs/architecture/auth.md:44` says an unverified address has no active session; a reset
link opens one for it, which is why `SessionsAreEarned` makes that one exception.

### McpServer

`records`, `plugin` and `handlers` are the registry's map, the state of each record and the lists of
the hook bus; `Register` skips an id that is known, `InitPlugin` lets an `init()` fail, `Wire` adds
the handlers of one plugin. A call of the tool dispatches `beforePublish`, inserts, dispatches
`afterPublish`; `RunHandler` takes the next handler of the list that was there when the dispatch
began, so that a dispatch under way does reach plugins that are destroyed meanwhile. The two
signals run `destroyAll` side by side. A plugin counts as gone when its record says so.
`unregister()` exists but nothing calls it (it also removes a plugin that was never initialised
without `destroy()`, contrary to `docs/plugin-sdk.md:72`).

### RateLimit

`hits` and `ttl` are the Redis key; the three commands `Incr`, `Expire` (NX), `DecideHit` (TTL and
the decision) run in the order of their pipeline, with other requests and the expiry (`Tick`)
between them; `FailClosed` is the lost connection, which refuses. The comment at `limit.ts:12`
speaks of a sliding window and `limit.ts:51` of one extra request in the worst case: windows are
fixed, so that one window's length may see `2 * max - 1` hits, which is the bound that is checked.

### TranslationCache

`mode` is what a toggle shows, `request` how far its server action is, `rows` how many rows the
table has for a text. `Throttle` may throw before the action's `try` (Redis is down), and the
toggle then never hears of it; `Headers`, `Abort`, `ReadBody` are the provider, whose timer is
stopped once the headers are there. `Insert` is ON CONFLICT DO NOTHING, against an index that does
not see two rows whose comment is NULL.

### CommunityAgent

One group, its two repeatable jobs and `Jobs` occurrences of them. A job is the handler's
statements: `ReadGroup`, `RunTask` (the provider), `ReadMembers`, `ReadPreferences`, `Notify` member
by member in the order of the loop, `WriteRunLog`. A `Throw` goes back to the queue or, when the
attempts are used up, to the failed handler (`WriteFailure`, `Bury`), which nobody waits for;
`CrashAgent` is the death of the worker anywhere, with BullMQ's redelivery. `Change` edits members,
preferences and the group's switch meanwhile. The alert goes to every member although
the comment above its query says "admins/moderators" (`community-agent.ts:147`).

### Notifications

`row` is the row's `read_at`; `notify()` is two steps, `InsertNote` and `EmitNote`. A tab loads the
bell with its page (`LoadLayout`), opens a stream (`Subscribe`), loses it (`DropStream`), receives
events (`Deliver`) and marks one or all as read, on the server (`MarkRow`, `MarkAllRows`) and then
on the screen (`MarkBell`), unless the action throws or its answer is lost (`MarkFails`).

`signedIn` says whether the browser's cookie still names a session (`SessionEnds`, `SignIn`). Without
one a page does not load and the stream answers 401, which an EventSource takes as final
(`SubscribeRefused`); an open stream goes on, since the session is looked at once. The two actions
return as if they had succeeded, without their UPDATE (`_actions/notifications.ts:23`, `:40`), and
the bell marks its entries. `unsaved` records the entries that are marked although the UPDATE did
not reach their rows: those marked without a session, and those that came while a tab waited for
mark-all; an entry leaves it when its row is read after all. Notifications are numbered in the order
of their INSERT. The clean-up that `start()` returns is called by nothing (`stream/route.ts:65`):
listeners of closed streams remain in `deadListeners` until the next emit makes them throw and take
themselves off. The emitter lives in one process: what the worker
notifies is a row that nobody emits (the second alternative of `InsertNote`).

### PostPage, PostForm

`PostPage` is one request for the thread: five queries answered at five times while comments change
their status, then visibility and the tree. A comment found twice is shown once, one whose parent
was not found becomes a root, one that moved against the order of the queries may be missed;
`settled` are those that did not move. Each query answers its `CommentLimit` oldest rows (200,
`_thread.tsx:291`, `listCommentsForPost.ts:53`) and the page asks for no more: the 201st comment of
a status is not shown to anybody, and its replies become roots (`Oldest`, `CutOff`). The page's own
rule for posts is stricter than the thread's (`p/[id]/page.tsx:58`: a moderator may not open a
rejected post, though rejected comments are shown to moderators); the model is of the thread.
`PostForm` is one browser: clicks on the preview tab start renderings that end in any order, typing
goes on meanwhile, and the goals form a JavaScript Set in the order of insertion with a primary one.

### GuardAdapter

`GuardAnswers` maps the codes of the guard model to scores, `AuxAnswers`/`AuxFails` lay the
auxiliary model's three axes over them, `Result` filters the noise and suggests a verdict, which
`Decide` overrules. The table of codes is the code's. Three observations of the translation: the
auxiliary `misinfo` overwrites the one that S13 set; an answer "unsafe" with only S6 or unknown
codes has no scores and is published; an answer that cannot be parsed says "held for human review"
(`ollama.ts:346`) and, having no scores, is published like a refusal.

### Listings, Feeds, Outcomes

`Listings` is OFFSET paging over a list that grows, by rows stamped before they commit
(`MaxOverlap` commits may overtake one). The rows come out of a LEFT JOIN with the members
(`Joined`), are grouped by id again (`Grouped`), ordered and cut (`PageOf`). It assumes
that no two rows have the same `created_at`. The directory's filters select rows and are left out;
its default filter is the only one a group can be under, as no page offers `updateGroupAction`.
`Feeds` numbers the posts in the order of creation and gives each a publication date; tags and
groups are written with the post. The group's page lists its *oldest* 24 posts, which the model
states and no property promises otherwise. `Outcomes` reads reports and progress in two statements
and dates a report when its form is rendered.

## The runs

| run | module, configuration | shows |
| --- | --- | --- |
| `pipeline` | `MCModerationPipeline`, `pipeline.cfg` | all properties of the pipeline, and the contract (705,210 states) |
| `appeals` | `MCAppeals`, `appeals.cfg` | two tabs, two moderators, two appeals (658,507 states after symmetry) |
| `moderation` | `MCModeration`, `moderation.cfg` | pipeline and appeals together, one content, one moderator in the queue, two resolving (965,329 states after symmetry) |
| `groups` | `MCGroupMembership`, `groups.cfg` | three users, two requests, an invitation (2,930,613 states after symmetry) |
| `auth` | `MCAuthSessions`, `auth.cfg` | two requests, three sessions, two links, two resets, and the access contract (2.17 million states after symmetry) |
| `services` | `MCServices`, `services.cfg` | the eleven services, one in focus at a time (572,306 states) |
| `refusal`, `failed`, `legal` | `MCModerationPipeline` | a sentence of the documentation each, which the code does not keep |
| `noimpact`, `leave`, `announced` | `MCAppeals`, `MCGroupMembership`, `MCMcpServer` | the same, for appeals, for leaving a group and for a plugin hook |

The services share no state, and most of them no caller either: a behaviour of `services` therefore
follows one module, its `focus`, and leaves the others where they start. The states are the sum of
the eleven state spaces and not their product, and every interleaving *inside* a module is explored.

The properties that hold:

- `StatusIsRuled`: the audit log leads the status, whatever interleaves.
- `ContractHolds`: the refinement; among other things, a stale page never makes a person rule on
  what was never held (`HumansRuleOnHeld`, which is a theorem and not a run's property).
- `EffectsFollowStatus`: rewards and notifications correspond to statuses really written: one for a
  publication to `published` and a logged `auto_publish`, one for a rejection to `rejected` and a
  logged `auto_reject`.
- `CompletedIsDecided`, `DeadLetterIsFinal`: what the queue reports is true.
- `ReviewedOnce`: no late worker sends decided content back to the moderators.
- `ReversalNeedsCause`: a rejection is overturned by a moderator or by a redelivery, never by an
  ordinary retry; it rests on the swallowed catches around reward and notification.
- `RewardedOnce`: at-least-once delivery, at-most-once reward of a kind. It is not a check in the
  code but a consequence of the transition table (a redelivered attempt that meets its own write
  is refused) together with the bound on stalls, which is checked at BullMQ's default of one.
- `QueuedIsDecided` (liveness): a queued job takes its content out of `pending_ai` or fails.
- `UpheldIsPublished`, `CreditsBounded`, `DuplicatesBounded` for appeals: an appeal marked upheld has
  published its content (or a later ruling overturned it); requests
  in flight together may each credit its author, and as many again each time it was overturned, but
  repeating a request that died, or appealing anew, adds no credit; the check-then-insert race is
  bounded by the number of tabs.
- `ContractWithAppeals`, `PaidOnce` for the two together: an appeal does to the rows what the
  contract and its one added sentence allow, whatever the worker and the reviewers do meanwhile;
  and a change of a cached reputation is a reward of a kind not given before, one that a moderator
  has overtaken, or a credit for which the bound of `CreditsBounded` has room.
- `OneOwner`, `InviteSpentOnce` for groups: whatever stale pages and requests in flight do, the
  group keeps exactly one owner except in the window named above, and an invitation admits once.

- `SessionsAreEarned`: a link pays for one session, whichever requests race for it, and only a
  reset opens one for an address never verified; `ResetEndsSessions`, `PasswordIsLatest`: what a
  reset undoes, outside the windows named above; `AccessContractHolds`: the refinement.
- `PluginsAreOrderly`: new dispatches reach initialised plugins only and each once, plugins go in
  reverse order and none is left at the exit, with both signals at once.
- `BurstBounded`, `RetryAfterIsEnough`: the limiter's bound, and what a refused client may rely on.
- `RowsBounded`; `LoadingEnds` (liveness): a toggle comes out of its loading state unless the
  limiter threw or the provider hangs after its headers: the two cases are real.
- `RetriesEnd`, `DigestOnlyToOptedIn`: at most one alert for each attempt and stall, a job given up
  stays given up, nobody gets a digest they never asked for while the job lasted.
- `BellNamesOnce`, `BellReadIsRowRead`: no duplicate after a reconnection; an entry shown
  as read whose row is not arrived while mark-all was under way, or was marked when the browser had
  lost its session and the action returned without an UPDATE.
- `ThreadIsFaithful`, `FormSendsWhatItShows`, `PagesMissNothing`, `FreshPostsAreSeen`,
  `ProgressAgrees`: what pages show of rows that change while they are read. A comment may be missing
  from the thread only if the query of its status was filled by comments as old, and the preview may
  be old only if an edit fell into a rendering.
- `UnsafeIsRejected`: what the guard model found survives the auxiliary model and the policy.

What the documentation says and the code does not do is listed under `findings` in `PROJECT.json`: a
refusal is published (`RefusalIsHeld`), failed content waits in `pending_ai` for nobody
(`FailedIsReviewable`), two writers make an illegal transition (`TransitionsAreLegal`), a rejected
appeal leaves a credit behind (`RejectedHasNoImpact`), an owner leaves and the group has none
(`OwnersCannotLeave`), a hook announces the publication of a post that waits for moderation
(`AnnouncedIsPublished`). Smaller ones are named with the modules above or, when of wording or
timing, not modelled: `updatePostStatus.ts:30` calls rejected -> published the transition of an
upheld appeal, and a moderator or a redelivered job makes it, too (`ReversalNeedsCause`); rate-limit
keys have the address appended, which `docs/architecture/auth.md` section 7 does not say; links of
the dashboard use a group's id as its slug; the documents give backoffs of 1/4/16 s and no retry for
malformed output, the code retries all failures after 1/5/25 s.

### Bounds

- One content row. Contents interact through the author's reputation alone, and the job carries a
  snapshot of it, so one row with two initial reputations around the threshold (499, 500) has the
  same behaviours as several. The theorems hold for any number.
- `MaxAttempts` 3 (the code: 4; the first attempt and three retries). Three is enough for fail,
  retry, stall, final failure in every order.
- `MaxStalls` 1 is BullMQ's default `maxStalledCount`, which the code leaves alone.
- Two moderators: every race of two review requests. Four classifications: a refusal, and scores
  on each side of each threshold, at the thresholds themselves.
- `MaxAppeals` bounds the `appeals` rows: 2, so that a duplicate can be filed and two resolutions
  race, on one appeal or on two. A tab and a moderator stand for a request in flight; they return to
  idle.
- `moderation`: one reviewer, two resolve requests in flight, one tab, two attempts, one appeal and
  one overturning, so that two resolutions race with each other and with the worker, credit side by
  side, die half way and are taken up again. `MaxStalls` is 0 here, to keep the state space within
  two minutes: a job is repeated after a failure or a lost answer; its redelivery after a crash is in
  `pipeline`, and the theorems are for any number of stalls.
- `MaxOverturns` 1: the content is taken down once after it was accepted, which is what gives room
  for a second round of credits.
- Groups: three users, so that ownership moves on and comes back while a third person joins or is
  promoted; two requests, since every collision is between two; one invitation, since invitations
  do not interact.
- Authentication: two requests (every race is between two), three sessions and two links, so that a
  link can be tried twice while another is out, two resets, so that "the latest" differs from "the
  one before".
- Services: two tabs' worth of concurrency or one, two or three rows, limits of one or two, so that
  a list is cut, a query answers less than there is, a window ends and a page shifts within a short
  behaviour. `MaxHits + 2` stands for every count above the limit. `CommentLimit` is 1, so that two
  comments of one status are one too many. The oldest comment is published at the start
  (`OldestPublished`) and the others have any status, which keeps the run short. There is one
  notification more than the bell has room for, one lost connection, and one tab; other tabs act on
  the rows as the button of the notifications page does (`MarkAllOnPage`).
- Symmetry is used in `appeals.cfg`, `moderation.cfg`, `groups.cfg` and `auth.cfg`, where only
  invariants and action properties without fairness are checked, over tabs, moderators, requests and
  the users other than the creator: none of them occurs in a definition by name.

### Fairness and deadlock

Weak fairness of `WorkerStep(c)` and of `HandlerStepOf(c)`: a waiting job is taken, an attempt goes
on, a stalled job is recovered. The code justifies it by running one worker that takes every job
(`workers/index.ts`), exits on an uncaught error and is restarted by its supervisor, and by
BullMQ's stalled check. Nothing is assumed of authors, moderators, requests or crashes: these may
stop at any point, so deadlock is not checked (the system may really come to rest, and does when
everything is decided).

Weak fairness of `Serves(t)` in `TranslationCache`: the server continues where only it has to act,
its timer fires, and its answer reaches the browser. Nothing is assumed of the provider, and
nothing of the viewer. The other modules state no fairness and have no liveness property.

## The proofs

Each proofs module has the same form: a strengthening (`IInv`, `McpInv`, `RateInv` and so on) with a
comment that says why the property alone is not inductive, the effects of single statements as
lemmas, one lemma per action or group of actions, and the theorems.

### ModerationPipeline

`ModerationPipelineProofs` proves, for every set of contents, authors and moderators, every
classifier and every number of attempts and stalls, that the specification implies `TypeOK`
(`TypeCorrect`), `StatusIsRuled` (`AuditLogFirst`), `HumansRuleOnHeld` (`OnlyHeldIsReviewed`),
`EffectsFollowStatus` (`EffectsAreTrue`), `CompletedIsDecided` (`CompletionDecides`),
`DeadLetterIsFinal` (`DeadLettersAreFinal`), `ReviewedOnce` (`NeverReviewedTwice`) and
`ContractHolds` (`Implements`). They use the named assumptions on the constants and nothing else.

The invariants are not inductive as they stand: `StatusIsRuled` says nothing of the attempt that is
about to write a status it checked three statements earlier. `IInv` adds what a step in flight
knows: `JobInv` and `RunInv` tie the attempt to its job (a run exists exactly while the job is
active), `StageInv` says what has been established at each stage of an attempt (its verdict is
logged before it checks, its status was written before it rewards, and `everRejected` remembers it),
`HandlerInv` ties the failure handler to a job that has failed with all its attempts used,
`ReviewInv` says that a moderator's request past its log holds a logged human verdict on held
content, and `WithdrawInv` that a withdrawal past its check has a publishing ruling (or the gate is
off). `Invariance` proves that `IInv` is preserved, one lemma per group of actions; the theorems
above follow from it, and the action properties and the refinement use it at both ends of a step.
`HumansRuleOnHeld` is not part of `IInv`: it is kept by `IInv` together with what a step may add to
the log (`NextRulings`). That matters, because with appeals it is false, and the rest of `IInv` is
not.

One argument deserves notice, since the status is written without a condition: an attempt that
writes `pending_review` checked it from `pending_ai`, and nobody else can leave `pending_ai`
meanwhile, because moderators and authors act on other statuses and there is one attempt at a time.
That is why `ReviewedOnce` holds in spite of the unconditional UPDATE, and what the assumption
below is for.

`ModerationPipelineProofs` has a section of its own for the two properties about delivery again.
`RetryInv` adds to `IInv` a memory of earlier attempts that the state does hold, if one looks at the
right variables. `Cause`: an attempt of a job that never stalled and never lost an answer works on
content that is still `pending_ai`, until it has written the status itself; so nothing it writes
can overturn a rejection (`NoReversalWithoutCause`). `Once`: as long as no moderator has ruled,
content that was credited as accepted is public or withdrawn, content queued for review has earned
nothing, and an attempt about to reward has just entered its status for the first time
(`NeverRewardedTwice`). The swallowed catch around the reward matters here: an attempt that failed
to reward goes on, and no later one gets past the transition table.

`PolicyIsMonotone` is about `Decide` alone: more or higher scores, or less reputation, never give
a more lenient verdict.

Assumption of the model: an attempt whose BullMQ lock has expired has really stopped. `Complete`
and the writes of an attempt that outlives its lock could overlap with the redelivered one;
`RewardedOnce`, `ReviewedOnce` and `ContractHolds` rest on this.

### GroupMembership

`GroupMembershipProofs` proves `TypeOK` (`GroupTypeCorrect`), `OneOwner` (`OwnershipIsUnique`) and
`InviteSpentOnce` (`InvitesAreSingleUse`) for every number of users, requests and invitations, from
`GroupAssumption`. The strengthening `IInv` has three parts: `FormInv` (what the pages put in a
form: nobody manages themselves, a role other than owner), `PendingInv` (as long as nothing has been
overtaken, a transfer past its check still has the owner as its actor, and a leave, role change or
removal past its check still has somebody else as its target) and `InviteInv` (an invitation that
was claimed is with at most one request about to insert, or has been used once). `PendingInv` is the
point: it is the check of the code carried over to the write, and a transfer is the only step that
can break it, for exactly the requests that `Collides` names.

### Appeals

`AppealsProofs` proves `TypeCorrect`, `UpholdingPublishes`, `AuditLogFirst`, `TabsBoundDuplicates`
and `CreditsAreBounded`, for any content, any finite number of tabs and resolve requests and any
number of appeals and overturnings. What an appeal, a notice or a credit says was decided some
writes earlier, so `RequestInv` follows the moderator's request from its audit row on: the verdict
is logged, then the content has been shown. `CreditInv` is the argument for the bound. It adds to
the credits given the requests that are about to credit (`Crediting`) and those that may still come
to (`Outstanding`): all of them while the content waits to be published, and only those past their
check (`Writing`) once it is public or withdrawn, since the check refuses the rest. The sum grows
only when a ruling takes the content down, by the number of requests at most, and that is what the
bound grows by (`RoomGrows`). `CreditHasRoom`: where a request is about to credit, the bound is not
reached; the composition cites it. `DuplicatesBounded` is inductive once it is counted with the tabs
that are past their check; the lemma `FewerDuplicates` does the counting.

### Moderation

`ModerationProofs` is about the composition, for any content, authors, moderators, pages, tabs and
appeals. It proves no step of either component again. `JointInv` is `RetryInv` of the pipeline, the
`IInv` of `Appeals`, and what only the two together can say: `RowInv` (`published_at` is set where
the status is published, and a row keeps its kind), `AppealsFollowDecision` and
`HumansRuleOnFlagged`. The argument has two halves.

- *The pipeline, as Appeals sees it.* `RowWrite`, `RowEffect` and `ContractStep` sort the pipeline's
  thirty-odd actions by what they do to the shared rows; with the gate on, each is a step of
  Appeals' environment or none (`PipelineMovesAllowed`). So `[ModerationNext]` implies
  `[Appeals!Next]`: `ImplementsAppeals` is the refinement, and the invariant of `Appeals` holds.
- *The appeals, as the pipeline sees them.* `MoreRulings`, `PublishedByHuman` and `MoreReputation`
  say what a stranger may do to the rows without the pipeline's noticing: log another verdict; set
  content that is past the gate to `published` on a logged human verdict; raise a reputation.
  `AppealKeepsRetryInv` shows that an appeal does just that. The second needs the appeal's content
  to be past the gate (`AppealsFollowDecision`, from `StaysDecided`) and the verdict to be in the
  log when the status is written (`RequestInv` of `Appeals`).

From it follow `ImplementsContract` (the refinement of the contract with its added sentence),
`PaymentsAreBounded`, `NoReversalUnasked`, `PeopleRuleOnFlagged`, `NotReviewedAgain`, and that what
either component promised alone it promises in the other's company (`PipelineKeepsItsWord`,
`AppealsKeepTheirWord`). `NoReversalUnasked` shows what `Cause` is worth: an ordinary retry does not
undo a rejection even while an appeal about it is being decided.

The first assumption is that the gate is on: content published unmoderated has no rulings, is never
rejected and cannot be appealed, so that the appeals have nothing to do there. The second
(`ModerationAssumption`) is what `Appeals` assumes of its constants; `KindOf` says in advance
whether an id will be a post's or a comment's, since the two tables' ids do not collide.

### AuthSessions

`AuthSessionsProofs` proves `TypeCorrect`, `EverySessionIsEarned`, `ResetsRevoke`,
`OldPasswordsAreGone` and the refinement of `AccessContract` (`Implements`), for any number of
requests, sessions, tokens and resets. What a row of sessions will be is decided by a check that is
long past when the row is inserted; `RequestInv` carries it over. `OwnToken`: the token that a
request consumed is spent, and is neither another request's nor a session's. `Entitled`: the
address is verified or the link was a reset. `UpToDate`: the request checked after the latest
reset, or a revocation has passed it (it is `late`), or one is still to come. `Rehashing`: the
password that a sign-in will store is the latest, or a reset has noticed it. `MagicLinkInv` adds
that magic links go to verified addresses only. The refinement needs the types alone: every
statement that ends sessions maps to a revocation, the INSERT to a grant, `Disable` to the closing.

### CommunityAgent

`WrittenOffStaysOver` and `DigestsAreWanted`, for any jobs and users and any number of attempts and
stalls. The bound on alerts is not inductive, because the run under way may or may not have come to
a given member: `AlertInv` says that every run which ended was paid for by an attempt or a stall,
and the present one adds one alert for those it has reached. `OptInv` follows the preferences from
the read to the loop, `AttemptInv` and `OverInv` say when the failed handler is at work.

### Notifications

`NamedOnce` and `ReadIsRead`, for any finite set of notifications, any number of tabs and any size
of the bell. The bell is filled from a query and from a stream, which both name rows as they were
some steps ago. `WayInv`: an event on the wire has its row. `MarkingInv`: while a tab waits for the
answer to a mark, what the answer will mark is accounted for (`Accounted`): its row is read, or the
tab has it in `unsaved`. `StillAccounted`: what a step takes out of `unsaved` is read by then.
`UnmountedInv`: nothing goes on in a tab before its layout is loaded.

### McpServer

`OrderlyLives`, for any plugins, hooks and sequence of paths, repetitions included. Two signals
destroy side by side, each from a list of its own; `TodoInv` says that what either has left is the
beginning of the records, backwards, and that everything behind it is gone, whichever of them
destroyed it. Without it nothing says that the exit leaves nobody behind. `StartInv` says how far
the start has come when a signal ends it, `RecordInv` that a plugin has one record.
`WithoutProperties` is what `filter` leaves of a list, with the order of what stays.

### The services

Every one has its type theorem too (`RateTypeCorrect` and so on). `ServicesTypeCorrect` is about
`MCServices`, where one service moves at a time: `OneAtATime` says that a step is a step of one and
a stutter of the others, so that the conjunction of all their invariants is one.

- `RateLimit` (`BurstsAreBounded`, `WaitingIsEnough`): `RateInv` adds up the grants of two windows.
  Whatever is still young enough to count was granted by the present key or the one before; when a
  key expires, its first grant is a window old, so at most `MaxHits - 1` remain for the next. The
  lemmas about `GrantsYounger` count pairs <<age, number>>.
- `TranslationCache` (`CacheIsBounded`): rows of a body plus the requests that have missed it and
  not inserted yet never exceed the toggles of that text.
- `PostPage` (`ThreadsAreFaithful`): a comment whose status stays is answered by the query of that
  status, or that query was full of comments as old (`OldestFirst`), and by no other; and a comment
  that is visible is rendered, since a chain of parents which were not rendered would never end
  (`VisibleIsRendered`, from the acyclicity of replies).
- `PostForm` (`SendsWhatItShows`): each goal is selected once and the primary one is among them; as
  long as no edit has fallen into a rendering, whatever is rendered or being rendered is the body.
- `GuardAdapter` (`UnsafeStaysRejected`): until the auxiliary model answers, the scores are those of
  the codes, and its answer replaces its own three axes only.
- `Outcomes` (`PagesAgree`): what a page has read are two beginnings of the table of reports
  (`ReadsPrefixes`); one contains the other, and if they count the same they are the same.
- `Feeds` (`FreshIsSeen`): `ClockInv` numbers the publications, without gaps and without repetition,
  so that of two published posts one is newer; what a list left out stays older than the list, and
  what is published later is newer than the time at which it was read.
- `Listings` (`NothingIsMissed`): rows are only inserted, so that a row never moves to an earlier
  place. `PlacesInv`: what the reader was owed and has not been shown stands at or behind the page
  he is about to read, and, once its rows are read, behind it, among as many rows as the list had
  there. The statement about the end follows from the total, which can only be larger.

### What the theorems assume

The named assumptions on the constants, which TLC evaluates for the instances of the runs:

- finite sets where something is counted: tabs and resolve requests (`Appeals`), notifications,
  toggles, posts, comments of a thread. The parents of comments are acyclic: a reply is inserted
  after its parent. `CommentLimit` is any natural number.
- limits that the code sets to positive constants are positive: `MaxHits`, `Window`, `FeedLimit`,
  `PageSize`, `BellSize`, `MaxAttempts`. `MaxMembers` of a listed group is at least one: who
  creates a group becomes a member in the same transaction.
- `AutoRejectMin <= UnsafeScore` (`GuardAdapter`): 0.85 and 0.9 in the code. A stricter policy of
  a deployment would let an unsafe answer through, which is why it is an assumption.
- the thresholds of the policy are ordered (`PolicyAssumption`), and names that stand for "nothing"
  are not names of content or goals; notifications are numbered from 1.

The bounds of the models (`MaxReports`, `MaxEdits`, `MaxResets` and so on) are constants too, so a
theorem holds for every value of them.

### Only model-checked

- `QueuedIsDecided` and `LoadingEnds`: liveness under fairness is beyond the prover.
- the six runs that expect a violation: what they show is a behaviour, and TLC exhibits it.

Every other property of a passing run is a theorem.

## Not modelled

- `rotateSession`, `PluginRegistry.unregister`, `withRateLimit`, `enqueueCommunityAgentJob` and with
  it the task of member suggestions: nothing in the program calls them.
- `updateGroupAction`: no page offers it. `createGroup` is the initial state of `GroupMembership`;
  its search for a free slug races with others, and the unique index decides (the loser throws and
  writes nothing).
- Another user signing in on a browser whose tabs still show the bell of the one before.
- Transparency pages, the hub's outcomes, the MCP server's other tools: queries of one statement
  each, with nothing to be consistent with. Profile and preferences: updates of one row.
- E-mail texts, translations of the interface, goal and indicator data, the design system, logging,
  rendering without state, and the providers' prompts.

Hazards that no property covers and that `PROJECT.json` does not list for room: an invitation that a
failing claim has used up (`claimInvite.ts:27`; the model has it, the code promises nothing), a job
failed for stalling, which nobody writes off (`workers/moderation.ts:388`), the reputation that
travels in a waiting job (`workers/moderation.ts:170`), listeners of closed streams
(`stream/route.ts:65`), crons of groups created after the worker started
(`community-agent.ts:551`), the emitter of the other process (`emitter.ts:19`).

## Plan

Done: every module of the table above, its runs, and the proofs: each safety and action property
that a passing run checks is a theorem, the refinements are, and so is the composition of the
pipeline with the appeals. Left, in this order:

1. Pipeline: expiry of a lock with its attempt still alive, as an alternative to `CrashAttempt`,
   and which of the theorems survive it; the failure of `Enqueue` after the commit.
2. `Moderation` with the gate switched off and on again between restarts, which `Appeals` leaves out.
3. The notices of pipeline and appeals as rows of `Notifications`.
