# mailtg-bridge in TLA+

`mailtg-bridge` is one asyncio process that mails the messages of a user's
Telegram account to the user (U) and posts U's replies to those mails back into
the chats, as U. It keeps its books in one SQLite file and is meant to survive
crashes, lost connections and a revoked Telegram session without losing a
message. This project models the program under `src/src/mailtg_bridge`, checks
small instances with TLC, and proves most of what is checked for every value of
the constants with TLAPS. Line numbers below are those of the source files.

## 1. The system

| component | state | operations | interacts with |
|---|---|---|---|
| inbound cycle, `orchestrator.py:31-73` | none of its own between cycles; the listing, the batch and the sent parts within one | list dialogs; per dialog: gate, fetch, bootstrap, select, download, send parts, commit | gateway, SMTP, store |
| mailbox cycle, `orchestrator.py:74-107` | none between cycles; the polled mails within one | poll; per mail: classify, apply command, post reply; flush confirmations | IMAP, gateway, SMTP, store |
| session handling, `orchestrator.py:24-30` | tables `session_health`, `sent_notice` | invalidate, notify U once | both cycles |
| run loop, `orchestrator.py:111-118` | two due times, the stop flag | runs either cycle when due; sleeps; stops between turns | both cycles |
| store, `state.py` | `dialog_cursor`, `mail_ledger`, `consumed_mail`, `posted_echo`, `bridge_state`, `session_health`, `runtime_backoff`, `pending_notice`, `sent_notice` | one method per read or commit; `purge_retention` | everything |
| Telegram gateway, `telegram.py` | the Telethon session | list, fetch, download, post; `classify_error` | Telegram |
| mail in, `mail_in.py` | none | poll, parse, strip quotes, classify | IMAP |
| mail out, `mail_out.py` | none | render, compose parts under a size limit, send, archive | SMTP, IMAP |
| algorithms, commands | none | `is_addressed`, `next_backoff`, `build_deeplink`, `parse_command` | the cycles |
| setup, lock, CLI | the session file, the lock file | authorize; one process at a time; purge | store |

What makes it hard:

* **Two external systems and one database, no common transaction.** Every
  external effect (a mail sent, a post made) is followed by a commit; a crash, or
  an error that hides a success, may fall between. The documents accept copies
  and exclude loss.
* **The bridge reads back what it writes.** A reply posted as U is a message of
  the dialog and is fetched by the inbound cycle, unless its echo marker says so.
* **Nothing is removed from the INBOX.** Each poll sees all mails again, commands
  included, and only the consume markers keep them from acting twice; a purge
  removes markers.
* **Gates read once.** An OFF, or a revoked session, takes effect in the middle of
  work that began before it.
* **Errors differ by where they are raised.** The same exception ends a dialog,
  the cycle, or the process, depending on the `except` clauses around the call.
* **One task, two timers, one reading of the clock in a turn**, with cycles of any
  length, waits kept in a table over restarts, and a stop flag that is looked at
  once in a turn.

What makes each component correct is listed with the hazards in `PROJECT.json`,
at the source line where it can go wrong. In short: the inbound cycle never
passes a message it owes and repeats one only when an attempt failed; the
mailbox cycle posts a reply where the mail it answers came from, and again only
when an attempt failed; commands act once and in order; nothing crosses a closed
gate; a purge brings nothing back; neither cycle starves the other; no call that
asks for its wait comes before it is over, and none waits longer than it must; and
all that is owed happens eventually.

## 2. Modules

| module | models | extends / instantiates |
|---|---|---|
| `BridgeStore` | the tables of `state.py`, one operator per method | |
| `Service` | the world, the handler `invalidate_session`, crash, stop, restart, setup | `BridgeStore` |
| `Inbound` | `run_inbound_cycle`, run over and over | `Service`, `Delivery` |
| `Mailbox` | `run_mailbox_cycle`, `flush_notices` | `Service`, `Answers` |
| `Bridge` | both cycles in one task over one store | `Inbound`, `Mailbox` |
| `Delivery` | the promise of the inbound direction, with no process in it | |
| `Answers` | the promise of the mailbox direction, with no process in it | |
| `Retention` | the bridge with the times of its rows, and `purge_retention` | `Bridge`, `Answers` |
| `RunLoop` | `run`, `stop`, the rows of `runtime_backoff` and `next_backoff`, with time counted | |
| `Addressing` | `list_tracked_dialogs`, `_dialog`, `is_addressed` over every configuration | |
| `Composer` | `compose_batch` | |
| `ReplyText` | the HTML parser `_Text` and `strip_quoted_tail` | |
| `RenderEntities` | `render_entities` | |
| `MC*` | sets and model values for TLC; `MCAlgorithms` runs the last four side by side | the modules named |
| `Service_proofs` | lemmas on the steps that both cycles share, and the count of session notices | `Service` |
| `Inbound_proofs` | types, no message skipped, order, the refinement of `Delivery`, the count of copies | `Inbound`, `Service_proofs` |
| `Mailbox_proofs`, `MailboxSafety_proofs` | types, then safety, the counts of posts and confirmations, the refinement of `Answers` | `Mailbox`, `Service_proofs` |
| `Bridge_proofs` | the theorems of the two cycles for the whole, both refinements among them, and those that only the whole has | `Bridge`, `Inbound_proofs`, `MailboxSafety_proofs` |
| `Retention_proofs` | what a purge leaves true, the promise of `Answers` included | `Retention`, `Bridge_proofs` |
| `RunLoop_proofs` | time | `RunLoop` |
| `Algorithms_proofs` | the gate, the cut of a batch, the text of a reply | `Addressing`, `Composer`, `ReplyText` |

`RunLoop` and `Bridge` look at the same process from two sides. `Bridge` has what
the cycles do to messages and mails, and takes them in any order and at any
speed; `RunLoop` has the time, and of a cycle only its calls, their durations and
their backoff rows. What `Bridge` assumes of the order (a cycle runs to its end,
both get their turn) is what `RunLoop` shows (`CyclesForEver`); what holds in
`Bridge` for every order holds for the orders of `RunLoop`.

### How the state corresponds to the code

* One variable per table (`BridgeStore`). A method with one transaction is one
  operator, so its tables change together; two calls in a row are two steps with
  room for a crash between them (`orchestrator.py:87,89` and `:30,:106`).
* In `BridgeStore` a `runtime_backoff` row is kept as what `_due` reads of it: its
  scope is in `waiting` while `not_before` is ahead. A wait may end at any step, so
  every relation between the lengths of the waits is covered. `RunLoop` keeps the
  row itself: the time since it was written, its delay and its failure count. It
  has the rows of `mail:session-notice` and `mail:notice:*` too, which the code
  writes and reads nowhere; in `Bridge`, where a row is what `_due` reads of it,
  these two have none.
* A Message-ID is a number, the count of mails B has sent or may have sent; a
  `mail_ref` is the position of a mail in the INBOX; a message id is the position
  of the message in its dialog.
* `chat`, `mailU`, `noticeU`, `inbox`, `authorized` are the world: what Telegram
  and the mail servers hold, whatever the process knows of it.
* `pc` is the point where the one task stands; `todo`, `cur`, `selected`, `rest`,
  `high`, `sent` are the locals of the inbound cycle, `pos`, `end`, `posted`,
  `toFlush` those of the mailbox cycle. A crash resets them and nothing else.
* `rowTime` (`Retention`) is the time column of each table, kept also for rows that
  a purge has deleted, so that properties can speak of what was there.
* `Written` is the INBOX as U meant it: what each mail wishes (`Wish`: on, off,
  something said, or nothing) and which mail of the bridge it answers. `Letters`
  are the mails in `mailU` with their dialogs. They are the state of `Answers`, with
  `enabled`, `noticeU`, `posts`, and for "acted on" the consume markers (`Answer`)
  or, where purges delete those, the markers that ever were (`EverAnswered`, from
  `rowTime`).
* In `RunLoop` all times are relative to the present (`toIn` is `next_in` less the
  clock), so that a run for ever has finitely many states.
* `base` (what the tail bootstrap skipped), `posts` (which mail a post came from),
  `outside` (`ReplyText`) and `sinceStop`, `rest`, `most`, `failed`, `tried`
  (`RunLoop`) are history variables, read by properties only. `rest` is how long a scope still must be left alone,
  `most` how long it may be, both counted from the failure and not from the row.

### How the actions correspond to the code

An action ends at each answer of an external call and at each commit: between
two such points nothing outside the process can change or be observed. Reading a
dialog's cursor, the top-id gate, the fetch and the decision taken on its answer
are one action for each outcome (`SkipNotDue`, `SkipNothingNew`, `FetchNothing`,
`FetchTail`, `FetchNoneSelected`, `FetchBatch`, `FetchFails`,
`FetchPeerNotFound`), because the fetch is the only external call among them.
Every error class of `errors.py` is an action at each call that can raise it, with
the effect of the handler around that call; an error without a handler
(`MailSizeRejected`, `PeerNotFound` of a post) ends the process by an action of
its own, and those that may come from anywhere (`MailAuthError`, an unknown
exception, a kill) are `Crash`.

Ambiguous outcomes are nondeterministic: `SendFails`, `PostFails`,
`SessionNoticeFails` and `ConfirmationFails` may leave the mail or the post in the
world or not. So are the jitter of a backoff, the duration of a call, and which of
several rows of one time a purge keeps.

### Abstractions

* In the cycles, whether a message is addressed, and whether the mail server will
  ever take it, is a kind of message; what the classifier and the parser make of
  a mail is a kind of mail. `Addressing` and `ReplyText` have the functions behind
  two of these.
* `compose_batch` cuts a batch between messages before the first part is sent.
  `Inbound` chooses each part when it is sent: the set of possible cuts is the
  same, and a crash forgets both. Which cut is chosen is in `Composer`, where the
  size of a mail is a parameter: any function of the messages, of the media it
  leaves out, and of the part and the number of parts, which are in its subject.
  Which files are above the threshold is a parameter as well.
* The dialogs of a listing are a set, taken in any order.
* A mail answers one mail of the bridge. `parent_ids` may give several, and takes
  the first that has a row.
* Media are a step between fetch and send that may fail. A message whose media is
  unavailable stays in the batch as a marker, and is mailed like another.
  Temporary files are left out.
* In `Mailbox` alone a whole delivery by the inbound cycle is one step
  (`InboundDelivers`); `Bridge` has the cycle itself.
* In `RunLoop` one dialog stands for all, a poll gives at most one reply, and one
  confirmation waits at most, so the longest cycles are three and five calls (list,
  dialog, session notice; poll, post, session notice, confirmation, session notice
  again); the bridge is on.
* In `Addressing` a source is a username or a number with or without a topic, and a
  number is told apart by its form: the bare id, `-<id>`, `-100<id>`. The
  `dialog_id` that `_dialog` makes of a peer is one of these forms, and not always
  the one that is configured.
* In `ReplyText` a document is well nested and void elements carry no quote class.
  Its text is words and line breaks, those that `_Text` adds for block elements and
  those of the text itself; whether a line starts a quoted tail is a predicate on
  its words. How spaces and blank lines are collapsed is left out.
* In `RenderEntities` the spans are nested or apart, as Telegram gives them, and
  offsets count positions of the text (Telegram counts UTF-16 units).

## 3. Runs

| run | question | instance |
|---|---|---|
| `inbound_history` | Is a message ever skipped, reordered or repeated without cause? Is every owed message delivered? Is each step a step of `Delivery`? | 2 dialogs (one with a known `top_id`, one without), 2 messages each, 2 failures, from the first message, under fairness |
| `mailbox_safety` | Do only trusted mails act, once, in order, and at the right dialog? Is each step a step of `Answers`? | 2 dialogs (one gone), 2 mails of any of the 6 kinds, 1 failure |
| `bridge_safety` | Do the cycles spoil each other's work? Does anything cross a closed gate? Is each step a step of `Delivery`? | 1 dialog, 3 messages with posts among them, 2 mails, 1 failure, refused mails, tail bootstrap |
| `bridge_live` | Do messages, replies, commands and notices come through in the end? | 1 dialog, 1 message, 2 mails, 1 failure, under fairness |
| `retention` | Does a purge bring back what was done? Is the promise of `Answers` kept for ever, by the whole bridge with its purges? | the same with 1 message, 4 points of time, ages 2 and 1, a ledger limit of 1, 1 failure |
| `run_loop` | Does either cycle starve or fall behind? Does a scope that is asked for come too early, or wait too long? Does SIGTERM end the process? | intervals of 3 and 2, backoffs of 2 to 4, flood waits below and above, calls that take 0 or 1, 2 failures or deaths |
| `algorithms` | Do listing, fetch and gate agree with each other and with the decision table? Is each message composed once, and are media left out only for a cause? Is a reply the user's own text? Is the HTML well nested? | 4 peers (a private chat, a forum, a channel, a basic group), a topic, lists of 2 sources together; batches of 1 to 4 messages of 10 kinds; documents of 9 pieces; 3 spans over 3 positions |

The other five runs are violated: in each the documents claim what the code does
not do. What the code does, and the line it contradicts, is under `findings`.

| run | claim | instance |
|---|---|---|
| `fetch_limit` | A backlog longer than the fetch limit is collected by later cycles. | limit 1, 2 messages, no failure |
| `gone_peer` | One gone peer does not stop the replies to others. | 2 dialogs, 2 replies |
| `lost_confirmation` | Each applied command is confirmed. | 1 dialog, 1 crash |
| `consumed_cut` | A consumed reply is never posted again. | 1 dialog, 2 replies to one mail, a limit of 1 consume marker, no failure |
| `early_retry` | Nothing is tried again before its wait is over. | as `run_loop` |

Some of these are the other side of a passing property. `consumed_cut` goes with
`retention`: the common age of ledger and consume markers keeps a purge from
bringing a reply back, and their separate counts do not; the passing run gives
`MaxConsumed` room for all the mails there are. `GatedCallsWait` is about the scopes
that `_due` is asked for, `early_retry` about all of them: the session notice and the
confirmations have rows that nothing reads.

Where the code does less than the documents say, a passing property says exactly
what it does. `WaitsNoLonger` is about the scopes whose rows a success clears, all but
those of the posts. `GateFollowsTable` says that under `forced_list` the gate takes
every message for a mention. `UnderstoodDelivered` has both sides: which sources on
the whitelist are delivered, and that the others, alone on the lists, are not.
`ComposedRight` says what the code's own order of splitting and omission keeps.
Section 5 lists the passages of the documents that these depart from.

A property is checked where its instance asks most of it: the replies and commands
in `mailbox_safety`, which has two dialogs and every kind of mail, the messages in
`inbound_history`, which has two dialogs and two failures. That these properties
also hold of `Bridge`, and some of `Retention`, is proved (section 4) and not run
again.

`CopiesNeedFaults`, `PostsNeedFaults`, `SessionNoticesNeedFaults` and the last
conjunct of `ConfirmationsTrue` make "at least once" exact: each copy after the
first is paid for by a failure of its own.

**Bounds.** `MaxMsgs`, `MaxInbox`, `MaxFaults`, `MaxMails`, `MaxClock`, `MaxCall`,
`MaxListed`, `MaxDepth`, `MaxPieces` and `MaxSpans` appear in guards or in the sets
that inputs are taken from. Two messages make a batch of two parts, a batch with
one addressed message and one not, and an arrival during a batch; two dialogs
make one fail while the other goes on; two mails make a command after a command,
a reply after an OFF, and a reply after a failed one. A failure is needed for each
retry, and a second one for the retry of a retry, which is why `inbound_history`
has two. `MaxMails` bounds the restarts of a process whose mail is refused for
good: without it that process would send the parts before the refused one again
and again. It binds only in `bridge_safety`; the other runs have no refused mail
and never reach it. In `run_loop` the calls of one cycle may take longer than
either interval, the case that lets a loop starve one of its timers, and two
failures in a row drive a backoff to its maximum. In `retention` the clock runs past
the ages by one. Nine pieces are a quote in a quote, elements and void elements of
the same tags around them, and text before, between and after, or a line that starts
a tail among others. The kinds of a message in `Composer` have more or less text and
no medium, or an image or a file on either side of the threshold, so a batch may fit
as it is, only when split, only without media, or not at all.
`CHECK_DEADLOCK` is on wherever the process can always go on (`Setup` remains
possible while it is down). It is off in `run_loop`, where "ended" is final, and in
`algorithms`, whose functions return.

**Fairness.** `InboundLiveSpec`, `MailboxLiveSpec` and `BridgeLiveSpec` assume weak
fairness of the steps of the process (one asyncio task that nothing else
preempts), of its restart (`Restart=on-failure`, `deploy/mailtg-bridge.service:15`)
and of the end of each wait (`not_before` is a time); fairness of the restart also
covers a stop by the operator, after which `on-failure` starts nothing: the
operator is assumed to start it again. They assume strong fairness of the
start of a cycle, because an operator may stop and start the process for ever and
a cycle begins only between. That neither cycle is starved by the other is not
taken on trust: `LoopLiveSpec` has weak fairness of the one task and of the restart
only, and `CyclesForEver` follows. No action with a `Fault` in it is fair: failures
are never owed, and there are finitely many. Nothing is assumed of setup, of the
commands of U or of Telegram, so the liveness properties end in "or the gate is
closed".

## 4. Proofs

Each theorem holds for every set of dialogs, every setting and every value of the
bounds, which the proofs never use except where it is said. They use the
assumptions on the constants (`ServiceAssumption`, `InboundAssumption`,
`MailboxAssumption`, `RetentionAssumption`, `LoopAssumption`,
`AddressingAssumption`, `ComposerAssumption`, `ReplyTextAssumption`); the runs
evaluate them. Every invariant, action property and refinement of a passing run
is the statement of a theorem, but for `RenderedRight`.

**Hypotheses.** Some theorems hold under a condition on the behaviour, each of
them one that the code does not enforce:

| hypothesis | says | who sees to it, and what happens without it |
|---|---|---|
| `BacklogFits` | no dialog has more waiting messages than `FetchLimit` | the operator, by the limit and the interval; the run `fetch_limit` violates `NoMessageSkipped` without it |
| `NoneRefused` | no message is one that `send` refuses for good (552, 554) | the operator, by an `EMAIL_SIZE_LIMIT_BYTES` the server takes; without it the parts before the refused one go out at each restart, and no fault pays for them (`orchestrator.py:64`) |
| `ConsumedFits` | no more consume markers than `MaxConsumed` | the operator, by the limit (50000 by default, `config.py:56`); the run `consumed_cut` violates `ConsumedStaysConsumed` without it |
| `EchoFits` | no more echo markers than `MaxEcho` | the same (10000): a marker cut by count may be of any age, so a post may be mailed back at once |

For the second, `CopiesCostFaultsUnrefused` shows how it is met, for the last two
`LimitsThatTakeTheInbox`. For the first there is no such theorem: no limit is large
enough for every backlog.

**Inbound (`Inbound_proofs`)**

* `InboundTypes`: the type invariant. It is not inductive, because the commit
  writes the dialog in hand into the ledger; `InHand` says that there is one at the
  points where a batch is in hand.
* `NothingSkippedWhileBacklogFits`: `NoMessageSkipped` holds in every behaviour in
  which no dialog ever holds more waiting messages than `FetchLimit`, for any set
  of dialogs and any number of messages, failures and restarts. With the run
  `fetch_limit` this says that the limit is the only way to lose a message in this
  cycle. The inductive invariant adds `CursorInDialog` (a cursor never passes the
  last message, so an arriving message is never below it) and `BatchKept`: between
  fetch and commit all that is owed below the watermark is in the batch, and what
  has left it is in a mail whose Message-ID the commit will write. The fetch
  establishes it (`SelectTakesOwed`, where the backlog must fit), an arrival does
  not disturb it (`OtherStepKeepsBatch`), each part keeps it, and the commit uses it.
* `InvalidSessionIsQuiet`: while the store says the session is invalid the process
  is nowhere in the inbound cycle.
* `Chronological` (`LedgerChronological`): of two mails in the ledger the later
  has the later messages. The invariant says that the Message-IDs of a batch are
  newer than all in the ledger (`MidsFresh`), that its parts go out in order
  (`PartsOrdered`), and that what the ledger has lies at or below the cursor, what a
  batch holds above it (`LedgerBelowCursor`). This needs no bound on the backlog.
* `CycleImplementsDelivery` (`ImplementsDelivery`), where `BacklogFits`: the
  refinement. The mapping takes the cursor for `upto` and the messages in ledgered
  mails for `got`. While each backlog fits a fetch the batch in hand is exactly what
  is wanted of the run of messages its commit will take (`BatchExact`), so `Commit`
  is `Take`; a fetch that selects nothing is a `Take` of nothing, the tail bootstrap
  is `StartAfter`, an arrival `Arrive`, and every other step a stutter, because a
  mail that is not in the ledger delivers nothing (`GotFramed`).
* `CopiesCostFaults` (`CopiesNeedFaults`), where `NoneRefused`. The bound as it
  stands is not inductive: a second copy goes out long after the failure that
  allows it. `CopiesCounted` says who may still be sent: a message that the cursor
  has not passed, and that is not in a part just sent (`InSentPart`), has a copy
  less to its name. A send uses that copy up, a commit passes the message, and
  every way out of a batch between the two is a `Fault`. A part that is composed
  holds no message sent before in the batch (`OrderInv`).
* `InboundSessionNoticesCostFaults` (`SessionNoticesNeedFaults`): `NoticesCounted`
  says the same of the session notice: unless the last one is being recorded, or is
  marked in the store, or the session is good (`SessionTold`), one notice less than
  the bound has gone out. `HandlerStands` ties the points of the handler to the row
  of `session_health` it read.

**Mailbox (`Mailbox_proofs`, `MailboxSafety_proofs`)**

* `MailboxTypes`: the type invariant. `MailInHand` adds which mail the process has
  in hand at which point (the mail whose post is to be committed is a reply with a
  ledger row, so its dialog exists; the notice to be deleted is one of those to
  flush), and `ConsumedInInbox` that no mail is consumed before it arrives.
* `RepliesPosted` (`ConsumedMeansPosted`) and `StrangersIgnored`
  (`OnlyTrustedMailActs`): the inductive invariant `Accounted` adds that each
  ledger row stands for a mail in U's mailbox (`LedgerMailed`), and that between the
  post and `commit_reply` the post exists under the id and the dialog that will be
  committed (`PostInHand`). The first is why the dialog of a post is that of the
  mail U answered, the second why the consume marker implies the post.
* `CommandsInOrder` (`LastCommandRules`): the inbox is read whole at each poll, so
  the danger is a command that was passed over and is applied by a later poll over a
  newer one. A command is passed over only when the mail it answers is not in the
  books. The invariant `Ordered` says that this mail is `Lost`: it went out under a
  Message-ID that is already minted, and only the Message-ID minted last, between
  the send and its record, can still come into the books. What is lost stays lost
  (`SettledForGood`), so every command before an applied one is settled, and the
  next one to apply comes after all of them (`ApplyOrders`).
* `PostsCostFaults` (`PostsNeedFaults`): `PostsCounted` says that a reply which is
  neither consumed nor the one whose post is in hand has been posted at most as
  often as there were faults. `PostReply` takes it in hand, `CommitReply` consumes
  it, and whatever comes between is a fault.
* `ConfirmationsHold` (`ConfirmationsTrue`): `NoticesTrue` says that a confirmation,
  pending or sent, is about a consumed command and says what that command did,
  `JustApplied` that the one about to be queued is not pending and was never sent,
  `ConfirmationsCounted` that U has got a copy less than the bound as long as one
  waits in `pending_notice` and is not the one in hand between send and deletion.
* `SessionNoticesCostFaults`: as for the inbound cycle.
* `MailboxImplementsAnswers` (`ImplementsAnswers`): the refinement, with no
  condition on the behaviour. The proof first says what a step does, whatever
  action it is: it delivers, tells, obeys, says, settles, lets the world write, or
  none of these (`Deeds`), and then that each deed is the step of `Answers` of that
  name. A Message-ID that goes out is new in U's mailbox (`MidsMinted`,
  `NoticesSent`), so each delivery is a letter of its own. `Obey` asks for the order
  of arrival, which is `Ordered` seen from the command that acts
  (`CommandsComeLater`). `Say` asks that the reply's dialog is that of the letter
  it answers (`LedgerMailed`) and that the id of the post is free (`PostsStand`: a
  post lies within its chat). `Settle`
  asks that what counts as acted on has been said (`PostInHand`). A confirmation
  tells what its command did (`NoticesTrue`).

**The whole bridge (`Bridge_proofs`)**

Each step of the bridge is a step of one cycle that leaves the locals of the other
alone (`AsInbound`, `AsMailbox` and the lemmas around them), so the invariants of
the parts carry over where the steps of the other cycle respect them: a post adds
to a chat and to the echo markers, a command closes the gate, a commit adds to the
ledger.

* `BridgeTypes`, `BridgeSkipsNothing` (while each backlog fits), `BridgeRepliesPosted`,
  `BridgeStrangersIgnored`, `BridgeCommandsInOrder`: the theorems of the parts, for
  the whole. For the command order the inbound cycle must not let a Message-ID that
  was given up come into the ledger: outside a batch nothing is sent but not yet
  recorded (`SentInHand`), and no command that answers a part just sent was passed
  over for a later one (`UnsentBefore`).
* `OwnPostsStayOut` (`OwnPostsNotMailed`): no marked post is mailed to U. It needs
  the cycles to take turns: the post a reply is about to
  be committed with is in its dialog and in no mail yet (`PostFresh`), a batch in hand holds no marked post (`BatchNoEcho`), and
  no fetch falls between a post and its marker.
* `BridgeChronological`, `BridgePostsCostFaults`, `BridgeConfirmationsHold`,
  `BridgeSessionNoticesCostFaults`, `BridgeCopiesCostFaults`: the remaining
  properties of the parts. The mailbox cycle mints Message-IDs too, which leaves
  those of a batch newer than the ledger (`BridgeOrders`); it starts only where no
  batch is in hand (`MailboxTurnFrom`), so the counts are not disturbed.
* `BridgeImplementsDelivery` (`ImplementsDelivery`), where `BacklogFits`: the whole
  bridge refines `Delivery`. A post is an `Arrive` of a wanted message, since it may
  lose its marker to a crash, and `CommitPost` is the `Withdraw` of it. `Withdraw`
  asks that the message is not taken yet; this is `PostAhead`, which holds because
  the two are one turn of the mailbox cycle and the cursor stands below the post.
* `BridgeImplementsAnswers` (`ImplementsAnswers`), with no condition: the inbound
  cycle adds the delivery of one part, which is a letter of its own, while the
  bridge is on, because the gate that was read at the start of the cycle is still
  open (`GateOpen`). A batch that fails later takes no letter back.
* `GateHolds` (`NothingCrossesClosedGate`): the inbound cycle reads the gate once;
  nothing can close it before the cycle ends (`GateOpen`).

**The purge (`Retention_proofs`)**

* `RetentionTypes`: each row that is there has a time, and none is in the future.
* `PurgeRevives` and `ConsumedOnlyOnce` (`PurgeRevivesNothing`,
  `ConsumedStaysConsumed`), where `ConsumedFits`. A row of the books (ledger or
  notices) and a consume marker have one age to live, so it is enough that the marker
  is written no earlier than the row it depends on (`MarkersInv`). That is not
  enough for a row written after the marker: a mail that left the books must not
  come back into them. `BooksInv` says that a Message-ID enters the books once,
  while it is `Fresh` (not minted yet, or minted by the send in hand); a purge
  makes none fresh.
* `AnswersOutlivePurges` (`AnswersKeptForEver`), where `ConsumedFits`: the promise
  of `Answers`, with "acted on" for ever. `ConsumedMeansPosted`,
  `OnlyTrustedMailActs` and `LastCommandRules` speak of markers and books that are
  there, and a purge may take the row that makes them true; what they are for is
  here. The danger is an older command that was passed over: after a purge it must
  not act in a place that a newer one has taken. `EverOrder` says that such a command
  answers a mail that is `Gone`: in no book, and never to be in one, since a
  Message-ID enters the books once (`BooksInv`). The lemma
  `InHandIsNew` has the rest: a mail about to act was never acted on, since by
  `PurgeRevives` it would have its marker still or no parent in the books.
  `EverTold` is `NoticesTrue` with the markers that ever were.
* `RepostsCostFaultsForEver` (`PostsNeedFaults`), where `ConsumedFits`: `EverCounted`
  is `PostsCounted` with the markers that ever were.
* `RetentionGateHolds` (`NothingCrossesClosedGate`): a purge needs the lock, so it
  never comes between the reading of the gate and the end of the cycle.
* `EchoWindowHolds` (`EchoWindow`), where `EchoFits`: a marker that was written is
  there or is older than `EchoAge` (`EchoKept`), and while it is there the post is
  in no mail (`Apart`, from `OwnPostsStayOut`). A row that is written again takes its
  new time.
* `LimitsThatTakeTheInbox`: with limits no smaller than `MaxInbox` both hypotheses
  hold in every behaviour, and with them all of the above. Each consume marker is a mail of the INBOX; each echo
  marker comes with the first consumption of a reply (`EchoesCounted`), which by
  `PurgeRevives` is its only one.

**The run loop (`RunLoop_proofs`)**

* `LoopTypes`, `CyclesOnTime` (`TimersOnTime`), `ProcessEndsSoon` (`EndsSoon`), for
  every pair of intervals, all bounds of the backoff, every duration of the calls.
  `ClockInv` bounds, at each point of a turn, how much of the turn may have passed
  and what each timer can then be.
* `NoEarlyRetry` (`GatedCallsWait`): a scope that is still owed rest has a row whose
  delay covers it, so that `_due` is false (`RowsCover`). It is about the scopes that
  `_due` is asked for; the run `early_retry` shows that it is false of the others.
* `NoLateRetry` (`WaitsNoLonger`): the count in the row is the number of failures
  since the scope last succeeded, and what is left of the row's delay is covered by
  what the scope may still wait (`RowsCount`, `RowsEnd`). The count survives
  restarts, and each success of a listing, a dialog or a poll clears it. A post that
  succeeds does not.

**The algorithms (`Algorithms_proofs`)**

* `GateByTable` (`GateFollowsTable`), `WhitelistHolds` (`UnderstoodDelivered`): for
  any set of peers, topics, senders and configurations. The second is not about all
  that may be configured: a source counts as understood when it is the username of
  a chat or the very number that `_dialog` makes of its place (`Understood`). The
  proof shows that its place is then listed, is found again by the fetch (no basic
  group is), and is known to the gate under that string. The other half,
  `NotUnderstoodDropped`: any other source, with nothing else on the lists, is either
  not polled or not recognised.
* `Composition` (`ComposedRight`): for every measure of size, limit, threshold and
  batch. The groups always partition the batch in order, and the drafts are those of
  the groups before the one in hand, each measured as the part it is; halving keeps
  the partition, and since a split starts the drafts anew, all are measured with one
  number of parts. Files above the threshold are never in a mail; any other medium
  is left out only of a message that does not fit alone.
* `OwnTextOnly` (`OwnTextKept`): for documents of any depth and length. The counter
  of the parser is the number of open elements of the quote's tag from the
  outermost quote on, so it falls to zero where that quote ends; the text kept is
  then the text outside the quotes, with its line breaks, and the cut falls at the
  first line that starts a tail. A quote adds no break of its own.

**Model-checked only.**

* Liveness (`EventuallyDelivered`, `RepliesEventuallyPosted`,
  `CommandsEventuallyApplied`, `NoticesEventuallySent`, `CyclesForEver`,
  `StopEnds`): it follows from fairness through ENABLED, which the prover does not
  reason about.
* `RenderedRight`: that the HTML is well nested is a recursion over the output, and
  what a recursive definition computes for every input needs an induction over
  data, which is out of the prover's reach.

## 5. Where documents and code differ, beside the runs

The modules follow the code in each of these.

* In tail mode a dialog that was polled while it was empty keeps the cursor 0, the
  sign of a dialog never seen, and its first message is passed as history
  (`orchestrator.py:44-46`). `README.md:20-21` has the bootstrap record "the currently
  visible tail", which was empty. `NoMessageSkipped` (by `base`) and `Delivery` (by
  `StartAfter`) count what the bootstrap passes as history, so they hold all the same.
* A command with a wrong token is no command to `parse_command` (`commands.py:25`), so
  the mail takes the path of a reply and is posted; `DESIGN.md:164` has it rejected.
  In `Mailbox` it is the kind `wrongToken`, and `Wish` counts it as something said.
* A basic group has the peer ID `-<id>` and gets the dialog_id `-100<id>`
  (`telegram.py:56`), by which it is neither found (`telegram.py:59`) nor recognised
  (`algorithms.py:20-23`); a channel by its bare id is polled and not recognised.
  `README.md:18-19` lists "numeric peer IDs" as sources.
* The same lines list `peer:topic`. With the username of the peer such a source is
  polled and not recognised (`algorithms.py:21-22`); with all chats discovered,
  topics are not polled at all (`telegram.py:41-45`).
* Under `MENTION_POLICY=forced_list` `is_addressed` asks for no mention
  (`algorithms.py:28`); the decision table does under every policy
  (`alg-addressing-gate.md:43-45`).
* A post that succeeds does not clear the row of its scope (`orchestrator.py:95-97`;
  `DESIGN.md:170` says that success resets the scope), so a later failure waits
  longer than the first.
* Files above the threshold are left out of every mail (`mail_out.py:58`). Beyond
  that `compose_batch` splits first, and then leaves out all the media of one
  message that is too large alone; `DESIGN.md:146` and `alg-oversize-degrade.md` leave
  out the largest files before they split.
* `_Text` returns at a quote before it reaches the line break of block tags
  (`mail_in.py:31-37`), so the text before a `blockquote` and the text after it are one
  line, although its comment (`mail_in.py:23-24`) is about keeping quoted tails on
  lines of their own.
* Retention runs by the command `purge` only; `DESIGN.md:134` has it run after each
  successful cycle.

## 6. Not modelled

`build_deeplink`, the pattern of a command line, MIME building and decoding, white
space in a reply, the normalisation of Telethon objects, overlapping dialogs (a
group and one of its topics both tracked), a new UIDVALIDITY, the lock protocol
itself, the reading of the environment, logging and the sent-copy archive.
`PROJECT.json` gives the reason for each component; hazards without a property
say why.

## 7. Plan

1. *Done:* store, process, both cycles, their composition, the abstract `Delivery`
   and `Answers` with their refinements by cycle, bridge and (`Answers`) retention,
   the run loop with its time, the algorithms that stand alone; the safety
   properties of all of them proved.
2. Overlapping dialogs: a group and one of its topics both tracked, where the echo
   marker of a post in the topic does not stand for the message of the group.
3. `ImplementsDelivery` for `Retention`: a purge of the ledger takes messages out of
   what counts as delivered, so the mapping needs the rows that ever were, as
   `EverAnswered` has them.
