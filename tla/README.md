# Fidus Writer in TLA+

Fidus Writer is an editor in which several people write one document at the
same time: a Django/Channels server in Python, an editor on ProseMirror in the
browser.  This directory models the parts of it in which the order of events
decides whether text is lost, doubled or different on two screens, checks them
with TLC, and proves what can be proved with TLAPS.

Paths below are relative to `src/fiduswriter/`.

## 1. The system

### 1.1 Parts

| Part | State it keeps | Operations | What makes it hard | What makes it correct | Model |
|---|---|---|---|---|---|
| Message channel: `base/base_consumer.py`, `common/ws.js` | two counters and the last ten messages on each side | send, receive, resend, reject, ask for a resend | both sides send at once; messages may get lost; lists of ten entries | messages are received in order, once; a rejected one never takes effect | `WsChannel` |
| Document session: `document/consumers.py`, `document/helpers/document_store.py`, `document/models.py` | `runtime_sessions`: the document, its tree, its last diffs, participants; the database row | subscribe, diff, save (two backends), disconnect, shutdown | every database call is an `await` at which other handlers run; writes queue in one thread; a handler may raise half way | no confirmed diff is lost; the row is a state of the document; one session per document | `DocSession` |
| Collaboration: `document/consumers.py`, `editor/collab/doc.js`, `editor/collab/merge`, `editor/index.js` | version, confirmed text, pending steps, unconfirmed diffs, half a dozen flags and timers in each browser | type, send, confirm, reject, resend, check the version, reconnect, refetch, merge | timers race answers; connections are lost between accepting and confirming; the refetch goes over another channel and its answer may come late | all copies agree; nothing typed is lost or doubled; it arrives | `Collab` |
| Direct save: `editor/no_collab_save`, `document/views.py` | a save promise, the version and time last saved; the row | open, save every ten seconds, when the page is left, when the editor is closed | answers are lost; pages are left while a save runs; two pages at once, requests served in parallel | nobody overwrites somebody else's text; what counts as saved is saved | `DirectSave` |
| Encrypted documents: `editor/e2ee`, `editor/collab/doc.js`, `document/consumers.py` | content under a key, its version, diffs since; in the browser three copies of the key and what is being encrypted | diff, snapshot, request of a snapshot, change of password, load | encryption and loading are asynchronous: what is encrypted, what is shown and what is current differ | what is stored can be read with one key; content plus diffs are the current text | `E2ee` |
| Comments: `document/helpers/comment_filter.py`, `editor/comments/store.js`, `document/consumers.py` | comments on the server and in each browser, updates not sent yet | add, change, delete, answer, filter per role | two people act on one comment; an update fails half way on the server | each update takes effect once; browsers show what the server has; a reviewer his own | `Comments` |
| Rights and share tokens: `document/helpers/session_user_info.py`, `document/helpers/token_access.py` | rights of a connection, rights in the database | grant, withdraw, refresh | lookups before a message is handled | messages are handled under the rights of then | not modelled |
| Images: `usermedia`, `document_store.update_document_images` | links from documents and users to images | add, remove, delete when unused | two documents at once | an image in use is not deleted | not modelled |
| Participants, chat, selections | `participants` of the session | join, leave, say | broadcasts in the background | no effect on the document | participants only |
| Documents over REST, revisions, bibliography, users, templates, system messages | database rows | single requests | little: each is one short request | | not modelled |
| Editor functions, importers, exporters, commands | none | pure functions | size, not order | | not modelled |

`PROJECT.json` lists the same parts with their files (`components`) and every
hazard with its line (`hazards`).

### 1.2 How they interact

- A browser opens a WebSocket.  Every message both ways goes through the
  **channel**, which numbers it.  The server handles a message only if its
  sender had seen everything the server has said (`receive()` in
  `base_consumer.py`).  `WsChannel` says nothing about what the messages mean.
- `subscribe`, `diff` and `check_version` reach the **document consumer**, which
  changes the shared session and broadcasts to the other participants.
  `DocSession` has this from the server's side, down to each `await`, with one
  document and no browsers.
- The browsers answer what they are told with flags and timers.  `Collab` has
  both sides with the real messages; it takes from `WsChannel` that messages are
  in order and that a crossing message is rejected (a diff) or dropped (all
  else), and it takes the session as open and a handler as one step (the
  overlaps of handlers are `DocSession`'s question).
- A browser that is too far behind fetches the row over REST
  (`get_doc_data`), beside the WebSocket: `FetchServe` and `FetchReceive` in
  `Collab`; that the row and the stored diffs fit together is `RowIsAState` in
  `DocSession`.
- **Comments** travel in the same diffs as text.  `Collab` has the exchange of
  diffs with all of its timers; `Comments` has what a diff does to comments on
  either side, and only the timers it needs.
- An **encrypted** document uses the same messages, but the server cannot apply
  a diff: it stores them, and now and then asks a browser for the whole text.
  `E2ee` takes the exchange of diffs from `Collab`, without the merge (an
  encrypted document is loaded again instead) and with the awaits of encryption.
- With `EDITOR_SAVE_MODE = "direct"` there is no WebSocket, and `DirectSave`
  stands for itself.

## 2. The modules

| Module | What it is |
|---|---|
| `OrderedFeed` | abstract: the server says things and the client hears them once each, in that order, until a reset |
| `WsChannel` | the two ends of one connection |
| `WsChannel_proofs` | type correctness, order and uniqueness of the channel, and that it implements `OrderedFeed` |
| `DocSession` | the life of one document on the server |
| `DocSession_proofs` | type correctness and what may be left over; until a race one copy, a true row, nothing lost |
| `SharedText` | abstract: one text that only grows, and readers with a beginning of it, who may lose track |
| `Collab` | server and browsers: versions, diffs, timers, reconnects, refetch |
| `Concatenation` | facts about concatenated lists, beginnings of lists and folds, for proofs |
| `Collab_proofs` | the copies agree, nothing typed is dropped, nothing is taken twice unless the news of acceptance is lost; implements `SharedText` |
| `DirectSave` | pages that save over REST, and the row |
| `DirectSave_proofs` | type correctness; until two saves cross nothing is overwritten, and what counts as saved is saved |
| `E2ee` | server and browsers of an encrypted document |
| `E2ee_proofs` | type correctness; what is stored can be read; content and diffs reach the current version |
| `Comments` | comments on the server and in the browsers |
| `Comments_proofs` | type correctness, and that each update is accounted for |
| `CommentsShown_proofs` | browsers that are up to date show the comments as the server has them |
| `MCWsChannel`, `MCDocSession`, `MCCollab`, `MCDirectSave`, `MCE2ee`, `MCComments` | instances for TLC |

A definition whose comment begins with *Fault:* is a plausible mistake in the
definition below it (a dropped test, an index off by one, a missing reset).  No
specification uses it; `PROJECT.json` (`mutants`) names, for every property of
every passing run, a fault that the property detects.

Where the code lets a race happen that breaks what one would like to claim, the
model lets it happen, too, and a *history variable* records it (`raced`, `late`
and `strayed`, `unheard`, `crossed`, `mixed`, `overtaken`, `tally`).  It guards
no action.  A property then says what holds until the race, or for whom it still
holds after it; section 6 says what the race breaks.

### 2.1 WsChannel

`cServer`, `cClient`, `cTen` are `messages.server`, `.client`, `.lastTen` of
`WebSocketConnector`; `sServer`, `sClient`, `sTen` the entries of
`self.messages` of the consumer.  `up` and `down` are the socket.  The five
`Server…` actions are the branches of `receive()` in their order: answering a
`request_resend`, ignoring a repetition, a gap, simultaneous messages, and the
normal case.  The `Client…` actions are the branches of `onmessage()`.  `Slice`
is Python's `[0 - n :]` with all of its special cases, as `n` may be zero or
negative here.  `log`, `delivered`, `handled`, `rejected` and `overrun` record
what happened and guard nothing.

A counter of the server can be set back when more messages are asked for than
`last_ten` holds (`resend_messages()` subtracts before it tests, then calls
`unfixable()`).  From then on numbers mean something else; the properties say
`~overrun`, see section 6.

### 2.2 DocSession

All consumers run in one event loop, so an action is the code from one `await`
to the next, and `phase[c]` says at which `await` connection `c` is:
`reading` (the row, in `subscribe`), `checked` (rights, in `handle_message`),
`applied` (title, comments, images, in `handle_diff`), `queued` and `saved`
(before and after the write of a save), `cleanup` (between save and removal in
`disconnect`).  `Free(c)` says whose turn it may be.  `Suspends` is the set of
awaits at which other handlers are allowed in: with all of them the model has
every overlap that the event loop allows; with some of them it isolates the
effect of the others.  (`sync_to_async` runs database calls one after the other
in a single thread: `writes` is its queue.)

`db` is the row, `sessions` every session object made, `registry` the one in
`runtime_sessions`.  A session that was removed can still be held by a handler
(`mine[c]`), which is what several of the hazards are about.  `gone` says that
`disconnect()` has deleted `node` and `doc.diffs` from it.

`SaveBegin` and `SaveWrite` are the two halves of a save.  With the python
backend the text is put into the shared object first and the write takes all
fields of the object *when it runs*; with the rust backend (`Rust`) text,
version and diffs are fixed first and only the comments come from the object.

A text is the sequence of the diffs in it, a diff is its number in the order of
acceptance, and its kind says whether it has steps, comments/bibliography, those
and a title (which adds an `await` in between), or is `broken`: it updates a
comment or reference that is gone, and `update_comments()` or
`update_bibliography()` raises a `KeyError` (`consumers.py:569-617`).  A diff
with steps may come with such updates.  `DiffRaise` is that path: the version
was raised and the diff is in the history, nobody is told, and the consumer ends
without `disconnect()`, so that its entry stays in `participants` (`ghost`) and
keeps the session.

`raced` records four races, each a comparison at the action where it bites:

1. `OpensLate`: a session is made from a row that has changed since it was read,
   or while the session before it is still being saved or taken away;
2. a diff is accepted during a save (`DiffApply`);
3. `NotesLate`: comments that waited for the title come during a save or after
   it;
4. `SavesOldText`: the rust backend saves `doc.content`, which it does not keep
   up to date.

### 2.3 Collab

For each browser: `ver` and `text` (what is confirmed), `pend`
(`sendableSteps()`), `unconf` (`unconfirmedDiffs`), the flags `await`
(`awaitingDiffResponse`), `checking` (`currentlyCheckingVersion`), `waiting`
(`waitingForDocument`), `resub` (`resubScribed`), and the two timers: `timer`
is the one `sendNextDiffTimer` refers to, `older` one that was started before it
and that nobody can clear any more.  `log` is the list of accepted diffs, so
`doc.version` is its length; of it the last `History` can be sent again.

A step is an indivisible value and rebasing puts remote steps before pending
ones, which is what ProseMirror's `receiveTransaction` does with them.  A
missing message is not part of this model, a lost connection is: both directions
are emptied and the next connection starts with new counters.

`ReceiveX` is one case of `receiveData()`; `ServerReceive` is the consumer's
`receive()` up to `handle_message()`; `FetchMerge`, `FetchDiffs` and
`FetchReset` are the branches of `adjustDocument()`.  While a refetch is under
way everything goes on: the handlers of messages are not serialized
(`editor/index.js:498-514` waits for no promise), so that messages are read,
diffs sent and connections made between the request and its answer, and the
answer is used whenever it comes.  Three histories record what follows: `late[c]`
that `c` received, sent or connected while its refetch was under way, `strayed`
the browsers that then used the answer, and `unheard` that a connection was lost
between the acceptance of a diff and the arrival of that news.  For a browser
that is not late the answer always has a row that covers what it lacks and its
own diffs (proved, `FetchLoads`); `FetchDiffs`, which applies the diffs that come
with the row instead, is taken by late ones only.  A second `refetch_doc` is read
when the first is answered (*Bound* there).

### 2.4 DirectSave

A page is an editor that was opened once: `text` what it shows, `ver`
`docInfo.version`, `dirty` `_hasUnsavedChanges()`.  It has up to three requests:
that of the interval or of `close()`, which `savePromise` guards, that of
`beforeunload` and that of `pagehide`, which nothing guards.  On the server a
request is a query with a comparison (`ServerCheck`) and a save (`ServerSave`);
the requests of all pages are served in parallel, without a transaction or a
lock, so that any number of them may be in between.  `crossed` records that a
save was made between the query and the save of another (`Crosses`).  An answer
other than 2xx is an exception in the browser (`postJson()`), so a conflict and a
lost answer are the same for the page, and `_handleVersionConflict()` is never
called.  `late` records what was typed while a save was under way that counts as
having saved everything.

### 2.5 E2ee

An *epoch* is a salt and the key made of it.  `doc` is the stored content with
the epoch of the salt, the key the content is encrypted with, and the version it
stands for; `log` has all accepted diffs, of which `kept` are still stored.  A
browser has the key in three places (`key`, `salt`, `skey`), since the code does,
and `asked` is the epoch of a change of password that waits for its answer.

`sending`, `dec`, `snap` and `change` hold what a browser has read before an
await and uses after it: diffs being encrypted, diffs being decrypted, a
snapshot, a change of password; `load` the document being loaded.  `Awaits` says
during which of these the browser may do something else, and `"rekeying"` stands
for the await in `_apply_rekey()` on the server; as with `Suspends` of
`DocSession`, this isolates the effect of each.  A message is `late` when it
crosses one of the server, and is then rejected or dropped (`WsChannel`).

Loading takes four steps, with everything else in between:

- `LoadBegin`: `loadDocument()` (`doc.js:122-164`) sends the diff that waits for
  an answer once more (`enableDiffSending()`; the copy is told apart by `again`),
  and puts in the new `docInfo` with its version; the old text is still shown;
- `LoadKeys`: the content has been decrypted (`doc.js:604-653`), and the three
  keys are put in;
- `LoadText`: the text is replaced (`doc.js:654-722`, `772-820`), and what was
  typed and not confirmed is gone;
- `LoadEnd`: after one more await the key is put in again (`doc.js:242-255`).

Meanwhile diffs that arrive count in the new version but go to the old text
(`Raise`), `_sendE2EEDiff()` raises a `TypeError` as there is no `confirmedDoc`
yet (`SendRaises`), and a snapshot or change of password under way goes on with
the `docInfo` it had (`info`).  A second `refetch_doc` is read when the document
fetched before has been loaded (*Bound* at `ReceiveRefetch`).

Four histories record what the code does not prevent.  `mixed`: a browser's keys
were replaced while it was encrypting, or are of two epochs.  `overtaken`: diffs
were accepted while a change of password was written, and no snapshot has come
since.  `tally[c]`: what the version of `c` counts from (the beginning, or the
content loaded last), `"off"` once it has counted a diff of the content that was
replaced or one out of its turn.  `gap[c]`: what the loaded content lacked of
its own version.

### 2.6 Comments

`copy[c]` is the store of a browser and `unsent[c]` its queue of updates, each
with the act it comes from; `com` and `listed` are `doc.comments` on the server
and which of them have a key `answers`.  `Entry` is one case of
`unsentEvents()`: an update is written with what the store holds when it is
sent, not when it was made.  `Applied` and `Received` are one update on the
server and in a browser; a diff is the fold of its updates, and `ok` becomes
FALSE where a `KeyError` ends the handler, with what was applied before it in
place.  `Shown` is `comment_filter.py` for those who see only their own.  `done`
and `failed` record what people did and which diffs failed, and guard nothing
but the bound.

## 3. Runs

### 3.1 Passing

| Run | Question | Bounds |
|---|---|---|
| `ws_channel` | Whatever crosses or is lost: does the client hear everything in order and once (`InOrder`, `NumbersAreStable`, `RefinesFeed`), does a client message take effect at most once, in order, and never after a rejection (`HandledOnceInOrder`, `RejectedNeverHandled`), is a message handled only when its sender was up to date (`HandledAfterAllSeen`), and does every diff get an answer (`DiffsAreSettled`)? | 3 messages up, 2 down, 2 lost, at most 4 in flight when one is sent, `last_ten` of 2 |
| `doc_python` | With handlers overlapping while rights are read and while title, comments and images are stored, and handlers that raise: is no confirmed diff lost, is the row always a state of the document that its diffs lead up to, is there one copy, does a participant keep the session, does a session outlive its participants only where a handler raised (`NoLeftover`), is `last_saved_version` right, does every handler end? | 2 connections, 3 diffs (`steps`, `notes`, `broken`), 2 sessions, save at every 2nd version, history of 2, python backend |
| `doc_overlap` | With every overlap of handlers, the rust backend, and handlers that raise: `NoLeftover`, all of the above until a race (`SoundUnlessRaced`), and does every handler end? | 2 connections, 3 diffs (`steps`, `titled`, `broken`), 2 sessions, all five awaits |
| `collab` | Does what is typed arrive at the server (`Arrives`), whatever crosses and times out? | 2 browsers, 2 edits, 1 lost connection, 6 diffs per browser, history of 1, no early timer |
| `collab_late` | Do the copies agree (`Converged`), is nothing typed dropped, does each edit get in once (`OnceUnlessUnheard`), and do the browsers together implement `SharedText`? | 2 browsers, 2 edits, 1 lost connection, 1 timer that runs out while the answer is under way, 4 diffs per browser, history of 1, refetches answered at any time |
| `direct_save` | Is nobody's text overwritten, is what counts as saved in the row, and does what is typed get there? | 2 pages, 1 edit, 1 lost request or answer, 1 `beforeunload` after which the page stays, requests served in parallel |
| `e2ee` | Can everything stored be read with the key of the salt that is handed out (`Readable`), do content and diffs reach the current version (`DiffsCover`), does a browser have the edits of its version (`Complete`), and does what is typed get to everybody (`Settles`)? | 2 browsers, 2 edits, a snapshot at every 2nd version, 1 stored diff, one change of password, lost connection or timeout, all awaits but `"receiving"` |
| `comments` | Is every update sent once and in order, even if a diff fails half way on the server (`Accounted`), do browsers show what the server has (`SameComments`, `OwnComments`), does an update reach the server? | a writer and a reviewer with tracked changes, one comment, 3 things done |

Why these bounds are enough to be of interest.  *Channel*: three client messages
and two server messages give both sides a message to send before, while and
after the other repeats one; a list of 2 is shorter than what can be under way,
so that the overrun is reached as well; a resend of a resend occurs.
*Session*: two connections are needed for an overlap, and the effects are
pairwise; two sessions are a session and the one opened while it is saved; three
diffs with a history of 2 cut the history, and a save interval of 2 has diffs
before, at and after a save; each of the four races happens.  *Collab*: one edit
of each browser is a conflict, two of one browser are a pending edit behind an
unconfirmed one; a history of 1 makes one browser too old to catch up by diffs
and another not; one lost connection may fall between any two steps of either,
and is enough for a refetch whose browser goes on before the answer comes.
*Direct save*: a second page makes the first one outdated, a lost answer makes it
outdated by itself; all three requests of a page, and those of both pages, can
be under way at once, and one edit is enough to be overwritten, as the other
page's text lacks it.  *E2ee*: the second diff asks for a snapshot and cuts the
history, which holds one; the snapshot crosses a diff, a load or a change of
password.  The one event is a change of password, a lost connection or a change
given up too early; each but the last leads to a load, which has all its four
steps interleaved with everything else.  *Comments*: three acts are a comment,
its answer and what somebody else does to it; a deletion by both is the diff that
fails.

That the exceptions are not empty was checked the other way round: without them,
the properties that name a history variable are violated within these bounds
(section 6, which also names the three exceptions that need larger ones).

`CHECK_DEADLOCK FALSE` is set everywhere because the bounds (and people who stop
typing) bring every behaviour to an end.

### 3.2 Counterexamples (`expect: violation`)

Each refutes what the repository itself says (`findings` in `PROJECT.json` has
the quotations).

| Run | Property | What happens |
|---|---|---|
| `doc_save_race` | `NoLostEdit` | A diff is accepted while a save waits.  After the wait `last_saved_version` is set to the new version, so the next save is skipped: the diff was confirmed and is lost when the session closes. |
| `collab_twice` | `OnceOnly` | A diff is accepted, its `confirm_diff` is lost with the connection; after reconnecting the browser fetches a document that has the edit, and merges its "unsent" edit on top of it. |
| `e2ee_snapshot` | `SnapshotCovers` | The server asks for a snapshot before it passes on the diff that made it due.  The browser reads its text, receives the diff while it encrypts, and puts the new version on the old text. |
| `comments_answer` | `Arrives` | A commentator answers a comment.  The diff has no document steps, does not count as "only comments", and is dropped without a word; the browser sends it again for ever. |

### 3.3 Fairness

*WsChannel*: both `ServerReceive` and `ClientReceive` are weakly fair: TCP
delivers and both event loops run.  Sending and losing are not fair.

*DocSession*: `SF_vars(Continue(c))`: what a connection has started goes on.
asyncio keeps ready callbacks in a first-in-first-out queue, so a handler whose
await is over is run before those that got ready later.  The fairness is strong
because `Free(c)` and the turn in the queue of writes are taken away and given
back by other handlers; a first-in-first-out queue does not let the others pass
again and again.  Nobody is obliged to subscribe, send or leave.

*Collab*: weak fairness of sending, receiving, connecting (`setTimeout` of two
seconds in `ws.js`), of the refetch and of both timers.  Typing and losing a
connection are not fair.

*DirectSave*: weak fairness of the interval, of the server and of answers that
come.  Opening, leaving and losing are not fair.

*E2ee*: as `Collab`, and of the ends of encryption and decryption.  The timeout
of a change of password is fair only when nothing is under way.  Loading goes on
(`WF` of its four steps together): each waits for a promise that is fulfilled.

*Comments*: weak fairness of sending, its timer, receiving and reconnecting.

## 4. What is proved

| Theorem | Statement | Assumes of the constants |
|---|---|---|
| `WsChannel_proofs!TypeCorrect` | `Spec => []TypeOK`: counters never get negative, lists never get longer than `Keep` | types |
| `WsChannel_proofs!HeardInOrder`, `StableNumbers`, `HandledOnce`, `RejectedIsDead`, `SenderWasCurrent` | `InOrder`, `NumbersAreStable`, `HandledOnceInOrder`, `RejectedNeverHandled`, `HandledAfterAllSeen` | types |
| `WsChannel_proofs!ImplementsFeed` | `Spec => RefinesFeed`: the channel implements `OrderedFeed` | types |
| `DocSession_proofs!TypeCorrect`, `NothingLeftOver` | `TypeOK`; when all have left, a session that is still registered is one whose handler raised (`NoLeftover`) | types |
| `DocSession_proofs!SoundUntilRaced` | `SoundUnlessRaced`: until one of the four races, `SessionStays`, `OneCopy`, `SavedIsInDb`, `RowIsAState` and `NoLostEdit` | types |
| `DirectSave_proofs!TypeCorrect`, `KeepsText`, `SavedIsStored` | `TypeOK`, `NothingOverwritten`, `AckedIsStored`, with requests served in parallel, until two saves cross | types |
| `Collab_proofs!TypeCorrect`, `CopiesConverge`, `KeepsWhatIsTyped` | `TypeOK`, `Converged`, `NothingDropped` | types |
| `Collab_proofs!ImplementsShared` | `Spec => RefinesShared`: the browsers together implement `SharedText` | types |
| `Collab_proofs!TakenOnce` | `OnceUnlessUnheard` | types |
| `E2ee_proofs!AlwaysReadable` | `Readable`: until a browser has had two epochs at once | types |
| `E2ee_proofs!AlwaysCovered` | `DiffsCover`: as far as the history reaches, until diffs are accepted while a change of password is written | types |
| `E2ee_proofs!TypeCorrect` | `TypeOK`, with each crossing message marked | types |
| `Comments_proofs!TypeCorrect`, `EachAccounted` | `TypeOK`, `Accounted` | types |
| `CommentsShown_proofs!ShownAlike`, `OwnShownAlike` | `SameComments`, `OwnComments`: a browser at the server's version shows each comment as the server has it | types |

They hold for every number of connections, browsers, pages, messages, diffs and
edits, for every length of the lists and histories, every set of awaits, both
backends, and every bound.  "Types" are the named assumptions of the modules
(`KeepAssumption`, `BoundAssumption`, ...), which TLC evaluates in each run; no
theorem assumes more.  Where the code lets a race break a property, the property
itself says until when it holds, and the proof shows that nothing else breaks it.

**`NothingLeftOver`.**  `NoLeftover` is not inductive: a save that was begun by
a leaving connection ends in a removal only because the session is still the one
registered, or a newer one that has somebody of its own.  `IInv` says what is
needed:

- `Placed`: who is past subscribing has a session, and who has an applied diff
  holds it in its job;
- `Saving`: a save under way is of a session at least as new as the handler's;
- `Newest`: the registered session is the last one made, and it was not taken
  away;
- `Present`: its participants are connections that are in it;
- `Held`: a registered session has participants, or one is listed whose handler
  raised (`ghost`), or somebody is on the way to remove it (`Leaving`: in a save
  of it that ends in the clean-up, or there).

`Held` is the heart: in every step that takes the last participant out of the
registered session, that connection enters the way to the clean-up
(`Disconnect`), and a connection can leave that way without a removal only by a
save that fails (`SaveFail`), which needs a session that is gone and therefore,
by `Newest` and `Saving`, not the registered one.  Then all connections out
means no participants (`Present`) and nobody on the way, hence no registered
session but one with a ghost.  `DiffRaise` is the step that makes one: the
consumer leaves without being on the way to the clean-up.  The proof has one
lemma per action.

**`SoundUntilRaced`.**  Every overlap is allowed here, and each race is one
comparison in one action; what has to be shown is that until one of them comes
true, what a handler has read before an await still fits after it.  `KInv` says
that, in three parts:

- `AllFit`: each connection's session is the registered one; who takes it away
  finds no participants; a save holds the version of now and, with the rust
  backend, the text of now (`Holds`), and after the write the row has it;
- `OneTaker`: only one takes the session away, since only the last participant
  enters that way and a later one would be a race (`OpensLate`);
- `Copies`: the copy in memory has every accepted diff, with exactly the last
  `History` of them stored, and its text differs from the row only while
  `updates` is set (`Memory`); the row is a state of the document
  (`RowIsAState`); `lastSaved` is the version of the row unless a save is about
  to set it (`Marked`); without a copy in memory the row has everything
  (`Closed`); confirmed comments are in the copy or in the row (`Noted`), and in
  a row of the current version unless it is about to be written (`RowNotes`).

`Lined` says that who waits for a write is in the queue of writes, and holds with
races, too.  Until a race `SaveFail` and `DiffFail` do not occur at all
(`SaveFailNever`, `DiffFailNever`).  The lemmas before are about sequences: that
a text stays a text of the diffs when one more is accepted (`Older`, `NextText`),
and that `LastOf` keeps a history a history (`NextHistory`).

**`WsChannel_proofs`.**  `Slice` may return a whole list for zero, and after
a resend `last_ten` holds messages twice.  What saves the order is that nobody
asks for more than what is right: `EndsLog(x)` says that the kept list agrees
with the log as far back as message `x`, and it holds for what the client has
(`Counters`) and for every number that is on its way up (`UpAll`), which only
grow along the queue (`UpOrder`).  `ClientKept` and `DownAll` say the like of
the client's own messages; `Fates` that no number was both rejected and
handled.  All of it is claimed until an overrun (section 2.1).  The refinement
maps `said` to `log`, `heard` to `delivered` and `reset` to `overrun`; every step
of the channel is one of `OrderedFeed` or a stutter.

**`Collab_proofs`.**  Both ends of every connection keep an opinion of where the
other is, and every message under way is about a version.  `IInv` says for each
browser what these opinions have to do with each other:

- `Linked`: what has been said on a connection was received or is under way;
- `Fresh`: a message to the server that was sent since the browser last received
  something is about the version it still has, and a diff in it is a beginning
  of what is pending.  The server handles only those;
- `Rids`: request ids tell the diffs of a browser apart, and those under way
  from those accepted and those rejected;
- `Own`: a diff of its own that the browser does not know of is the next one
  after its version, a beginning of its pending edits, and unconfirmed;
- `Incoming`: a confirmation or a refetch comes before anything else that
  changes the version, and is about that next diff, or says that the row is
  ahead (`RowCovers`); a diff on its way is the one the server has;
- `Fetching`: while a browser waits for a refetch and is not late (`Waits`), the
  version does not move and the row covers what the browser lacks;
- `Current`: the confirmed text is that of the version.

A browser that strayed keeps none of this but the plain part (`Plainly`), and
nothing about the others depends on it: what it sends is marked with what it has
seen and is taken or rejected like any diff, so the others follow what the server
made of it.  Hence `IInv` is `Plainly` for all and the list above for those in
`Client \ strayed`.

`Own` and `Incoming` hold each other up: the server accepts a diff only from a
browser that had seen everything (`seen = said`), so nothing is on its way that
could move the version before the confirmation arrives, and `Own` makes the
confirmation raise the version by exactly the diff that was accepted.
`NothingDropped` then needs to look only at what a step does to one copy
(`KeepsAll`): it adds to the log, adds to what is pending, or takes one copy
further and moves from pending to confirmed what it takes off.  The refinement
maps the text to `TextAt(Len(log))`, the readers that follow it to
`Client \ strayed`, and what each of those has read to its text.

`OnceUnlessUnheard` needs a second invariant, `OnceInv`: until news was lost or a
browser strayed, an edit is either pending in one browser or in the text at its
version, or in both and then accepted, unconfirmed and with its confirmation
under way (`ToldSoon`).  A lost connection breaks that only if it takes the
confirmation with it, which is what `unheard` records and run `collab_twice`
shows; any other number of lost connections does no harm.

The text at a version is the concatenation of all diffs up to it.  What is needed
of it is in `Concatenation`: `FlattenStep`, that one more list at the end adds
its elements at the end, and the facts about beginnings (`PrefixSplit`,
`PrefixConcat`, `Cut`) and about lists without repetition (`DistinctConcat`,
`DistinctSplit`).  Induction is over a set of numbers (`SetInduction`: a set that
contains zero and with each number the next contains all), which the provers can
use, unlike the library's induction on a formula.

The proof showed that the model had been wrong: `FetchDiffs` applied the diffs of
a row from the last to the first, which no run could tell, since with a history
of 1 there is only one.

**`DirectSave_proofs`.**  A version stands for a text: who has the version of the
row, or carries it in a request, has the text of the row (`Carries`,
`JobCarries`).  A request that has passed the comparison has the row's version
until somebody else saves (`Ordered`); a save with another such request around is
the crossing itself, so until then the saved text contains the row's.  `Acked`
says where a page that counts as saved has its text.  After the crossing the
types are left.

**`E2ee_proofs`.**  `IInv` has four parts: the messages under way (`Wire`), the
server, the browsers, and `Unmixed`.

`Readable` follows from two facts about what browsers send: unless `mixed`, the
key of a diff or snapshot belongs to the salt that is written on it (`UpMsg`, for
every message on the wire), and a browser's three copies of the key are one, as
is the key of everything it is encrypting (`OneEpoch`).  Keys change in
`LoadKeys`, `LoadEnd` and `handleRekeyDone()`.  The first and the last put all
three in at once, and `NewKeys` shows that only a job that is being encrypted at
that moment (`Crossing`) breaks `OneEpoch`; the second puts in the key again that
is there already, or makes two epochs of it if the password was changed in
between.  The server takes a diff or snapshot only under its salt, and empties
the list of diffs when it changes that.

`DiffsCover` is about the server alone: a diff adds one to the version and to the
list until that is full, a snapshot is of the version it is compared with, and
after a change of password the list is empty and the content of the current
version, unless diffs were accepted while it was written: `Covered` adds to
`overtaken` the alternative that the history is full, from which the property
follows (the list then reaches back `History` versions).  `Wire` has the third
fact: when the browser has something to receive, all that it has under way is
marked as late, so what the server handles was sent by a browser that had heard
everything.

**`Comments_proofs`.**  The exchange of diffs is that of `Collab` with fewer
timers and without the refetch, and the parts of `IInv` have the same names and
roles (`Linked`, `Fresh`, `Rids`, `Own`, `Incoming`, `Current`).  What
`Accounted` needs beyond them is that the updates a browser takes out of its queue
with a confirmation are as many as the diff had, and the first ones: `Own` says
that the acts of a diff of its own that it does not know of are the beginning of
what waits, and `Current` that what it knows of and what waits are together what
was done.  The guards of the store make the length of a diff that of the queue,
since an update of a comment that is gone is sent as `ignore` and not left out.
A handler that fails half way has raised the version already; the diff stays in
`hist`, the browser learns of it after reconnecting, and counts it as its own by
the request id (`Rids`).  `Onward` says that a browser keeps all of this when
only others are concerned, and the proof of a step of one browser is then about
that browser.

Types are the other half: what an update does is a fold over the updates of a
diff, so `Concatenation` says when a fold exists as a function (`FoldExists`) and
that its values keep a type that each step keeps (`FoldType`), again by
`SetInduction`.  The proof showed that `Applied` was no function of its update:
two guards of its `CASE` overlapped, and TLC takes the first.

**`CommentsShown_proofs`.**  `SameComments` compares a browser with the server
when their versions are equal; neither can be followed alone.  A browser at an
older version shows comments that the server has changed since, and an update
that waits, or a diff under way, may put both out of step on purpose.  So the
invariant speaks of the past.  `SInv` says that there are a function `st`, where
`st[v]` is what the server had after `v` diffs, and a function `au`, the author
of each comment and answer, with `Shared(st, au)`: the history, and every browser
with the part of it that it has reached.

- `Authored`, `Past`: each `st[k]` is `st[k - 1]` with diff `k` applied
  (`Run`, update by update); the last one is what the server has now.  Where a
  diff failed half way, `st` goes on from the failure and its comments are
  `failed`.  Each diff in it was `Sane` when it was accepted: what it says of a
  comment was known to its sender (`Sourced`), its updates agree with each other
  as they are read from one store at once (`Coherent`), and a comment that it
  brings has all answers that the server has, but for those that the rest of the
  diff deletes or updates (`Fits`).
- `Shelf`, `Queue`, `Complete`: a browser shows comments and answers that it has
  heard of or made, what waits was not heard of yet, and what somebody did was
  accepted or waits.
- `Faithful`: with the updates that wait left out, the store of a browser
  mirrors `st` at its version (`Mirror`), and when the next diff is its own, it
  mirrors the version after as well, without the updates in that diff.  `Mirror`
  is about one comment: it is there on both sides unless a deletion or a creation
  waits, with one text unless a change waits, and with all answers of the server
  but for those whose deletion or update waits (`Covers`).
- `Sending`: a diff under way is `Sane`, and if it is accepted now, the browser
  mirrors the result without the updates in it (`Carries`).
- `Hearing`: what is on its way down is what the filter passes of the diff
  (`Passes`); to those outside `OwnOnly` that is everything, and the filter keeps
  from the others only what is not about their own comments, or answers.

The steps divide as the actions do.  Somebody who acts changes the store and
queues the update of it, so that the mirror stands (`MadeMirror`).  A diff is
what waits, read from the store (`SentCoherent`, `SentFits`), so that the server
makes of its comments what the browser shows.  The server accepts only a diff
about its own version, so `Carries` is about the comments it has; both outcomes,
the whole diff (`AcceptShared`) and a part of it (`FailShared`), extend `st` by
one.  A confirmation takes the updates out of the queue, which is what the second
half of `Faithful` is for (`ConfirmShared`).  The long one is a diff of somebody
else (`ReceivingMirrors`): browser and server apply the same updates in the same
order, but by different code, `Received` and `Applied`, and the browser maybe not
all of them.  `Meets` is the mirror when `p` of them have been handled on both
sides; it says what the rest of the diff must be like (nothing in it creates what
is there, an update that brings a comment brings all its answers), and one lemma
for each side handles one update of each kind (`MeetsHere`, `MeetsMissed`,
`MeetsElsewhere`).  Both theorems then follow at `ver[c] = Len(hist)`, where
`st[ver[c]]` is what the server has, for a comment that no waiting update is
about: the mirror is then the property.

Proof of type correctness rests on lemmas about `LastOf` and `Slice` (a slice of
a list is a list of the same things and not longer) and about saves
(`SaveBeginStep`).

Model-checked only:

- everything temporal (`HandlersFinish`, `DiffsAreSettled`, `Arrives`,
  `Settles`), since TLAPS does not do liveness with `ENABLED`;
- `Complete`, that a browser of an encrypted document has the edits of its
  version: an invariant for it has to follow each accepted diff with its key
  through the change of password and the four steps of a load.

## 5. What is not modelled

- The content of steps, and whether a step applies (a patch that the server
  refuses resets the collaboration; `patch_error`).
- Selections, chat, lists of participants, the relay between server processes,
  caches of the browser.
- In `DocSession`: encrypted documents (`E2ee` has them, with a handler as one
  step), the deletion of the row under an open session, a document that is opened
  for the first time (its content is written then, at another `await`), a killed
  process (by design it loses the diffs since the last save).
- In `Collab`: handlers of the server overlapping, a session that closes and
  opens again, more than one refetch under way (the second `refetch_doc` waits;
  see *Bound* there), handlers of the server that raise.
- In `DirectSave`: the images of a save, rights, encryption (the text is then
  read before, the version after, an await).
- In `E2ee`: the first snapshot of a new document, the wrapped keys of the
  holders (a change of password that lacks one is refused: `RefuseRekey`), who
  may send a snapshot; a second load while one is under way (the `refetch_doc`
  waits; see *Bound* there); a timer that runs out while something is under way;
  decrypted steps that do not apply to the text (`_processDiff()` raises, and the
  version is counted twice); a password that the user does not enter, and the
  parameters of the key derivation in `session_info`; awaits of the server other
  than that of a change of password.
- In `Comments`: the comment being written, marks that move, the assignment of a
  comment and its mails, the merge of comments after a refetch, roles that see no
  comments at all.  The order of the answers of a comment: they are a set.
- *Rights and share tokens.*  Roles are constants here (`Comments`,
  `Communicates` in `Collab`, `Owner` in `E2ee`); rights that change while a
  document is open are not.  The lookup before each message is the await
  `checked` of `DocSession`.
- *Images.*  An image goes when neither a user nor a document has a link to it;
  each who drops a link looks afterwards, so none is left behind.  Looking and
  deleting are two queries (`document_store.py:251`, `document/views.py` and
  `usermedia/views.py`, `delete`), and deleting cascades over a link that another
  document makes in between.  Inside a diff the link is made after the version
  was raised.
- *Importers, exporters, the schema and the plugins of the editor* are pure
  functions over documents, by far the largest part of the source.  A model would
  be a transcription of format conversions; nothing in them depends on order.
- The other parts marked *not modelled* in section 1.1, with the reasons in
  `PROJECT.json`.

## 6. What the runs leave aside

Found by changing constants of a run, by adding a property to it, or by leaving
out what a property excepts.  The properties or bounds of the runs above exclude
these, so that they do not hide the rest.

*Channel.*  That every message is handled which its sender had not to take back
is false: a chat line or a `check_version` that crosses a message of the server
is counted, not handled and not answered, since `reject_message()` knows diffs
only and the copy that the client sends again (`ws.js:242`) counts as a
repetition.  After an overrun the server has set its counter back, and
`refetch_doc` gets a number the client has already seen: the client ignores it
as old (`ws.js:147`).  With `HasSendJson = FALSE`, as in the code
(`AsyncWebsocketConsumer` has no `send_json`), a lost client message raises an
exception and the connection closes; a browser reconnects.  TCP loses nothing by
itself, so this concerns the simulated loss of the tests.

*Session.*  An update of a comment that is gone raises a `KeyError` after the
version was raised (`consumers.py:569-617`).  The consumer ends without
`disconnect()`: the participant stays in the list, the session in memory, and
later participants find themselves in company.  That a session is taken out of
memory when nobody is connected is therefore false; `NoLeftover` says that this
is the only way.

Each race of section 2.2 breaks some of what `SoundUnlessRaced` lists, and within
the bounds of `doc_overlap` each of its five parts is violated without the
exception.  (1) With `Suspends = {"reading"}`, `OneCopy`: the row is read before
awaits and becomes the session after them, when it may be older than the row that
was just saved.  With a save that suspends, `SessionStays`: the last participant
leaves, the save waits, somebody subscribes and gets a new session, and the first
handler goes on and removes *that* one (`consumers.py:1258`).  (2) A diff accepted
during a save counts as saved: `SavedIsInDb`, `NoLostEdit` (run `doc_save_race`).
(3) With `Suspends = {"applied"}` and `titled` diffs, `NoLostEdit`: the version
was raised before the title is stored, a save in between records it as saved, and
comments are added afterwards.  (4) With `Rust = TRUE`, `NoLostEdit`:
`doc.content` stays what it was at the opening, and a save without text changes
(a comment) writes it back over text that was saved before
(`document_store.py:125`).  In `doc_python` no race can happen (`~raced` is an
invariant there), so its properties have no exception.

With two handlers at `applied`, `version % DOC_SAVE_INTERVAL` is tested only when
the version has moved on and the save is skipped until the next multiple.
`DOC_SAVE_INTERVAL` counts versions; `docs/configuration/advanced.md` calls it
seconds.

*Collab.*  A browser that uses the answer to a refetch after it went on may
stray: the row is older than its copy and the copy goes back, with a history of
2 the diffs that came along are applied a second time, and after an early timer
it counts newer pending steps as those confirmed by the fetched diffs and
forgets them.  In `collab_late`, `Converged` and `NothingDropped` are violated
without their exception for strayed browsers, and `OnceUnlessUnheard` without
that for news that was lost; its other exception is what the proof needs, while
with up to 3 edits, or a history of 2, TLC finds no edit that gets in twice
because of a stray.  In `collab`, browsers stray, too, but without early timers
everything arrives all the same.  With a browser outside `Communicates`,
`Arrives` is violated: after a reconnect it waits for its version to be
confirmed, only the `connections` message starts that (`editor/index.js:414`),
and reviewers do not get it; nothing they type is sent until a colleague
edits.  That every copy becomes current is false even without lost connections: a
`check_version` that crosses a diff is dropped by the server, and the client
stays behind until the next diff.  After an early timer two diffs of one browser
are under way; each rejection causes a new one that crosses the next rejection,
so `MaxSends` does bound something.  (`doc.js:73` says two seconds, the timer has
eight.)

*Direct save.*  The version is compared in one query and written in another,
without a lock, and requests are served by several threads: without `crossed`,
`NothingOverwritten`, `AckedIsStored` and `Arrives` are violated, by two
requests that both pass the comparison before either saves.  The merge after a
conflict never runs, because `postJson()` throws on a 409.  Close saves nothing
if a save is under way; what was typed since then is in `late`, as is what is
typed between a request and its answer, because `_lastSaveTime` is the time of
the answer.

*Encrypted documents.*  A snapshot contains the sender's unconfirmed edits, which
then come as diffs, too; a text is a set of edits here, so the model does not say
what becomes of them.  What the histories record, with the lines where it bites:

- `mixed`: a diff is encrypted with the key of before the await and marked with
  the salt of after it, when a load or `rekey_done` comes in between; the same
  goes for a snapshot (`snapshot-manager.js:134-157`).  The server accepts both,
  and nobody with the right key can read them.  While a snapshot is made,
  `reEncryptWithNewKey()` returns at once and `model.js` takes this for success:
  the key of the browser is the new one, the stored document's is not.
- `overtaken`: a diff that is accepted while `_apply_rekey()` waits is thrown away
  with the older ones, and the content is of before it.
- The history: if the one browser that is asked for snapshots answers none for as
  many versions as it holds, content and diffs no longer meet.  `DiffsCover`
  excepts that.
- `tally`: between `doc.js:133`, where a load puts in the version, and line 722,
  where it puts in the text, diffs count in the new version and go to the old
  text, so that the browser then shows a text without them under a version with
  them; a diff that was waited for is sent once more, from the old content
  (`enableDiffSending()`); a diff that is decrypted late comes on top of the
  loaded document.
- `gap`: the content was stored under a version that it lacks edits of (run
  `e2ee_snapshot`, `overtaken`), and the browser that loads it lacks them, too.

Without any one of these exceptions `Readable`, `DiffsCover` or `Complete` is
violated within the bounds of the run, and so is `Settles` without `events > 0`.
That `Complete` excepts a second event, and `Settles` a load without one, needs
larger bounds.

With two events `Complete` is false: the `refetch_doc` after a change of password
is lost with a connection, and the browser skips every diff under the new key.
Loading a document drops what was not confirmed, although the comment at
`editor/index.js:441` expects a merge: for an encrypted document
`receiveDocument()` loads.  After loading an older content, own diffs that are
sent again are ignored and the version check starts anew without end; a load
while a diff is in flight leaves two diffs of one browser under way whose
rejections cross for ever (`doc.js:125`).  `Settles` is therefore claimed only
until a document is loaded, which without an event takes more than the two edits
of the run.  With `"receiving"` in `Awaits` it is false without any of this: what
comes while a diff is decrypted does not fit yet, the version check that follows
crosses a `snapshot_received` and is dropped, and nobody repeats it.

Larger instances were explored as well, without a violation: all awaits, with
`"receiving"`, for the safety properties (20 million states, to a depth of 69);
3 edits and a history of 2 without `"receiving"` (16 million states, complete);
3 edits, a history of 3 and no event, with `Settles`.

`docs/e2ee.md` says that a snapshot clears the stored diffs; the code keeps them,
and cuts the list at the history.

*Comments.*  `Arrives` is claimed for clients outside `OwnOnly`: a reviewer's
`delete_answer` carries no author, nor does an update that became "ignore", so
that the diff with it is refused without a word, and sent again, for ever; so is
an update of an own comment that somebody else has answered.  A diff that fails
half way is applied up to the failure, and nobody is told until the next diff.
While an own answer or its deletion waits, an update of the whole comment by a
colleague replaces the answers: the new answer turns into "ignore", the deleted
one stays on the screen (`SameComments` excepts what is `Touched`).  An update by
a reviewer with tracked changes carries the answers that the reviewer sees, and
takes the others off everybody's screen, though not off the server
(`SameComments` excepts comments by `OwnOnly`).  As in `Collab`, a diff that is
sent between two messages of a reconnect leads to two diffs under way that cross
for ever; here `Send` waits until what has arrived is read.

## 7. What could come next

1. `Images`: links of users and documents to an image, the two queries of a
   deletion, and the link that a diff makes.
2. `DocSession`: deletion of the row (`asave()` inserts it again, the rust
   backend's `aupdate()` stores nothing without an error), first opening.
3. `Rights`: grant, withdraw and refresh, composed with `DocSession` at `checked`.
4. `E2ee` with the awaits of the server's handlers, as in `DocSession`.
5. Proofs of what section 4 leaves to TLC, liveness, with a prover that knows
   `ENABLED`.
