# A verification of Mimeographer

Mimeographer is a content management system written in C++ on Facebook's
Proxygen: an HTTPS server that keeps articles, users and sessions in
PostgreSQL.  This directory holds TLA+ models of it, the TLC configurations
that check them, and TLAPS proofs about them.  `PROJECT.json` lists the runs,
which definition stands for which lines, the hazards and the findings.

To repeat the checks: `tlc -config <file>.cfg <MC module>` for a run, `tlapm
<Name>Proofs.tla` for the proofs.

## The system

| component | state it keeps | operations | hard behaviour |
|---|---|---|---|
| `StaticHandler` | `file_`, `readFileScheduled_`, `paused_`, `finished_` of one request | `onRequest`, `readFile` and its lambdas, `onEgressPaused`, `onEgressResumed`, `requestComplete`, `onError` | a pool thread and the event loop share plain fields; the object deletes itself |
| `UserSession` | `uuid`, `userId` of one request | `initSession`, `genCSRFKey`, `verifyCSRFKey`, `logoutUser` | the session is looked up once and used later; a failing query is swallowed |
| `HandlerBase` | cookies, POST parameters, reply | `onRequest`, `onBody`, `onEOM`, `PostBodyCallback`, `requestComplete`, `onError` | anything can happen between two callbacks; error replies carry no cookies |
| `UserHandler` | none | sign in, sign out, `createLogin`, `changeUserPassword` | a check and a write are two queries |
| `EditHandler` | none | editor form, save, upload, lists | forms outlive sessions; the CSRF key is one column |
| `PrimaryHandler` | none | front page, archive, article | rendering nested Markdown |
| `SummaryBuilder` | title and preview | `build` | which documents it refuses |
| `DBConn` | one connection | a method per query | every query may fail, before or after it took effect |
| PostgreSQL (`ddl.sql`) | `users`, `article`, `session`, `user_session` | | the only state shared by requests |
| `main` and the factory | options | a handler per request; `-adduser` | several event-loop threads; a database that is down |
| `SiteTemplates`, `Config`, `HandlerError`, `HandlerRedirect` | immutable | | |

**Interaction.**  Proxygen runs an event loop on each of `--threads` threads.
For a request, `MimeographerHandlerFactory::onRequest` picks a handler by the
path; its callbacks then run on that thread.  A handler owns a `DBConn`, that
is, a database connection of its own, and the handlers of different requests
share nothing in memory: they meet in the tables.  `StaticHandler` alone uses a
second thread, for reading the file, which posts its results back to the event
loop.  `mimeographer -adduser` is another process on the same tables.

**What makes each part correct.**

- `StaticHandler`: one reader at a time; no use after `delete`; the client
  receives the file in order and an end only after it; a pause stops the
  reading soon; no resumption is lost; the object is freed.
- `UserSession`, with signing in and out: a request acts for a user only after
  that user's password was given in the same session by the same browser; an
  expired session stays expired; signing out signs out.
- the editor: a save is accepted only with the key of a form of the user's own
  sign-in, or with a blank one while there is none.
- accounts: an email is added once; only somebody who knows the password
  changes it; an addition gets an answer.
- articles: one changes only by a save that names it, with a form of the
  session and user recorded; who is told that his text is stored finds it
  stored; nobody overwrites his own newer work.
- request bodies: the parameters a handler sees are those of complete parts, a
  reported file has what was written of it, both unless a part's own file
  failed; and one file does not spoil the next.
- summaries: the title is the heading and the preview the beginning of the
  first paragraph.
- rendering: texts in order and tags well nested, in any document.
- routing: what pages offer is served; redirects end.
- the server: no connection outlives its handler, every one is returned, and
  the process ends only where a request cannot have a connection or its cookie
  has no value.
- paths: the iterator of the decoding stays within the path, and decoding
  undoes encoding.

## The modules

### `StaticHandler` (abstract specification: `Download`)

One request for a file.  The fields of the class are the variables `file`
(`file_` is not null), `pos` (chunks read from it), `scheduled`, `paused`,
`finished`, and `object` (before `onRequest`, live, deleted).  `jobs` counts
the calls of `readFile` that wait in the CPU executor; `at[w]` is where pool
thread `w` is in it; `tasks` is the event loop's queue of posted lambdas;
`resp`, `egress`, `pauses`, `failed` and `wire` are what Proxygen's transaction
has seen.

The steps of a pool thread are those between which the event loop can notice
something: the test of the loop (`TestLoop`, which reads `file_` and
`paused_`), one read with the lambda it posts (`ReadChunk`, `ReadEof`,
`ReadError`) and the end (`LeaveLoop`).  Each lambda is an action (`RunBody`,
`RunEom`, `RunAbort`, `RunDone`) and so is each callback.  `RunDone` is the
whole lambda at lines 84-93: it clears `readFileScheduled_`, deletes the object
or starts the next reading.

Proxygen and folly are external and modelled from how the code uses them:
lambdas posted to an event base run there in the order posted; `onEgressPaused`
and `onEgressResumed` alternate and come only between `onRequest` and the end
of the request; `requestComplete` or `onError` comes once and last; a read
returns a chunk, the end or an error. What the file holds is abstracted to its
chunks, numbered from 1.

`Download` is what this promises the client: status and chunks received, with
no threads, pauses or queue.  `IsDownload` is refinement with `status` computed
from `resp` and `failed`, and `received` from `wire`.

`overrun` counts chunks read since the last pause.  It is history: no guard
reads it.

### `SessionStore` and `Sessions`

`SessionStore` is the tables `session` and `user_session` and the queries of
`DBConn` on them, each an atomic step as PostgreSQL runs it: `sess[s]` tells
whether the row exists and is within the hour, `mapping[s][u]` is the row of
`user_session` with its `csrfkey`.

`Sessions` is the requests of several browsers.  A request `r` is a thread at
step `pc[r]` with locals `req[r]`: its browser, the `uuid` and `uid` of its
`UserSession`, what was posted, the kind of reply.  Its steps are
`HandlerBase::onRequest` (`Arrive`, `Lookup`, `Refresh`: each a query of
`initSession`), `onEOM` (`Dispatch` and the queries of the operation) and the
delivery of the reply (`Receive`, `Lose`).  Between any two of them the other
requests run.  `jar` is the browsers' session cookies.  A browser sends back
the cookie it was given; what it posts is its own affair: a save comes with any
key that was ever generated, or with a blank one.

A request is a page (everything that leaves the session alone, static files
included), a sign-in, a sign-out, a form (`buildEditor`, `buildUploadPage`) or
a save (`processSaveArticle`, a posted `processUpload`).  A query ends `ok`,
`failed` (no effect) or `lost` (effect, but `DBError`).  Replies of kind
`error` carry no cookie (`onEOM`, lines 360-399, and all of `StaticHandler`'s).
A browser may abandon a request before `onEOM` or before the reply.  A form can
also fail before its key is saved because the article asked for is gone.

A `csrfkey` that is NULL is read by `getCSRFKey` as an empty string
(`GetCSRFKey`, `Blank`), so that after signing in and until the first form is
issued a blank key matches: `SavesOwnForm` says that it does so only then.

`seen` in `req[r]` tells how the lookup of a session in use went: found, not
found or failed.  `maker`, `proved`, `issued` and `spent` are history and bookkeeping: which
browser a session was generated for, whose password was given where, which keys
were saved since the row was made, and which keys exist.  Only the supply of
fresh identifiers (`FreshSids`, `FreshKeys`) reads any of it: `genUUID` never
repeats a value.

### `Accounts`

The table `users` and the two operations that check it with one query and write
it with another: `createLogin` (`/user/add`, and `-adduser`, a second process)
and `changeUserPassword`.  A password stands for the salt and hash stored for
it.  `Deactivate` is an administrator who clears `isactive` with SQL: the
program never does, but each of its queries reads it. `held[o]`, history, is
the set of passwords the account had while `o` ran.

### `Articles` (with `SessionStore`)

The table `article` and the requests that change it.  A request is an `edit`
(`getArticle` for a present article, then `genCSRFKey`) or a `save`
(`verifyCSRFKey`, then `SummaryBuilder` and one of `saveArticle` and
`updateArticle`); each query is a step, and may fail before or after its
effect.  `mapping`, from `SessionStore`, holds the one key per session and
user.  `inHand` are the keys of forms that were received.  `Post` leaves to the
client what `processSaveArticle` takes from it: the session, the key of any
such form or a blank one, and any `articleid`, also one without a row; at any
time, any number of times, and after somebody else has signed in.  Signing in
and out are one step each here: `Sessions` has them in detail.  `made[k]`
records for which article, session and user the form with key `k` was rendered,
and `writer[a]` with which key `a` was last saved; the form has in `shown` with
which key the text it showed was saved.  These two keys are kept for patient
browsers only, whose work `OwnWorkKept` is about (`IfPatient`).  Of this history
only fresh identifiers and patient browsers read anything.

`Patient` is the set of sessions whose browser makes one request at a time and
posts forms with the article and key they were rendered with, if perhaps more
than once and in another session than they were made in.  Only there is one's
own work kept: two saves under way at once may both have passed the check of
the key before either of them stores, and who posts another `articleid` than
his form has overwrites what he never saw.

### `PostBody`

One body: `codec` is what proxygen's `RFC1867Codec` is doing, `stream` is
`saveFile` with the part it is open for and its `good()`, `params` is
`postParams` with parts for values, `disk[p]` the buffers written to the file
of part `p`.  A piece is an `IOBuf`, which may be a chain: `onFileData` writes
its first buffer (`Written`), and `rest` counts the others.  `failed` records
which operation failed on whose file, for the properties to read.  The callbacks are actions (`OnParam`, `OnFileStart`,
`OnFileData`, `OnFileEnd`, `OnError`); `OnEOM` is `onIngressEOM`, which may
end a part by `onFileEnd(false)`, followed by `processUpload`.  The codec and
the stream are external: `open` on an open stream fails, closing writes what
was buffered, a write or close that fails may lose what was (`Damaged`), and
the constant `Failures` tells which operations may fail: in the run all three.
After a write that failed the codec is stopped and the parameter made by
`onFileStart` stays.

### `Markdown`, `Summary` and `Render`

`Markdown` is `cmark`'s iterator, external: it enters and leaves nodes in every
way that CommonMark's rules for nesting allow.  A node is its kind, and a text
its length.  `Summary` reads these events as `build`, `buildTitle` and
`buildPreview` do, one event a step; `phase` is which of their loops reads
next.  A string is a sequence of bytes, each known by the event it came from,
so that the properties can say which text it is.  `Render` is `renderArticle`:
`body` and `response` are sequences of tags and texts.  When a chunk does not
fit the capacity of `body`, which is for the library to choose, `body` is
handed over, so that `RenderEvent` may do so with any chunk.  (An empty chunk
always fits.)  HTML nodes and hard line breaks are written as texts are, and
have no kind of their own.

### `Routes`

Which handler answers a path and what it can answer (`EditAnswers`,
`UserAnswers`, `StaticAnswers`, `PrimaryAnswers`, chosen by `Answers` as the
factory does), what links and forms pages have (`Menu`, `Content`, `Form`), and
a browser that follows them, types paths and follows redirects, while another
tab signs in and out.  A path is a sequence of segments, from `Segments`: those
of the code's own paths (`Words`), articles' ids, files' names and whatever
else people type.  `StaticHandler` looks for what `parsePath` makes of the path
(`ParsePath`): `Decoded[s]` is what comes out for a segment, or `Refused` for
one with a `%` and no number behind it, which is answered with 400.  Links are
made of names as they are.  Where the answer depends on what the other modules are about, every answer is possible.
Failing queries are left out: what they do to requests is in `Sessions`.

### `Server`

Requests as the threads and the database see them: `stage[r]` is how far a
request is, `running[t]` whose callback thread `t` is in, `open` which
connections there are.  `FailToConnect` is `DBError` leaving the factory's
`noexcept` function: the process ends.  So it does in `ParseValueless`: of the
`Cookie` header the model knows only whether each cookie in it has a value
(`cookie[r]`), because for one without `parseCookies` assigns the null pointer
that `strtok_r` returns to a string.  The database may restart (`DbRestart`)
or be down (`DbStop`); either ends its connections, and `DBConn` never makes a
new one for a handler.  Every `catch` in the code makes `InitSession` and
`Reply` happen whether or not the connection still works.

### `Paths`

`parsePath` byte by byte, with what `std::stoi` accepts (blanks and a sign),
on two kinds of paths: encoded by `DBConn::urlEncode`, and typed.  `LibpqDecode`
is how libpq reads the connection's URI, as the state (`Libpq`) that it is in
after each byte.  `ByteAt` gives the terminating zero at the end and anything
beyond it.

## The runs

| run | instance | shows |
|---|---|---|
| `static` | 2 pool threads, 3 chunks, 3 pauses | type, `OneReader`, `NoUseAfterDelete`, `QuietAfterCompletion`, `PauseStopsReading`, `IsDownload`; no deadlock; `Delivered` and `Freed` under fairness |
| `sessions` | 2 browsers, 2 sessions, 2 users, 2 keys, 2 requests, failing queries | type, `ActsForOwnUser`, `SavesOwnForm`, `ExpiryHolds` |
| `session_logout` | the same with 1 browser, no failing query | `LogoutSignsOut` is **violated** (finding 1) |
| `accounts` | 2 emails, 2 passwords, 2 operations, failing queries, deactivation | type, `AddedOnce`, `ChangedByHolder` |
| `accounts_create` | 1 email, 3 passwords, 2 operations, nothing fails, nobody deactivated | `CreateAnswers` is **violated** (finding 2) |
| `articles` | 2 sessions, one of a patient browser, 2 users, 2 keys, 1 article, 2 requests, failing queries | type, `ChangedByOwnForm`, `StoredAsTold`, `OwnWorkKept` |
| `post_body` | 3 fields, 3 parts of 2 pieces of 2 buffers; opening, writing and closing may fail | type, `SeenHasEnded`, `ReportedIsWhole`, `StopsOnlyOnFailure` |
| `server` | 3 requests, 2 threads, 2 connections, 2 restarts, the database may be down, cookies may have no value | type, `ConnectionsAreHeld`, `Survives`; `ConnectionsReturned` under fairness |
| `paths` | 9 bytes, names of 3, typed paths of 4 | type, `StaysInPath`, `EncodedIsFound`, `UriIsRead` |
| `summary` | documents of 12 events, depth 4, preview of 3 bytes | type, `TitleIsHeading`, `PreviewIsParagraph` |
| `render` | documents of 11 events, depth 6 | type, `TextsInOrder`, `TagsNested` |
| `routes` | 2 articles, 3 files, two with names that `parsePath` changes or refuses, 15 typed paths, 2 changes by another tab | type, `OffersAreServed`, and `RedirectsEnd` under fairness |

**Why the bounds are enough.**  Two pool threads suffice to see two readers.
Three pauses (`MaxPauses`, the bound in `OnEgressPaused`) allow a pause while
reading, another while the loop ends and one after the file is closed; three
chunks (`FileChunks`) leave one to read after each of two pauses.  Two requests
are the least that interleave; a request slot is used again, so runs have any
number of requests until the identifiers run out (`EnoughSids`, `EnoughKeys`).
Two sessions let one expire and be replaced, or belong to each of two browsers.
Keys and sessions run out and are not reused: at the end the model stutters
(`Exhausted`), so deadlock stays checked.  The proofs hold for every value of
these bounds.  `SYMMETRY` is used over sets of interchangeable values, and
never in a run that checks liveness.

In `sessions` the supply of identifiers keeps two requests from regenerating
one expired session at the same time, which takes three (`EnoughSids`); that
case is covered by the proofs only.

In `articles` a session of two users lets a key be posted by its own user, by
the other one and in the other session, and two keys are a form left open and
the newer one whose save it must not overwrite.  The one article is present,
missing or new, and a form for it may be posted as one for a new article and the
other way round.  A second article is beyond five minutes; any number of them is
covered by the proofs.  `EnoughKeys` and `EnoughIds`
keep a request from starting when identifiers could run short.

Three parts (`MaxParts`) are a file, another after it and the key, in any order
and with names repeated, with two pieces (`MaxPieces`) so that a file can be cut
short in its midst, and two buffers (`MaxBuffers`) so that a chain can have a
rest.  A document of 12 events
(`MaxEvents`, which bounds the entering of nodes: all of them are left) has a
heading with emphasis, a quote and a paragraph with two texts; the preview's
limit of 3 bytes falls before, at and beyond the end of texts of up to 2
characters.  11 events at depth 6 are an item with a list, whose item has a
paragraph, and a paragraph after it.  Two changes by another tab (`MaxChanges`)
are signing out and in between two redirects.  Three requests (`server`) are
one on each thread and one that waits, and one more than there are connections;
two restarts (`MaxRestarts`) meet each of them at any stage.  The bytes of
`paths` are one of each kind that the code tells apart; typed paths of 4 have an
escape, cut short or whole, at any place.  `post_body`, `summary`, `render` and `paths` have no deadlock check,
because what they read has an end, and `server` has none because a process that
ended does nothing.

**Fairness** is assumed for liveness only.  In `static` each pool thread
and the event loop go on (`WF` of `ReadFile(w)` and `RunTask`): they are OS
threads that never block for ever.  A pause ends by resumption or by an error
(`EndOfPause`): `main.cpp` sets `idleTimeout` to 60 seconds.  Proxygen reports
that a complete answer was sent (`RequestComplete`).  `Delivered` does not lean
on the timeout for the handler's own part: the fairness of `EndOfPause` needs a
transport that is blocked, and a lost resumption leaves it flowing.

In `routes` a browser follows each redirect it is given (`WF` of
`FollowRedirect`).  That another tab changes the session only `MaxChanges`
times is part of what is shown: one that did so before every redirect could
keep the browser going round.

In `server` a callback that has begun goes on (`WF` of `Connect` or
`FailToConnect`, of `InitSession` and of `Reply`): connecting is bounded by `connect_timeout=30` in the
URI, and a query of a broken connection returns.  A request ends (`SF` of
`End`): at the latest `idleTimeout` tells its handler so, between callbacks of
others on the same thread, which is why weak fairness would say nothing.  A
client that sends a byte now and then for ever is left out.

## Findings

1. **Signing out may leave the browser signed in.**  `processLogin` does not
   look whether the session has a user already; two users who sign in in one
   browser without signing out leave two rows, signing out removes one
   (`UserHandler.cpp:162`).
2. **`createLogin` raises an error for an email that is taken** when it was
   taken after the check, or belongs to a deactivated account
   (`UserHandler.cpp:446`).

Observed while modelling and not stated as properties of their own:

- If `getSessionInfo` fails for an expired session and the `saveSession` that
  follows works, the session is in use again (`UserSession.cpp:65`);
  `ExpiryHolds` allows it for such a request only.
- Until a form is issued in a sign-in, an empty key passes the check of a save:
  the NULL of the row is read as an empty string (`DBConn.cpp:396`,
  `UserSession.cpp:130`).  `SavesOwnForm` and `ChangedByOwnForm` except it.
- When writing an uploaded file fails, the codec is stopped, but the parameter
  stays, and the upload may be reported as saved (`HandlerBase.cpp:106-111`,
  `EditHandler.cpp:294`).  Nor does `onFileEnd` look whether `close` worked
  (`HandlerBase.cpp:127`).  `SeenHasEnded` and `ReportedIsWhole` except the part
  whose own file failed, and no other.
- Of a piece of a file that comes as a chain of buffers only the first is
  written, and nobody is told (`HandlerBase.cpp:105`); `ReportedIsWhole` leaves
  the others (`rest`) out of account.
- A cookie with nothing after its `=` ends the process: `strtok_r` returns null,
  which is assigned to a string in a `noexcept` function
  (`HandlerBase.cpp:179-181`).  This is an exception in `Survives`.
- "Article updated" is said even if no article has the id that was posted
  (`DBConn.cpp:433`, `EditHandler.cpp:174`); `StoredAsTold` excepts it.
- A document without blocks has no ENTER event where the heading is expected
  and is accepted, and so is one without a paragraph (`SummaryBuilder.cpp:136`):
  title or preview are blank.
- A title may be too long for `VARCHAR(256)`, and a preview end within a
  character (`SummaryBuilder.cpp:47`, `:99`): the article cannot be saved, and
  the author sees an internal error.
- After a nested list, paragraphs of the outer item are written with tags that
  those before it do not have (`PrimaryHandler.cpp:220`).
- "About" in the menu leads to an error page (`templates/navbase.html:12`).
- A request that comes while the database is down, or when it has no connection
  left, ends the server: `DBConn`'s exception leaves a `noexcept` function
  (`main.cpp:71`, `DBConn.cpp:173`).  This is the other exception in
  `Survives`.
- A file with `+` or `%` in its name is not found under the path that is shown
  for it (`EditHandler.cpp:294`) nor under its link in the list of uploads
  (`EditHandler.cpp:333`): `parsePath` looks for another name, or answers 400.
  `OffersAreServed` excepts such names.  `parsePath` accepts escapes such as
  `%+A` (`StaticHandler.cpp:327`).
- For a path that ends in `%`, `parsePath` reads the byte behind the terminating
  zero (`StaticHandler.cpp:321`), and refuses the path whatever it is.
  `StaysInPath` is about the iterator between rounds and does not exclude it.
- Lambdas queued before `onError` still use `downstream_`; a late reply to a
  page can replace the cookie of a session that has signed in since; sessions
  made for error pages and static files are never used; opening a second editor
  makes the first one's save fail; a save repeated after a lost answer stores a
  new article twice; of two users who edit one article the later one wins
  unseen; files of refused uploads stay and are listed; a cookie of another
  program is cut at its second `=`.

The hazards in `PROJECT.json` have the lines of most of them.

## The proofs

All theorems are about every value of the constants; the assumptions are only
those named in the modules (`AccountsAssumption`: `None` is neither an account
nor an operation; and so on).  TLC evaluates them in every run.

**`StaticHandlerProofs`** proves every safety property of `static` and
the refinement.  None is inductive alone.  The invariant `IInv` is `TypeOK`
with:

- `Reader`: at most one of a waiting call, a thread in the loop and (by
  `Order`) a queued *done* lambda exists, and only while `scheduled`; otherwise
  the queue is empty.  `OneReader` follows.
- `Lifetime`: a deleted object is finished and not scheduled, so by `Reader`
  nothing refers to it: `NoUseAfterDelete`.
- `Order`: the queue is a run of chunk lambdas, then at most one end, then at
  most one *done*; an end is queued or has been sent only when the file is
  closed.
- `Overrun`: while paused at most one chunk too many was read, and none yet if
  a thread stands between the test and the read.
- `Chunks`: unless the connection failed, what is on the wire, followed by what
  is queued, is `1 .. pos`. With `Order` this maps `RunBody` to `Deliver` and
  `RunEom` to `Complete`.

**`SessionsProofs`** proves `TypeOK`, `ActsForOwnUser` and `SavesOwnForm`, for
any number of browsers and requests, with failing queries.  The invariant adds:
a request under way belongs to the browser its session was made for, and acts
on a password that was given there (`RequestsFit`); so do cookies (`Cookies`);
every row of `user_session` comes from a password given in that session by its
browser (`Rows`); a key in a row was issued since the row was made, and a row
without one means that none was (`KeysIssued`), which is when a blank key
passes.  The proof follows the queries: only `MapUser` makes rows, and
only after `PasswordRight`.

For `ExpiryHolds`, again with failing queries, it adds to the invariant that a
generated session, until its request has stored it, has no row and is known to
no other request and to no browser (`NewbornsAlone`), and that identifiers not
yet generated have no row (`FreshAbsent`): the first refresh of a session never
meets an expired one, so only a request that found the session in use, or whose
lookup failed, brings it back.

**`AccountsProofs`** proves `TypeOK`, `AddedOnce` and `ChangedByHolder`. The
invariant adds: an email reported as added has a row, which nothing removes
(`AddedExist`); a change past its check was given a password from `held`
(`Checked`); an operation that has not checked yet has seen the account's
present password (`Witnessed`); and an operation under way has not answered
(`Unanswered`).

**`ArticlesProofs`** proves `TypeOK`, `ChangedByOwnForm` and `StoredAsTold`
for any number of users, sessions, articles and concurrent requests, with
failing queries, and `OwnWorkKept` for the sessions in `Patient`, whatever goes
on in the others.  Keys are the
heart of it: a key in a row of `user_session` is the key of a form that was
rendered in that session for that user (`KeyOwners`), and a save past its check
holds such a key or a blank one, whatever it posted and whatever has become of
the row since.  For `OwnWorkKept` the invariant
says besides, of a session that has one request at a time: if a form's key is
still in its row, then nothing its user saved in the session is newer than
what the form showed.

**`PostBodyProofs`** proves `TypeOK`, `StopsOnlyOnFailure`, `SeenHasEnded` and
`ReportedIsWhole` whichever operations fail, from `StreamFits`: while a file is
read the stream is open for it, good, and has written the first buffers so far;
between parts it is closed; and only a failure of the part under way stops the
codec.  Parameters of other parts stand for parts that ended or could not be
written (`ParamsFit`), and the files of parts that ended have their first
buffers unless closing them failed (`FilesWhole`).

**`ServerProofs`** proves `TypeOK`, `ConnectionsAreHeld` and `Survives` for any
number of requests, threads and connections, whatever the database does.  The
invariant counts: `open` has only requests past `connect`, so that a connection
that cannot be had means a database that is down or as many requests in the
hands of handlers, or else the process ended parsing a cookie.
`SurvivesWithEnough` draws the conclusion: if the database does not stay down,
there is a connection for each request and all cookies have values (`Enough`),
the process never ends.

It proves the safety of `Routes` besides, for any articles, files and paths
people type.  `RoutesTyped` holds wherever files are put.  For
`OffersAreAlwaysServed` every link, form and redirect that a page can have is
followed through the factory and the handlers (`OfferedFound`, `FormsFound`),
with somebody signed in and with nobody, since another tab may have changed
that; the invariant (`OffersInv`) says that what a page in the browser offers
is among what there is, and that redirects lead only to `Destinations`.  The
theorem assumes `SameDir`, as the run sets it and the defaults of `main.cpp`
have it: without it the links of the list of uploads lead nowhere, and the
property is false.  It holds for any `Decoded` that leaves the code's own words
as they are; of the files it speaks of those whose names come out unchanged,
and TLC finds it false of the others.

**`Recursion`** has what proofs about recursive functions need.  The library's
induction theorems take a predicate, which the provers here cannot instantiate;
so `Induction` is stated of a set of numbers and proved from the least number
that is not in it, and `Recursion` gets from it that a function defined step by
step exists and stays in its type, `RecursionAgrees` that two of them agree as
far as their steps do.  Each recursive function of the model is then shown to
satisfy its equations once (`StacksSteps`, `UpToSteps` and the like), and the
rest of the proofs only uses those.

**`DocumentProofs`** proves all properties of `Render` and `Summary`, for
documents of any length and depth, texts of any size and handovers anywhere.
`Fits` says of the iterator that the events read so far are nested and that
`open` are the nodes they left open.  For `TagsNested` the invariant is
`Shows`: the elements open in the page are the nodes open in the document, but
for one paragraph in an item whose tag was not written; and it relates that to
`inItem`, which renderArticle clears when it leaves an item, whatever is around
it.  For the summary the invariant has one part for each loop (`AtFirst`,
`AtTitle`, `AtSeek`, `AtPreview`), each saying what the string is so far, as a
function of all events read, and which events cannot have been among them.

**`StaticHandlerProofs`** has the proofs of `Paths` too, for names and paths of
any length.  `PathInv` gives `StaysInPath`, which is about the iterator between
two rounds: an escape that would reach beyond the end contains the zero, which
no number does.  `Encoding` says that
parsePath has read a prefix of the encoding that stands for a prefix of the
name: the bytes that follow are those of the next byte of the name
(`NextOfName`), and one iteration reads just them.  `UriIsRead` is a lemma
about two recursive functions (`LibpqReadsEncoded`): after the encoding of each
byte libpq has just that byte more.

**Only model-checked.**  Liveness: `Delivered`, `Freed`, `RedirectsEnd` and
`ConnectionsReturned`, because TLAPS does not prove liveness under fairness.
The properties of the findings are false.  Every other property of the runs is
stated by a theorem.

## Not modelled, and why

`SiteTemplates`, `Config`, page layout and logging have no behaviour that could
go wrong in an interesting way.  Start-up, TLS and configuration are I/O done
once.  `findMimeType` is a table.  `parseCookies` is left out but for its
outcome for a cookie without a value (`Server`): a request of `Sessions` comes with the session cookie its browser has, or none,
and other programs' cookies are not looked at.  HTML escaping is absent from the code and is
text layout.  `publishdate` is set by nobody.  Session cookies and keys that the
server never generated are outside the models, which are about browsers; what a
browser posts is not restricted to what it was shown.  Memory, and
so the results that `execQuery` leaks when a query fails, is not modelled.

## Plan

The modules above exist, with their runs and, where TLAPS reaches, proofs.
What is left to do:

1. An abstract specification of signing in (who is signed in where, with expiry
   as an action) that `Sessions` implements while queries succeed, with the
   refinement checked and proved.
2. An abstract register for an article, with the histories that `Articles`
   allows it when browsers are patient.
3. `Server` composed with `Sessions`: which requests see which failures when
   the database restarts in between.
4. `parseCookies`, with names and values as sequences.
5. Names of several segments in `Routes`: `parsePath` may make a slash of an
   escape.
