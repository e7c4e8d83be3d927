# Banking backend: TLA+ models and proofs

This directory is the verification project of the banking backend in
`src/backend`: TLA+ modules translated from its code, the TLC configurations
that check them on small instances, and theorems about them that TLAPS checks
for every value of the constants. `PROJECT.json` maps each definition to the
lines it stands for, lists the runs, the findings, the hazards and the
theorems, and names for every checked property a mutation of the model that
breaks it.

## 1. The system

A FastAPI process per worker, PostgreSQL through SQLAlchemy's asynchronous
sessions, Redis, Celery workers with a beat, a storage backend for files,
language models behind HTTP. No request keeps state in the process, except for
objects that are built once (the loan graph's nodes, the storage backend).
What happens between requests happens in the database and in Redis.

Three facts about the wiring shape every model:

* `get_db` (`db/session.py:92-116`) gives each request one session. It commits
  when the handler has returned and **rolls back on any exception**, including
  the HTTP exceptions by which handlers give ordinary answers. FastAPI (0.115)
  runs this before the response is sent and before background tasks start.
* Isolation is PostgreSQL's READ COMMITTED: a statement sees what was committed
  when it starts, an UPDATE locks its rows to the end of the transaction, and
  one that waited for a row evaluates its WHERE again on the new version.
* Redis commands are atomic one by one and are not undone by a rollback.

### Components

| Component | State | Operations | What is hard | What makes it correct | Module |
|---|---|---|---|---|---|
| Refresh tokens and sessions (`auth/services/auth_service.py`, `db/repositories/user.py`, `endpoints/auth.py`) | `refresh_tokens`, password hash, reset token, status of `users` | login, refresh, logout, logout everywhere, change password, reset, verify e-mail | overlap of statements of several requests, rollback of what an exception was meant to report, bulk updates that miss uncommitted rows | a rotation is whole, a told revocation holds, one token per family, no session survives a password change | `AuthSessions`, `SessionBook` |
| Login lockout (`auth_service.py:122-242, 509-560`) | Redis counter and lock per address, failure count and lock per account | attempt, success, expiry | three separate Redis commands, rollback, key expiry between them | every counter ends, every failure counts, the limit locks | `LoginLockout` |
| Registration, verification, reset links (`auth_service.py:69-120, 374-507`) | `users`, verification and reset token | register, verify, request a link, reset, change | check-then-insert, a link used twice, an UPDATE by id that undoes what was committed since the read | one account per address, a link works once, and lifts one suspension at most | `Accounts` |
| Access tokens, roles, permissions (`auth/dependencies.py`, `auth/utils/rbac.py`) | none | admit a request, require a role or a permission | - | an account that is not active is not served | admission in `Accounts` |
| Audit log | append-only rows | log | written in the transaction it reports about | - | - |
| Rate limiter, CSRF, validation, middleware | Redis counters | check | as for the lockout; no route uses the limiter | - | - |
| Documents: upload, pipeline, workers (`endpoints/documents.py`, `documents/`) | `uploaded_documents`, files, Celery messages | upload, process, review, delete, retry, cleanup | a row and a file in two stores, redelivery, lost background tasks, a periodic task racing a job | a processed row has its file, a running job loses no decision, what can be processed is decided | `DocumentPipeline` |
| Document text processing (`ocr_service.py`, `preprocessor.py`, `extractor.py`, `chunker.py`) | none | validate, read, clean, extract, cut into chunks | which stage gives up for which content, loops over lengths and overlaps | only what was read is verified, no letter is lost, chunks are numbered in order | `Reading`, `Chunking` |
| Embedding service (`rag/services/embedding_service.py`) | cache in Redis | embed a batch | vectors put together by index from cache and computation, a cache written later by tasks that nobody awaits | each text gets its own vector | `Embedding` |
| Hybrid retrieval, BM25 cache (`rag/`) | `document_vectors`, corpus in Redis | index, delete, search, fuse, rerank, lay out | cache invalidated before commit; two rankings with ties and gaps | the next search sees what was indexed; the better chunk comes first, and an answer has the best | `CorpusCache`, `Retrieval` |
| Loan assessment graph, orchestrator (`orchestration/`) | graph state, shared node objects, `agent_traces` | run, stream, read a trace | parallel nodes writing one channel, retry and model fallback in shared objects, trace written and committed with the run | a trace says how its run ended, every run ends | `LoanAssessment` |
| Agents and tools (`agents/`) | none | run an agent or a pipeline | outputs that do not fit their schema, a failed stage passed on as a result | no summary rests on a failed stage, an output names its model | `Agents` |
| Guardrails | none | check input, check output | - | a refused query reaches no model | input check in `Agents` |
| Domain repositories (`db/repositories/`) | applications, reports, transactions, chats | number, create, soft-delete, add a message | numbers from `count + 1`, totals kept beside their rows | numbers are unique and dense, totals match | `Ledger` |
| Schema and migrations (`alembic/`) | tables | upgrade | - | - | as far as a module uses a table |
| Start, settings, logging, errors, health | - | - | - | - | - |
| Frontend (`src/frontend`) | stores | - | a shell: the API client has no refresh logic | - | - |

Components meet in five places: the users row (login, lockout, password
change, verification), the document row (requests, jobs, periodic tasks), Redis
(lockout counters, BM25 corpus, vectors), the vector rows (indexing and
search), and the transaction of a request, in which every service writes.
`Reading` is `DocumentPipeline`'s processing step seen from inside: there a
step that succeeds or fails, here an outcome that follows from the file.

### Notes from reading

Static defects met on the way; the models follow what the handlers do.
`core/config/settings.py` uses `Optional` without importing it; the model class
`AuditLog` has an attribute `metadata`, a name SQLAlchemy reserves;
`Depends(RequireStaff)` stands as default of parameters annotated
`CurrentUser`, which is a dependency already (`documents.py:335,367`,
`agents.py:112`, `rag.py:242,291`): FastAPI refuses such a route when it starts;
the fraud and the KYC agent call `asyncio.coroutine` for a missing argument,
which the Python 3.12 of the Dockerfile does not have (`FraudContextFails`);
`Enum(UserStatus)` stores member names while the migration creates lower-case
values. `RedisRateLimiter` and `check_*_rate_limit` are used by no route.

Orchestrator and vector store write casts `:name::type` inside SQLAlchemy's
`text()` (`orchestrator.py:189-191`, `vector_store.py:102, 202-206`). Its pattern
for parameters takes no name that a colon follows and finds `:ve` in
`:vec::vector`, a parameter that is given no value: as released, the insert of
a trace, of vectors and the vector search fail at every call, wherever SQLAlchemy
keeps that pattern. The models take these statements as meant, because what they
are about, overlap, commits and caches, comes back as soon as the casts are
escaped. That such a statement fails is among their behaviours (the SQL error of
`LoanAssessment` and `CorpusCache`, `RetrievalFails`); of the code as it stands
these behaviours are all that is left.

## 2. The modules

| Module | Stands for | Variables | Actions |
|---|---|---|---|
| `AuthSessions` | refresh tokens and every request that reads or revokes them | committed rows, user status and reset token, one record per request slot | one per piece of a handler between two statements: `LoginRead`, `RefreshRead`, `ReuseRead`, `LogoutRead`, `LogoutAllRead`, `ChangeRead`, `ResetRead`, `RevokeToken`, `UpdatePassword`, the bulk update row by row, the commits, `ReuseRaise`, `Abort` |
| `SessionBook` | the promise of that table: sessions are opened, handed over whole or closed, never reopened | the rows | `Open`, `HandOver`, `Close` |
| `MCAuthSessions` | `AuthSessions` with a history variable that remembers whether requests ever overlapped | + `overlapped` | - |
| `LoginLockout` | `authenticate_user`'s protection against guessing | Redis counters and locks, committed counters and locks of the accounts, attempts with what their transaction has written | one per Redis command or statement (`LockAccount` among them), `Raise`, `Commit`, key expiry, `Abort` |
| `Accounts` | the life of an account | committed row of each address, request slots, links made | the first SELECT of each of the five requests, `Insert`, `Update`, `Conclude` (commit and answer), `RollBack`, `LinkExpires`, `Suspend` |
| `Ledger` | running numbers and chat totals | time, committed rows, creations; messages, totals, additions | `GenerateNumber`, `InsertNumber`, `CommitRow`, `SoftDelete`, `DeleteRow`, `Tick`; `AddMessage`, `UpdateTotals`, `CommitMessages`, `DeleteSession`; rollbacks |
| `MCRecords` | `Accounts`, `Ledger` and `LoginLockout` side by side | + `part` | - |
| `DocumentPipeline` | documents between the table, the storage and the jobs | committed rows, files, jobs, the cleanup run | upload, staff decision, deletion, the stages of a job, `Abort`, `ProcessLost`, `Retry`, the two periodic tasks step by step |
| `MCDocuments` | `DocumentPipeline` with one document and everything, or two that compete for the retry | + `part` | - |
| `Reading` | what the stages of a job do with a file of a type | the reading | `ValidateBytes`, `OcrExtract`, `OcrRaises`, `CleanText`, `ExtractMetadata`, `ChunkStage`, `ReadingEnds` |
| `Chunking` | the four strategies of `DocumentChunker` | the cutting | one per turn of a loop: `ChunkFixed`, `ChunkPage`, `ChunkParagraph`, `ChunkSentence`, `ChunkRest`, `FilterEmpty` |
| `Embedding` | `embed_batch` and its cache | cache, batches, unfinished writes | `EmbedBatch`, cache reads, `ComputeEmbeddings`, late and lost cache writes, expiry |
| `Retrieval` | one retrieval request | the request | both searches, `RrfFuse`, `Rerank`, `Cut`, `Merge`, `ScoreRetrieval`, `FormatResult`, `RetrievalFails` |
| `MCReading` | the last four side by side | + `part` | - |
| `CorpusCache` | knowledge bases and the keyword corpus in Redis | committed rows and counts, cached corpora, requests | each statement and Redis command of index, delete and search, their errors, `Commit`, `CacheExpires`, `Abort` |
| `LoanAssessment` | runs of the loan graph, shared node objects and the trace row | runs, committed rows, answers, models | trace insert, calls of a node, end of a graph step, trace update, commit, each failure, `ClientLeaves`, `Restart` |
| `Agents` | the six agents, the pipelines and the agent endpoints | one record per request | `CheckInput`, `BuildContext`, `CallAnswers`, `CallFails`, `Parse`, `Summarise`, `Leave`, `Crash` |
| `AuthSessionsProofs`, `DocumentPipelineProofs`, `CorpusCacheProofs`, `LoanAssessmentProofs`, `AgentsProofs`, `ChunkingProofs` | the theorems about the module of that name | - | - |
| `RecordsProofs` | the theorems about `Accounts`, `Ledger` and `LoginLockout` | - | - |
| `TextProofs` | the theorems about `Reading`, `Embedding` and `Retrieval` | - | - |

Uncommitted writes live in the record of the request (`req`, `att`, `job`,
`run`) and reach the table's variable in its `...Commit` action; a raise drops
them. A row lock is a guard over the other records (`TokenFree`, `UserFree`,
`RowFree`, `DocFree`). Redis and storage are changed by the action that issues
the command. Variables listed as observed by the properties appear in no guard
of a system action.

Choices a reader of the code will look for:

* *Sessions.* A refused login or an expired token ends before any write and is
  left out; the branch for a token that is validly signed but not in the table
  cannot be reached, since tokens are only signed for rows that are then
  committed or rolled back together with their answer. The insert of the new
  token is invisible until the commit and is merged with it. The bulk UPDATE
  visits its rows one at a time and waits where one is locked.
* *Lockout.* An attempt keeps in `writes` what its transaction has written;
  `GetDb` commits it when the handler returns and drops it when it raises, and
  every refusal is a raise. That no lock is ever kept is thus a result
  (`LockingIsLost`), not a part of the model: with a `Raise` that commits,
  `locked` and `failed` fill up. `LockExpires` waits for the counter that was
  there when the lock was set: the lock lasts 900 s, the counter 300 s, and an attempt is taken to
  be shorter than the ten minutes between them.
* *Documents.* The file was validated by the upload, so `validate_bytes`
  passes again in the job; the storage key in the first message was never
  saved. A Celery message is acknowledged late and delivered again when its
  worker is lost; a background task is not. `MarkExpired` stands for whatever
  sets the expiry, which no code in `src/` does. The retry and the cleanup
  take any `RetryLimit` and `CleanupLimit` of the rows that fit (20 and 50 in
  the code, `tasks.py:185, 239`): without ORDER BY the database may return the
  same ones each time. That a row has to be half an hour old is left out.
* *Corpus.* A document stands for its chunks. Errors of Redis are swallowed by
  the code; an SQL error that is swallowed leaves a transaction whose COMMIT
  rolls back. The statement of the semantic half that precedes the keyword
  half changes nothing. The knowledge base is assumed to exist.
* *Loan graph.* What a model answers is success or failure. `Conflict` is
  LangGraph's rule for channels without a reducer. Guardrails are left out: a
  loan run's state has no query for the input check, and the output check adds
  keys that the state does not have. FastAPI closes the session of a streamed
  answer's request before its body runs, so only the commit inside the
  generator counts.
* *Accounts.* The reset and verification links are sent by code that `src/`
  does not have; a link is used by whoever has it. `LinkExpires` and `Suspend`
  come from outside too. A suspension waits for the row lock like every UPDATE.
  A verification link works for a suspended account, as in the code.
* *Numbers.* Time is in seconds of a short day. The number of a loan
  application or a fraud report is the count of its day's rows, softly deleted
  ones included; that of a transaction has the second it was created in before
  the count. No route calls these functions, nor `add_message`; the
  model has the callers that their docstrings expect, each with a transaction.
* *Agents.* A schema is the set of its required fields without default. An
  answer of a model gives every field, none, or does not parse. Tools are mock
  data; what counts is which inputs make them raise.
* *Reading.* A page is the number of characters it gives without OCR; what OCR
  reads is a success or a failure. `PagesRead` and `Threshold` are the code's
  `max_pages_per_doc` and `SCANNED_THRESHOLD`.
* *Chunking.* A sentence is its length and a letter is its place, so that a
  chunk is a sequence of places and "nothing lost" can be said exactly. Pages,
  paragraphs and sentences are given; the patterns that find them are not
  modelled.
* *Retrieval.* Which rows are near a query is a free choice of a ranking, in
  which a chunk that two models indexed may come twice: rows are unique by chunk
  and model, and no search names a model. Of the filters `document_type` is
  applied by both halves, `document_id` by the keyword half only (the vector
  search has no such parameter), `user_id`, which stands for `bank_id`,
  `language` and `loan_application_id` too, by the vector half only.
  Fused scores are kept as integers, all over one common denominator; the
  rounding to six digits is left out. The reranker gives each result a score of
  either sign.

## 3. What the runs show

| Run | Properties | States, time | Shows |
|---|---|---|---|
| `auth_overlap` | `RotationAtomic`, `RotatedOncePerSlot`, `ToldRevoked`, `SerialFamilies`, `SerialPasswords`, `ImplementsBook` | 628k, 50 s | any two overlapping requests on three tokens: rotations are whole, a revocation that was confirmed holds, the table refines `SessionBook`; without overlap, families have one usable token and no session survives its password |
| `auth_live` | `EveryRequestEnds` | 60k, 23 s | waiting for row locks, deadlocks included, ends |
| `auth_reuse` | `ReuseInvalidatesFamily` **violated** | | the revocation of a reused token's family is rolled back by the exception that reports it |
| `lockout` | `LockedAfterMax` **violated** | | as many wrong passwords in a row as the settings allow, and the account is not locked: each count was rolled back with the exception that answered it |
| `documents` | `PassedHasFile`, `DecisionStands`, `ReviewEnds` | 141k, 60 s | a row that passed has its file, no staff decision gets between a job's first update of a row and its commit, a row under review whose file is there is decided in the end, unless more rows wait than the retry takes at a time |
| `doc_stalled` | `StalledResubmitted` **violated** | | the job of a lost background task is never resubmitted, since its row still says UPLOADED |
| `corpus` | `StaleExcused`, `CountCovers`, `EventuallyFresh` | 266k, 28 s | a corpus is stale only after a named overlap or error, the count covers the rows, staleness ends |
| `loan_runs` | `TraceAgrees`, `FallbackHasReason`, `NoneCompletes`, `EveryRunEnds` | 133k, 50 s | readable traces agree with answers, a node leaves its model only after a failed call of its own, no run is answered as completed, runs end however often calls fail |
| `records` | `RegisteredOnce`, `TokenUsedOnce`, `ResetLinkStands`, `SuspensionLiftedOnce`, `NumbersDense`, `AloneNeverRefused`, `TotalsMatch`, `TtlPending`, `LimitLocks`, `FailuresCounted`, `CounterEnds` | 572k, 80 s | an address registers once, a reset link works once and stays the last one up to named overlaps, a verification link lifts at most one suspension, numbers of a day have no gaps, only company makes a number collide, totals match; the counter of an address has a TTL or someone about to set it, except after an attempt that broke off, is never behind the failures unless a login cleared it, locks at the limit, and ends |
| `agents` | `SummaryFromAnswers`, `ModelUsedTrue`, `KycUnanswered`, `EveryRequestEnds` | 9k, 8 s | no summary rests on an error output, outputs name the model that answered, nothing with the KYC agent is answered, requests end |
| `texts` | `OnlyReadableVerified`, `NothingLost`, `IndexOrders`, `VectorsMatch`, `FusedDominates`, `BestKept`, `QualityPoor`, `ContextFits` | 168k, 85 s | five types are ever verified; no letter is lost by any strategy and chunks are numbered in order; each text gets its vector; fusion respects what both rankings say; without a reranker nothing found is better than what an answer of several knowledge bases holds; labels are useless; the window fits |
| `search_kb` | `SearchedWithin` **violated** | | the vector search of one knowledge base returns a chunk of another |

Every finding quotes, in `PROJECT.json`, the comment, docstring or test it
contradicts. Some have a run whose property is violated; where a run would
only show that the code never does what its comment says, a property of a
passing run states instead what it does (`NoneCompletes`, `KycUnanswered`,
`QualityPoor`, `OnlyReadableVerified`), so that a repair makes the property
fail and it has to be replaced by the promise, or names the exceptions
(`SerialFamilies`, `StaleExcused`, `ReviewEnds`, `SuspensionLiftedOnce`), so
that nothing but these is wrong.

Type invariants are theorems (section 4), which makes checking them in the
runs superfluous; the operators `TypeOK` can be added to any `.cfg`.

**Bounds.** Two request slots give every pair of overlapping requests, three
where a third party matters (a writer, a second writer and a search in
`corpus`); three tokens give a login, a rotation and a rotation of the result;
one user, address or document suffices where nothing is shared between
two, two documents in two knowledge bases where a document can move, and two
where they compete for the places of the retry. `MaxCount`
is two beyond the limit with two attempts. `MaxFailed` is 1 in `records`, so
that `lock_account` is called at all, and 2 in `lockout`, so that a count has
to be kept. One lost process or error, and one
retry, put a fault before, between and after any two steps of the other actor.
`MaxKey` lets two jobs save a file each after the upload's. In `documents` one
document meets everything, the limits being no limits there; two documents
with a `RetryLimit` of 1 are not deleted, expired or hit by a fault, and have
one staff decision each, enough to put a row without a file under review before
one that has one. What `MCDocuments` leaves out of a behaviour comes from
outside, so that fairness of jobs and retry asks for nothing it forbids.
`Kinds` splits the request kinds over `auth_overlap` (those that write several rows) and
`auth_live` (the others with them). `MaxRetries` is 3 in the code and 1 in
`loan_runs`, 2 in `agents`: a first, a last and (with 2) a middle attempt; the
theorems cover every value.
`records` has two links, so that a second replaces a first, and days of two
seconds with one change of day, three rows for two writers, messages with and
without tokens. `agents` has one request, because requests share nothing.
`texts` has files of two pages of which one is read; documents of up to two
pages of two paragraphs of two sentences, each shorter or longer than a chunk
of four with an overlap of one, which covers a text that fits, one that fills a
chunk, and one that is split by force; two models and two texts for the cache;
two chunks and two lists, which have every order, tie, gap and repetition; two
knowledge bases; a context window of fourteen with headers of two, which a result of nine has to be cut for.
`CHECK_DEADLOCK FALSE`: the counters are bounded, and an idle system with all
of them used up stops. `lockout`, `records`, `agents` and `texts` need no such
exemption.

**Symmetry.** `auth_overlap` over tokens, requests and users, `texts` over
texts, batches, chunks and knowledge bases: none of these is ordered by the code
or picked by `CHOOSE` where it shows, and no liveness is checked there.
`records` checks `CounterEnds` and has no symmetry.

**Fairness.** Weak fairness for what the event loop or a worker resumes and
for keys that expire (each has a TTL; one without is the subject of
`TtlPending`). Strong fairness where a step waits for a row lock
(`AuthSessions`, `DocumentPipeline`): PostgreSQL queues the waiters of a row,
so one of them cannot be passed over for ever while the row keeps becoming
free. In a circle of waiters PostgreSQL aborts one. Celery's beat starts
`retry_failed_documents` again and again; fairness is asked of the task as a
whole (`RetryTask`), never of a document, because which rows it gets is the
database's choice. `ReviewEnds` therefore excuses a document while more than
`RetryLimit` rows wait: a row without a file never stops waiting, and 20 of
them can keep a document that could be processed from ever being submitted
(section 5). A model call returns or raises: its client has a timeout (`agents`,
`loan_runs`). No request, job or client has to arrive, and no fault has to
happen.

## 4. What is proved

For any users, tokens, request slots, addresses, limits, documents, retries,
texts and faults:

| Module | Theorems | Argument |
|---|---|---|
| `AuthSessionsProofs` | `TypeCorrect`, `RotationIsAtomic`, `OneRotationPerSlot`, `ToldStaysRevoked`, `Refinement`, `NothingReopens`, `FamiliesOfOneUser`, `RotationsStayInFamily`, `FamiliesSerial`, `PasswordsSerial` | The table alone does not say what open transactions are going to write. `IInv` adds that a token to be inserted is reserved for one slot and absent from the table (`NewTokensReserved`), and that what a slot has updated belongs to its user and is locked by it (`RequestOK`). The refinement maps each commit to one step of `SessionBook`. That nothing reopens, and that a family is one user's, need no look at the requests any more: they are proved of the steps of `SessionBook` and hold of the requests because these refine it. `SerialInv` says what a request that is alone may rely on: the token it read is still live, the password it verified is still the user's. |
| `RecordsProofs` | `TypeCorrect`, `TtlFollows`, `LimitHolds`, `EveryFailureCounted`, `LockingIsLost`; `AccountsTyped`, `RegistersOnce`, `TokensUsedOnce`, `ResetLinksStand`, `SuspensionsLiftedOnce`; `TotalsAreRight`, `NumbersAreDense`, `AloneIsNumbered` | `AttemptsPlaced`: where a login attempt stands and what it has counted. `Tallied` follows the failures of an address beside its counter. `Forgotten` and `LoginWrites`: no failure is kept, because what has written a count or a lock can only raise; so every count is 1. `AInv`: one open transaction at a time holds an address (`CommitsAlone`), a password update that did not see the latest link was crossed by it (`LinksSeen`), two resets that hold one link both read it before it was used (`TokensFollow`), and as long as no two verifications of an account overlapped, the one under way finds it unverified, and a lifted suspension leaves it verified, its link spent (`VerifiesFollow`). `NInv`: the committed rows of a day are 1 to n (`RowsCounted`), and an open creation has a number up to n + 1, exactly n + 1 while it is alone (`WritersCounted`); this needs cardinalities of finite sets. |
| `DocumentPipelineProofs` | `TypeCorrect`, `PassedKeepFiles`, `DecisionsStand` | No two rows, jobs or selections of the cleanup share a storage key (`Keys`, `Selected`), so a deletion never takes a file that another row has. `Locks`: a job past its first UPDATE holds its row. |
| `CorpusCacheProofs` | `TypeCorrect`, `OnlyCommitted`, `StaleHasReason`, `CountIsEnough` | `HoldersDiffer`: rows have one writer. `OverlapExcused`, `RowsFresh` and `InvalidatedFirst` follow staleness from the read or the invalidation to the write-back or the commit that causes it. The count needs finitely many documents and cardinalities. |
| `LoanAssessmentProofs` | `TypeCorrect`, `TracesAgree`, `FallbacksHaveReasons`, `NoRunCompletes`, `AnswersAreFinal`, `WorkBounded`, `RunsAdvance` | `ProgressOK`: a run gets no further than the parallel step, whose patches meet in `current_node` whatever became of the two nodes. So what follows is an exception, and the trace of an exception that is committed says `failed`. `Work` counts the calls, retries and steps a run has left: each node its `max_retries`, and no node comes up twice. |
| `AgentsProofs` | `TypeCorrect`, `ModelsNamed`, `SummariesFromAnswers`, `KycNeverAnswered`, `WorkBounded`, `RequestsAdvance` | Only the support agent's error output fits its schema, so a pipeline that goes on has an answer; the KYC agent's parsed output never fits. The attempt and the flag of the fallback move together. `Work` counts the stages of the route and the attempts of a stage that are left. |
| `TextProofs` | `OnlyReadable`, `VectorsInOrder`, `WindowFits`, `FusionDominates`, `BestResultsKept`, `AlwaysPoor` | The cache and the tasks that are still to write it hold the right vector under each key, so it does not matter when they run; a reading that is past a stage passed it. What sorts a list puts each element at the number of those ahead of it (`OrderedLists`), which needs cardinalities; the share of a rank falls strictly (`ShareFalls`) and even the first two places in both lists score less than any label but poor asks for (`RrfBounds`), so the order of two chunks follows from their places. `Covered`: for whatever a search has cut there are `top_k` results as good, and these outlive the merge (`CutCovers`, `MergeKeeps`). |
| `ChunkingProofs` | `NoLetterLost`, `ChunksOrdered`, `ChunkSizesBounded` | `ChunkerInv`: the letters of a document are always in a chunk, in the text being filled, or in a sentence, paragraph or page that is left (`Contained`), and the next number is above all given ones while more chunks can come (`Numbered`). What the texts of a document are is found by induction along the sequence (`JoinedSteps`, `JoinedRange`, `JoinedLength`). |

The two `Work` theorems of `Agents` and of `LoanAssessment` are the half of
`EveryRequestEnds` and `EveryRunEnds` that a prover can see: a number that every
step lowers and that is bounded at the start. What is left to fairness is only
that a step which can be taken is taken.

The bound of `ChunkSizesBounded` is exact: with one character less it fails. It
replaces what one expects, that no chunk is longer than `chunk_size` and an
overlap (section 5).

Assumed are only the `ASSUME`s of the modules: bounds are natural numbers
(limits positive), the null values are not in the sets they complete, `Doc` of
`CorpusCache` is finite, the overlap of chunks is positive and smaller than
their size, and a list of the retrieval has at most 100 entries (the code asks
for `top_k_hybrid`, 20 by default; up to 100 the integers that stand for the
fused scores differ for each two ranks). TLC evaluates them in every run.

`TracesAgree` holds because no run completes (`NoRunCompletes`). A streamed run
that did complete would leave its trace at `running` while its client is told
`complete` (`orchestrator.py:136`): once the parallel nodes are repaired, the
invariant has to fail until `stream` writes its trace too, and the run shows it.

Induction over numbers comes from the library's theorem on minimal elements
of well-founded orders (`LeastNumber`, `Induction` in `ChunkingProofs`), which
has no operator as a parameter. With it a recursive function over a sequence
has a solution (`Recursion`) and its values can be followed.

Only model-checked: the liveness properties `EveryRequestEnds` (sessions and
agents), `CounterEnds`, `ReviewEnds`, `EventuallyFresh` and `EveryRunEnds`,
because fairness and ENABLED are beyond the prover. The four runs that expect a
violation have nothing to prove. Every safety property of a passing run has a
theorem.

## 5. Disagreements without a run of their own

* Endpoint text says a password change ends all sessions
  (`endpoints/auth.py:303`); a login or refresh that overlaps it can survive.
  `SerialPasswords` shows that only overlap does it.
* `verify_email` lifts a suspension (`auth_service.py:486-496`, `user.py:136`):
  the registration link of an account that was suspended before it was verified
  makes it active. `SuspensionLiftedOnce` shows that it does so once, because the
  link is spent by it, and that only overlapping verifications do so twice.
* The retry takes 20 rows in no order (`tasks.py:185`) against "find documents
  stuck ... and re-submit them" (`tasks.py:168`): a row whose key has
  no file (its background task was lost before staff put it under review, or the
  cleanup took the file) fails in every task and keeps its place for ever.
  `ReviewEnds` excuses a document only while more rows wait than are taken.
* A login that succeeds clears the counter of its address before it commits
  (`auth_service.py:220`): rolled back after that, it was no success and the
  failures before it are forgotten. `FailuresCounted` names it as its only
  exception besides the moment before the commit.
* An attempt that breaks off between INCR and EXPIRE leaves a counter without
  TTL, against `rate_limit.py:10` and `settings.py:218`. `TtlPending` names
  that case as its only exception.
* `loan.py:144` promises a "unique application number"; two creations of a day
  that overlap compute the same one and the unique index refuses the second
  (`AloneNeverRefused` shows that nothing else does).
* A fault of storage or extraction becomes a rejection of the document
  (`pipeline.py:174` against its own header, line 8).
* `documents.py:102` sends a task for a storage key that is never saved;
  `tasks.py:66` expects a file there.
* The cleanup can leave a file that a job committed after its select
  (`tasks.py:219`, `246`).
* `HumanEscalationNode` "Creates an alert in the DB" without writing one; an
  escalated run's output has no status, so the endpoint answers "completed".
* The graphs `fraud_detection` and `document_verification` are offered by the
  endpoint and cannot be built; the models have them as the workflow `other`.
* `RiskScoringNode` calls `1 - |risk - 0.5| * 0.5` "inverse of risk
  uncertainty": it is highest where the risk is least certain and never below
  0.75, so the confidence test of `route_after_risk` sends no run to a human.
* "Use fallback model on retry" (`base_node.py:173`) also holds for all first
  attempts of later runs.
* The error outputs of five of the six agents do not conform to their schemas
  (`base_agent.py:228`); the risk agent's default decision "review" is not in
  its enum. In `Agents` both end a request with status 500.
* Indexing a document into a second knowledge base is answered "indexed into",
  while its rows stay in the first.
* The two halves of a search apply different filters. "enforce user-scoping for
  private KBs" (`rag.py:67`) reaches the vector half only: `_apply_filters`
  looks at the document and its type (`bm25_retriever.py:258-259`), so the
  keyword half returns rows of other users. A `document_id` in the request
  reaches the keyword half only: `semantic_search` has no such parameter
  (`hybrid_retrieval.py:119-135`), so rows of other documents are returned.
* After a change of `RAG_EMBEDDING_MODEL` a re-indexed document has its rows
  twice (`models/vector_store.py:84`) and no search looks at the model: a list
  holds a chunk twice, its shares add up, and it can come before a chunk that
  both halves prefer. `FusedDominates` makes this its only exception.
* The endpoint sorts the results of all knowledge bases by `hybrid_score`, so
  the order that the reranker made is lost (`BestKept` says what the merge does
  keep, without a reranker), and two knowledge bases that share
  rows repeat chunks. Cross-encoder scores can be negative, and results that
  were not reranked then come first.
* The similarity threshold of `semantic_search` is compared with a distance.
* Nothing inserts into `document_chunks`, so `POST /rag/index` always answers
  that no chunks were found.
* "Single para larger than chunk_size — split by sentences" (`chunker.py:167`)
  holds only where the current chunk is empty: a paragraph or a sentence that
  comes to a chunk with text in it is appended whole, however long it is
  (`chunker.py:158-165, 173-178`). `ChunkSizesBounded` has the bound that holds.
* After a forced split `char_start` and the running index of the next chunks
  are wrong (`chunker.py:182`); `IndexOrders` shows that the order survives.
* A PDF with enough native text keeps the pages that are images empty, and a
  document of several pages is chunked from the raw texts of its pages, not from
  the cleaned one. `MIN_CONFIDENCE`, the OCR timeout and `is_empty` are read by
  no code.

## 6. Not modelled

* *Data.* Prompts, what a model says and the scores computed from it, OCR text,
  the corrections of the preprocessor, the patterns of the extractors,
  tokenisation, distances: no protocol depends on them beyond success, failure
  and order, which the models choose freely.
* *Constant tables.* Roles and permissions are a fixed hierarchy and a fixed
  table, read and never written by requests; a model of them would copy them.
* *Rows nobody reads.* The audit log is appended in the transaction of its
  request, so it shares the rollbacks that `AuthSessions`, `LoginLockout` and
  `Accounts` show; no decision depends on it. `process_document_batch` has no
  caller and submits empty keys; `reindex_document` has no caller.
* *Edges.* Middleware that edits headers, CSRF, input validation, the rate
  limiter no route uses (its INCR and EXPIRE are those of `LoginLockout`),
  logging, settings, start-up and health checks, the frontend's pages.
* *Declarations.* Migrations and column definitions beyond the unique indexes
  and defaults that the modules use. Repository functions that are a single
  SELECT or UPDATE and have no caller.
* *Repeats of a run.* Two agent requests at a time (they share nothing), and
  the graph's output guardrail, which writes keys that the state does not have.

## 7. Plan

The order of the work was: sessions, lockout, documents, corpus, loan runs,
because revocation and loss of decisions are what the backend can least afford
to get wrong; then accounts and numbers, agents, the way of a text, and the
proofs of each. What is left:

1. The scores of the loan graph: the weighted risk and `route_after_risk` over
   a small grid, once the parallel step is repaired and a run can reach them.
2. The frontend's API client, when it refreshes tokens: a client that retries
   on 401 composed with `AuthSessions`.
3. An abstract specification of `DocumentPipeline` (a document is stored,
   decided, expired or deleted) and a proof that the jobs implement it, as
   `SessionBook` is for the sessions; and one of `CorpusCache` up to its named
   exceptions.
