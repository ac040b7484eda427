# A verification development for flamoris-ai-agent

The Agent is a small Python service that lets an authenticated delegator hold a
conversation, turn by turn, with a configured AI agent.  Everything that has to
survive is in PostgreSQL; everything else is one event loop per process and the
worker threads it awaits.  The program is short, and nearly every line of it is
about something that may happen in between: a second caller, a lost commit, a
dead process, a provider that does not answer.  Those are what the modules here
describe, what TLC checks on small instances, and what TLAPS proves for all.

Paths below are relative to `src/src/flamoris_ai_agent/` unless they begin with
`db/`, which is `src/db/`.

## 1. The system

| Component | State it keeps | Operations | Talks to |
|---|---|---|---|
| Principal sessions: `principals.py`, `db/migrations/002, 003, 005` | `chat.principal_sessions`, `chat.principal_continuations`, grants | open, hand off, require, `continues_on`; revoke; the owner's retention job | every call passes its `require` |
| Agent turn: `mcp_service.py` `_run`, `runtime.py`, `mcp_store.py`, `db.py` | `chat.conversations`, `participants`, `messages`; an `AgentSession` per turn; an update lease | start, ask, close; the request fence | sessions (admission), provider, personality store, update gate |
| Scoped service: `scoped_service.py`, `mcp_service.py` | flags: `active`, `continuing`, `continuation_task`, `probing`, `settings_active`, `closing` | ask, continue, open, settings, availability, `aclose` | all of the above, through worker threads |
| Availability probe: `availability.py` | none | one probe of every prerequisite | provider, database |
| Personality store: `personality.py`, migration 004 | personality, its revisions, context grants | import, save, read, history, grants | read by a turn when it starts |
| Model selection: `model_settings.py`, `execution_target.py`, migration 004 | `chat.principal_options`, model grants; registry digests from configuration | options, configure, require | handoff and turn admission |
| Provider clients: `direct_execution.py`, `intelligence.py`, `execution.py` | an HTTP client | resolve, validate, execute | external providers |
| Update gate: `updater.py`, `flamoris_update_core` (external) | leases in files; nothing of its own | `inspect_domain`, `guarded` | reads conversations |
| Provisioning: `setup.py`, `register_runtime.py`, `model_settings.py` `main` | core and runtime rows | insert-or-verify | operator |
| Console: `chat.py`, with `runtime.py`, `db.py` `PostgresStore`, `prompts.py` | one `AgentSession` and its window over many asks; conversations | start with the previous conversation, ask, leave, close | provider, database, update gate |
| Transports, other prompt text, verification tools, packaging | none that matters here | plumbing and pure functions over text | |

How they meet.  An ask enters `ScopedAgentService.ask_scoped`, which tests the
flags, requires the session in a worker thread, tests the flags again, and runs
`AgentService._run`: that builds an `AgentSession`, which resolves the model,
opens an `MCPStore` (copying a parent conversation if one is named), validates,
commits its conversation under the session's row lock, saves the question, calls
the provider once, saves the answer, and is closed in a shielded cleanup.  A
handoff enters `continue_session`, whose transaction runs in a thread that
cannot be cancelled and replaces one session by one successor.  Retention and
the updater come from outside, by SQL, in their own time.

What is hard in it:

* *several processes and one database*: the request fence, the namespace
  advisory lock and two kinds of row lock have to be enough, under READ
  COMMITTED, against every interleaving of statements;
* *commits nobody hears of*: a statement may commit while its connection dies;
  the caller retries, in this process or another;
* *awaits*: whatever a coroutine tested may be stale after its next await, and
  a cancelled caller leaves a thread running behind it;
* *limits that must fit each other*: 128 and 32 sessions, 31 handoffs and a
  walk of 32 rows, 2 settings operations, one probe, one turn;
* *settings that differ*: during a rollout two processes read one model id as
  two targets, and settings switched on later meet sessions from before;
* *things that must end*: a shutdown beside a provider that never answers,
  registrations that wait for each other's uncommitted rows.

`PROJECT.json` lists each such hazard at its line, with the properties that
would catch it going wrong.

## 2. What makes each component correct

* **Principal sessions.**  A session is handed off at most once in all of
  history, to a successor of the same principal, and only when each of its turns
  ended with an answer; limits hold under any race; retention neither cuts a
  lineage nor leaves unfinished work behind; a reply names the caller's own
  session.
* **Agent turn.**  One request id costs at most one provider call; an answer
  that was acknowledged is durable and its conversation closed; an update lease
  never vouches for work that is not finished; what a conversation inherits from
  its parent is frozen.
* **Scoped service.**  The flags say what runs, at every await and after every
  kind of failure; a turn and a handoff's transaction exclude each other; a
  service that was shut down is quiet; ready is never stale; shutdown and calls
  come to an end.
* **Personality store.**  A gapless history to its last revision, one revision
  per accepted request and only on top of what its editor saw; equal retries are
  answered equally; an authority that was lost while a save waited does not
  count; a walk through the pages misses nothing.
* **Model selection.**  A turn is inferred on the very target its session was
  opened with, admitted on a grant that still stood, and a handoff is
  acknowledged only for the model it asked for; what was recorded without a
  model is not carried on under one.
* **Provisioning.**  A command leaves all rows of a transaction or none, never
  changes what a key means, and comes to an end.
* **Console.**  What the model is sent is what the transcript says, an answer
  stands once and behind its own question, and the updater hears of a known
  outcome only if it is one.

## 3. Modules

`Tables` holds tables as functions, and the two kinds of session id: `UuidV4`
(random) and `HandoffId` (the `uuid5` of delegator, parent and request, hence
equal exactly for equal names), and the walks of a given length along a table of
links, without recursion, so that the proofs can speak of them.

### SessionAuthority and PrincipalSessions

`SessionAuthority` is the promise: issue, hand off, admit, answer, close,
revoke and retire are single steps on sessions without locks or clock.

`PrincipalSessions` is the code: connections run the transactions of
`PrincipalSessions.open` and of `MCPStore.start`'s admission one statement at a
time.

| Code | Module |
|---|---|
| `open`: advisory lock and arguments; the lookup of an existing continuation; `SELECT ... FOR UPDATE`; `require_on`; pending turns and depth; grants and limits; the inserts and the commit | `OpenBegin`, `FindContinuation`, `LockSource`, `RequireSource`, `CheckPending`, `Resolve`, `CommitOpen` |
| `MCPStore.start` up to its commit, with `require_on(lock=True)` | `AskBegin`, `CommitAsk` |
| rollback, lock timeout, constraint violation, lost connection, crash | `Abort` |
| `save_message`, `close_runtime` | `SaveAnswer`, `CloseRuntime` |
| the revocation trigger; `retire_principal_sessions`; an operator's SQL on grants | `RevokeSession`, `RetireSessions`, `ChangeGrant` |

Writes become visible at the commit, so a transaction's last step makes them
all.  Locks are not variables: a lock is held exactly while its transaction
stands past the statement that took it, and `AdvisoryLock`, `RowExclusive` and
`RowShare` read that off `pc`.  A handoff that committed but whose reply was
lost is a `CommitOpen` whose caller calls again: `OpenBegin` allows every
request at any time.  `issued` is a history variable, not a table: ids ever
committed.  The two recursive queries are sets of walks along the links
(`Walks` of `Tables`): `HandoffDepth` counts the lengths of those from a
session, as the query counts its rows, and `ContinuesOn`, the test an ask
applies to its parent, looks for one of less than `WalkLimit` links.

### RequestLedger and AgentTurn

`RequestLedger` is what a caller may rely on: a request is admitted once, goes
forward through admitted, asked and answered while it is open, is inferred at
most once between question and answer, and is acknowledged only closed.

`AgentTurn` is one turn in each of several processes.

| Code | Module |
|---|---|
| `AgentSession.start`: resolve; `MCPStore.open` and `restore_context`; validate; `MCPStore.start` | `Resolve`, `OpenStore`, `Validate`, `StartStore` |
| `AgentSession.ask`: validation; save; execute; its return; save | `AskValidate`, `SaveUser`, `Execute`, `ExecuteDone`, `SaveAnswer` |
| `AgentSession.aclose`: `store.close`; then client, lease and response in `_run` | `CloseStore`, `Release` |
| a dead process | `Crash` |
| `inspect_domain`'s query | `Uncertain` |

A provider error, a timeout and a cancellation have the same effect on state:
the turn goes to its cleanup without an answer.  Two details of the cleanup are
worth knowing.  A native `task.cancel()` is not held back by anyio's shielded
scope, but `store.close` runs before the cleanup's first await, so the
conversation is closed all the same.  And a failed `start` leaves the lease
unknown for good, which is why `LeaseOutcome` looks at `failed` and not at the
cleanup alone.  Cancelling the call here proves nothing about the provider's
side; the model, like the code, never retries it.

`said` is the session's own `history`: the messages whose saves it heard
return.  Comparing it with what is stored is how `KnownLease` tells a save that
failed after its commit from one that did not happen.  Its window
(`AGENT_CONTEXT_MESSAGES`) is taken to hold the two messages of the one ask;
`ConsoleSession` has the window.

Abstracted: a message is its role and request; the text that a Studio
attachment adds to the carried window is left out; the reasons for which a step
refuses are one nondeterministic refusal, the session's authority among them.

### ScopedService

One process.  A step is what a coroutine does between two awaits; each of
`Calls` serves call after call.  `transitions` holds the handoff transactions
whose thread still runs, which is not the same as `continuing`: that difference
is what cancellation is about.  Refusals that change nothing are not steps.

| Code | Module |
|---|---|
| `ask_scoped`, `_run` | `AskStart`, `AskRun`, `TurnEnd`/`TurnCancelled`, `Cleanup` |
| `continue_session` with its thread and its wait after cancellation | `HandoffStart`, `Transition`, `HandoffEnd`, `HandoffCancelled` |
| `settings_operation`, `open_session` | `SettingsStart`/`End`, `OpenStart`/`End` |
| `availability` | `AvailabilityStart`, `ProbeStart`, `ProbeEnd`, `ProbeFailed`, `ProbeTimeout` |
| both `aclose` | `CloseStart`, `CloseTurn`, `CloseEnd` |

### RevisionLog and PersonalityStore

`RevisionLog` is what editors may rely on: a log that grows by one entry made on
top of exactly the one its editor had seen, one entry per request id.

`PersonalityStore` runs the transactions of `personality.py` one statement at a
time, on several connections.

| Code | Module |
|---|---|
| `save`: the first `authorize`; `SELECT ... FOR UPDATE` of the head; the second `authorize`; the request fence, `expected_revision` and capacity; the inserts and the commit | `SaveBegin`, `LockHead`, `Reauthorize`, `Decide` with `Refusal`, `CommitSave` |
| `import_personality` with its lock on the agent's row | `ImportBegin`, `ImportCommit` |
| `get`; `history`, one revision to a page | `Get`; `Page` with `From` |
| an operator's SQL on `personality_grants`, a session that ends | `ChangeGrant` |
| a lost connection, a lock timeout, a crash | `Abort` |
| the primary key, unique request and check of migration 004 | `Insertable` |

A revision row is the save that made it, its digest the request it hashes.
`walk` and `told` are what clients have, not tables; `allowed` in `call` is a
history variable: whether the editor had the right at any time since its
connection got the lock.

### ModelSelection

`ModelSelection` takes the steps of `SessionAuthority` together with its own, so
it is the composition of sessions, handoffs, turns and models: an action that
opens, hands off, admits, answers, closes, revokes or retires *is* that step of
the authority (which `PrincipalSessions` shows the database to implement), and
adds what models have to do with it.

| Code | Module |
|---|---|
| `PrincipalSessions.open` with `bind_on` | `OpenBegin`, `CommitOpen`, `Bindable`, `Keep` |
| `continue_session`: the lookup; `require` of the source; the handoff's transaction; `models.require` after its commit, on another connection | `ContinueBegin`, `RequireSource`, `Bind`, `CommitHandoff`, `Confirm` |
| `ask_scoped`; `_configured`; `MCPStore.open`; `MCPStore.start` with its second connection | `AskBegin`, `Construct`, `OpenStore` with `Continuable`, `StartLock`, `StartModel`, `Admit` |
| `registry`, `require_on`, `allowed_on` | `registry`, `Option`, `Require`, `Allowed` |
| a process restarted with other settings; an operator's grants | `Restart`, `ChangeGrant` |
| migrations 002, 003, 005 on the rows of a session | `Revoke`, `Retire` |

There is one principal, as the model rows are per session and the rules between
principals are `PrincipalSessions`'.  A digest covers the whole of an option, so
two options are equal exactly if their digests are.

### Provisioning

A command is a sequence of transactions, each a sequence of statements: `setup`
(select, compare, else insert), `put` (`ON CONFLICT DO NOTHING`) and `verify`.
The constant `Plan` says which, so one module stands for `setup_identity`,
`register` and `model_settings.main`.  `own` holds what an open transaction has
inserted: others do not see it, and their insert of such a key waits (`Blocked`)
until the end of that transaction or the `lock_timeout` of `db.py:30`
(`LockTimeout`).  An insert that waited for one that then commits is a unique
violation in `setup` (`Fail`) and no row at all in `put`.  `WholeTransactions` has
two halves: what a transaction left behind is whole (`LeftWhole`), and what a
transaction that is about to commit sees is what its configuration names, also
when it inserted nothing (`EndsRight`).

### ConsoleSession

`AgentTurn` describes sessions of one ask; a console has one `AgentSession` for
many, over the unscoped `PostgresStore`.

| Code | Module |
|---|---|
| `AgentSession.start`: resolve, `PostgresStore.open` with the two statements of `get_previous_conversation`, validate, `start_conversation` | `Resolve`, `Open`, `ReadPrevious`, `Validate`, `Start`; `FailStart` |
| `ask`: the prompt from window and question; `validate_messages`; save; execute; save | `Ask`, `Refuse`, `SaveUser`, `Execute`, `SaveAnswer`; `SaveFails` is `_save`'s error |
| `run_console` ending, `aclose` | `Leave`, `Close` with `Outcome` |
| a dead process | `Crash` |

A message is its role and the number of its ask; `LastOf` is the slice that
makes a window.

Operators named `Mutant...` in these modules are seeded faults: what a
plausible mistake at that place would do.  No specification uses them; each
shows that the property it is paired with in `PROJECT.json` can fail.

## 4. Model checking

| Run | Instance | Shows |
|---|---|---|
| `sessions_races` | 2 connections; 1 delegator, 1 principal, 2 handoff requests, 2 turns; at most 3 and 2 sessions; handoff limit 1; time to 3 | `HandedOffComplete`, `OneSuccessor`, `RetiredQuiescent`, `OneGrantPerId` (the sentence at `db/migrations/003_principal_retention.sql:43`), and `Implements`: the tables implement `SessionAuthority` |
| `sessions_lineage` | 2 connections; 2 delegators with 1 principal each, 3 ids for opens, 2 handoff requests, no turns; at most 4 and 3 sessions; handoff limit 1, walk 2; time to 2 | `TypeOK`, `CapacityBound`, `LineageReachable`, `ReplyBinding` |
| `turns` | 2 processes, 2 requests of which either may continue the other, a window of 1, 2 personality revisions (1.2 million states) | `TypeOK`, `AtMostOnce`, `OkMeansDurable`, `KnownLease`, `UpdaterSees`, `OrphansStay`, `LineageFrozen`, and `Implements`: turns implement `RequestLedger` |
| `service_admission` | 4 calls, 2 settings operations | `TypeOK`, `Accounted`, `TurnXorHandoff`, `DownIsQuiet`, `ReadyIsTrue` |
| `service_progress` | 3 calls, 1 settings operation, no symmetry | `ShutdownCompletes`, `CallsReturn` |
| `personality_saves` | 2 connections, 2 editors, 3 requests, 1 reader, at most 3 revisions | `TypeOK`, `ChecksPrecedeConstraints`, `NoStaleAuthority`, `WalkContiguous`, `RetryHonoured`, and `Implements`: the store implements `RevisionLog` |
| `model_legacy` | 1 process that is restarted once from no settings to a local and a remote model; 2 sessions, 1 handoff, 2 turns | `TypeOK`, `ClassifiedHistory`, `HandoffAnswersItsTarget` |
| `model_rollout` | 2 processes, each restarted at will between two registries that map one id to a local and a remote target; 1 turn | `TurnUsesSelection`, `NoStaleGrant` |
| `model_export`, `model_disabled` | as `model_legacy`: two models throughout; settings that may be switched off again | expected violations, see below |
| `provisioning` | two setups with a clashing agent, two registrations in opposite order | `WholeTransactions`, `CommandsEnd` |
| `console` | 2 consoles, at most 2 conversations and 4 asks, a window of 3, 2 previous messages (4.5 million states) | `SentIsRecorded`, `AnswersFollow`, `KnownOutcome` |

Why these bounds suffice.  Every rule here is about two parties: two
connections that race for a lock, two processes with one request id, a call and
the shutdown.  Two of each, and a third call where the shutdown meets both a
turn and a handoff, give every pair of steps in both orders.  The limits are
small so that they are *reached*: in `sessions_lineage` three session rows fill
one delegator's room while the namespace has space, and four rows of two
delegators, none of whom has three, fill the namespace; the first handoff reaches
the handoff limit; a window of one message drops what it must.  The walk is one longer than the
handoff limit, as 32 is to 31.  A lifetime and a grace of one tick let a
session expire, wait and be retired within the clock's bound.  In `sessions_races` the single delegator's
limit of two is always met before the namespace's of three; `CapacityBound` is
checked in the other run for that reason.  The two principals there belong to two
delegators, while one delegator with two keys is left to the theorem.  Where an
instance is small in a way that could matter, the corresponding theorem (next
section) does not depend on it.

For the personality store, three requests are what it takes to have an import,
a save, a retry of it from behind a second save, and a refused third at the last
revision.  The console's window of three is overrun by its second ask, and a
window that begins with an answer is among its cases.  `model_legacy` has one
process because that is what its first property is about: settings that are
switched on everywhere at once.  With two processes of which only one has
settings, or with `MayDisable`, `ClassifiedHistory` does not hold, which is the
second finding; the code does not say that it should.

Bounds that are only bounds: `MaxTime` (clock), `MaxRevision` in `AgentTurn`,
`MaxConversations`, `MaxAsks`, and the sets of ids and requests; `MaxRevision` in
`PersonalityStore` is the code's 256.  Deadlock is checked in every run.

### Findings

Two sentences of the repository do not describe the code.

* `model_export`: the comment at `mcp_store.py:100`, "A remote conversation can
  only continue a previously admitted remote snapshot."  The test below it looks
  at conversations of the same session only, which must have the same selection
  already, so it never fires; after a handoff a remote model does continue what
  a local one began.  `docs/MODEL_CONTINUATION.md` wants exactly that, with
  consent: the comment is what is out of date.
* `model_disabled`: `docs/PHASES.md:26`, "Local-only or legacy-unclassified
  history cannot be exported."  A turn that runs while settings are switched
  off, under a session that was opened with a model, is recorded without one;
  when settings are on again a handoff lets a remote model carry it on, since
  across a handoff `MCPStore.open` asks for the lineage and not for the
  classification of the conversation.  The trace is that of an operator who
  switches the settings off and on within the life of a session; two processes of
  which only one has settings do the same.

### Fairness

`ScopedService` and `Provisioning` state fairness, and only for what the program
itself drives.  In `ScopedService`: the event loop resumes a coroutine that can run; a worker thread's
transaction ends, because every connection has a connect timeout of 5 s, a
statement timeout of 5 s and a lock timeout of 2 s; a probe ends, because of
`asyncio.timeout(15)`; a turn that was cancelled reaches its cleanup.  Nothing
is assumed of callers, of the moment of shutdown, or of the provider: `TurnEnd`
without cancellation is unfair, so `CallsReturn` lets a turn wait for ever, and
`ShutdownCompletes` holds although it may.

In `Provisioning`, a command that has begun goes on: its next statement is
answered, or, if it waits for another's row, ended by `lock_timeout`
(`Work \/ LockTimeout`, weakly fair).  Nothing is assumed of when a command
begins, fails or is repeated.  Of what ends a circular wait in PostgreSQL the
module keeps only the lock timeout: without it (`MutantWaitsForEver`) two
registrations in opposite order wait for each other.  In the real system the
deadlock detector and the statement timeout would end such a wait too, with the
same rollback.

## 5. Proofs

Assumptions are those of the modules: limits, lifetimes and windows are natural
numbers, a lifetime at least one, the limit on handoffs less than that of the
walk (31 and 32 in the code), a service's calls are a finite set, and `None` is none of the ids it stands beside.  `Provisioning`
assumes three things of `Plan` that hold of the three commands: transactions are
sequences of statements; what is `put` is verified later in the same transaction
(`PutAssumption`); and the transactions of one command share no key
(`KeysAssumption`).  No bound of section 4 is used.

**`PrincipalSessionsProofs`** proves `TypeOK`, `CapacityBound`,
`HandedOffComplete`, `OneSuccessor`, `RetiredQuiescent`, `ReplyBinding` and the
refinement of `SessionAuthority`.  None of them is inductive alone, since a
transaction acts at its commit on what it read several statements before.  The
invariant says what each lock keeps true for how long: at most one connection
is in a namespace transaction (`OneNamespace`), so room that was counted is
still there (`RoomHeld`); FOR UPDATE and FOR SHARE exclude each other
(`RowLocks`), so a source that was found live and complete stays so until it is
revoked (`SourceHeld`), and a session under which an ask is being admitted
outlives the admission (`AdmitHeld`); stored links join sessions of one
principal (`LinkOK`).  That an id is never successor twice rests on the parent
being revoked for good, and on ids being remembered in `issued` beyond the
rows' retirement.  `GrantsAreOnce` adds `OneGrantPerId`: the id of a handoff is a
hash of its names and can be computed again after retention has removed the row,
but the parent it was made from is revoked, and every path to the insert asks
for a valid one under its row lock.

**`LineageProofs`** proves `LineageReachable` and that `HandoffDepth` never
exceeds its limit.  A lineage is as long as the table makes it, so one would
expect an induction over it, which the provers do not do; none is needed if the
invariant speaks of all walks at once.  `Shallow` says that no walk from a
retained session is longer than the handoff limit, `OnePrincipal` that whatever
a walk reaches is retained and of the session's principal, and `DepthHeld` that
a source whose walks were counted before a commit has no longer ones at the
commit.  Four lemmas say what becomes of walks: the beginning of one is one
(`WalkPrefix`); removing links makes none (`WalkFewerLinks`), which is
retention; and a new link, of an id that no link names, can only come first
(`WalkNewLink`), which is a handoff.  With the assumption that 31 is less than
32, what `ContinuesOn` can reach is all there is.

**`AgentTurnProofs`** proves `TypeOK`, `AtMostOnce`, `OkMeansDurable`,
`KnownLease`, `UpdaterSees`, `OrphansStay`, `LineageFrozen` and the refinement
of `RequestLedger`.  The idea is ownership: a session whose start was heard to
commit owns its conversation, by the primary key nobody else ever does
(`OneOwner`), and so what it knows about the row from its own steps
(`OwnerFacts`) stays true whatever others do: among it, that the transcript is
what the session heard saved for as long as no save has failed, which is
`KnownLease`.  Since a step writes only a conversation that its process owns
(`OwnStep`), one without an owner stays as it is, which is `OrphansStay`.  `Executed` says that a provider
call implies a stored conversation; `SnapshotFacts` that what a session copied
from a closed parent is still there when it starts.  `Frame`, `OthersKeep` and
`RowsKeep` carry these past the steps that do not touch them, and there is one
lemma for each action that does.  Two results need roles of messages, which the
ledger does not show: a conversation is empty, its question, or its question and
its answer, with the provider call between the two
(`TranscriptsHaveOneShape`); and one that is closed never changes again
(`ClosedConversationsAreFinal`).  Both follow from what one step can do to one
conversation (`Forward`).

**`ScopedServiceProofs`** proves `TypeOK`, `Accounted`, `TurnXorHandoff`,
`DownIsQuiet` and `ReadyIsTrue` for any finite number of calls.  To `Accounted`
its invariant adds where the transactions' threads stand relative to their
calls, and what each stage of `aclose` has already waited for.  Of
`ShutdownCompletes`, whose fairness stays with TLC, it proves the two facts of
safety on which termination rests: what `aclose` waits for is the one handoff
that still runs, or the turn it has cancelled itself
(`ShutdownWaitsForItsOwn`), and while it closes nothing new begins, so that a
closing service only ever has less to do (`ClosingDwindles`).

**`PersonalityStoreProofs`** proves all that `personality_saves` checks,
`RetryHonoured` and the refinement of `RevisionLog` included.  Its invariant says
that only one connection is past the head's lock (`OneHolder`), that what it read
of the head is still so (`HeadHeld`), and that what it decided not to find is
still not there (`Decided`).  From it follow also that the history is one chain
of edits from one import (`HistoryIsAChain`) and that revisions never change
(`RevisionsAreImmutable`), for which migration 004 has no trigger.  A retry is honoured because the fence is asked
before the expected revision and the capacity, and because a recorded save stays
recorded.

**`ModelSelectionProofs`** proves `TypeOK`, `TurnUsesSelection`, `NoStaleGrant`,
`HandoffAnswersItsTarget`, and that every step is a step or a stutter of
`SessionAuthority` (`SessionsStayTheirOwn`), so that whatever is known of
sessions and turns from there remains true with models.  `Fit` lists, for each
step of a process, what it may rely on there; `OneRunner` says that a turn in
progress is one process's own; that a session's selection never changes while it
lasts carries `Fit` past the steps of others.

Its second part is about histories, where two findings say what is not so, and
the theorems say what is.

* `ContinuationsAreSettled`: what a turn carries on is closed; if it is of the
  same session, it was recorded under the very same model, which is what the
  comment at `mcp_store.py:100` has to mean; if it came through a handoff, it
  was answered.  It needs `HandoffsEndSessions`: the parent of a handoff is
  revoked, complete and has one successor for ever, also with models between.
* `HistoriesStayClassified`, `UnclassifiedStaysHome`: `ClassifiedHistory`, and
  with it the sentence of `docs/PHASES.md:26`, hold in every behaviour in which
  all processes have their settings by the time a session keeps a model and
  none loses them while one does (`SwitchedOnTogether`).  That is an assumption
  on the operator and stands in the theorem as one; `model_disabled` is a
  behaviour that breaks it.  `OneProcessStaysClassified` removes it for one
  process whose settings are not switched off.  The invariant is `HistoryInv`:
  a turn under a session with a model was classified (`TurnsClassified`), a
  process at work has an option exactly if it has settings (`Settled`), only
  sessions with a model are handed off (`Sourced`, `LinksOK`), and what a
  process is about to carry on is classified already (`Continues`).

**`ProvisioningProofs`** proves `WholeTransactions`, and that a committed row
never changes nor goes (`NeverRepointed`).  The
invariant says where each transaction stands in its plan (`Placed`), that the
rows it holds are those it has passed (`OwnRows`) and nobody else's (`Apart`),
and that what it has compared still has the value compared (`Compared`), since
committed rows do not change.

**`ConsoleSessionProofs`** proves `SentIsRecorded`, `AnswersFollow` and
`KnownOutcome` for any window and any number of consoles.  Its core is that a
window computed from a window is the window of the whole (`WindowMoves`); with it
`Fit` relates each console's window to the transcript that it alone writes
(`OneWriter`) for as long as the session has not failed.  A conversation is open
while its one writer lasts (`WritersHoldOpen`), and so what is closed is final
and what was saved never changes (`ClosedConversationsAreFinal`).

### Model-checked only

`ShutdownCompletes`, `CallsReturn` and `CommandsEnd`: liveness under fairness,
which the prover does not do.  Every safety property that a passing run checks,
and every refinement and action property, is a theorem.

## 6. What is not modelled

* What is text: the validation of a personality's body, prompts but for their
  window, the assembly and size limits of context, the wording of
  errors.  Only acceptance or refusal reaches the state.
* Response validation of the provider clients: stateless, covered by tests.
* Transports: authentication and error mapping around the modelled calls.
* `models.list`, `healthcheck.py` and `verify_db.py`, which only read; the base
  schema, of which the modelled constraints are part of the modules that meet
  them; release packaging; and the superseded copies under `history/`.
* The project hierarchy of `db/01_schema.sql` and its trigger against cycles.  No
  code of the program sets a parent.  Whoever does by hand should know that the
  trigger takes no lock: two transactions that make two projects each other's
  parent do not see each other.
* The number of messages of a previous conversation that fit a prompt: the
  console keeps what it read of it (`previous`), and how its text is cut is not
  modelled.
* Interrupts of synchronous code and of shielded waits.  Under `asyncio.run` the
  first Ctrl-C cancels what is awaited (`Leave`); a second one, within the few
  milliseconds of a synchronous save, would be raised in it as
  `KeyboardInterrupt`.  `_save` (`runtime.py:208-213`) catches only `Exception`,
  so the session would not count as failed, and `KnownOutcome` says nothing of a
  close after that.  Likewise the wait in `HandoffCancelled` is out of reach of the
  cancellation scopes that the transport uses; a native `task.cancel()` there
  is not modelled.
* `flamoris_update_core`: external; seen through `guarded` and the lease.
* The database itself.  Row locks, the advisory lock, unique keys and commits
  are taken to do what PostgreSQL documents; a deadlock it detects or a lock
  timeout is `Abort`.

A behaviour to know, though it is documented and no property calls it wrong: a
turn that fails after its question was saved leaves a closed conversation
without an answer, and its session can never be handed off again
(`conversation_incomplete`).  `HandedOffComplete` depends on it.

## 7. Plan

Done, in order of importance: `PrincipalSessions` with its abstract
`SessionAuthority`; `AgentTurn` with `RequestLedger`; `ScopedService`;
`PersonalityStore` with `RevisionLog`; `ModelSelection` over `SessionAuthority`;
`ConsoleSession`; `Provisioning`; proofs of all seven, of the lineages and of what
a history may be made of.  Still to come:

1. `AgentTurn` with the sessions' own tables: there, whether a parent may be
   continued is one nondeterministic refusal, and in `ModelSelection`, where it
   is decided by the lineage, a turn is shorter.  One module that has both would
   relate what a conversation copied to what its session may read.
2. The whole of `SessionAuthority` over several principals in `ModelSelection`.
3. The pure parts worth a reference definition: how much of the context fits,
   and the size limits that must agree between code and schema.
