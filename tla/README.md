# A TLA+ model of Nagini

Nagini verifies statically typed Python programs with contracts: it analyses a
program, translates it into the Viper language, hands the Viper program to a
back end (Silicon or Carbon, directly or through ViperServer) and translates
the errors back.  Around this pipeline stand a command line, a ZeroMQ server, a
language server and an MCP server.  This directory models the parts of that
system whose behaviour is hard to test, model-checks them with TLC and proves
theorems about them with TLAPS.  Source paths below are relative to
`src/nagini_translation/` in the repository unless they say otherwise.

Contents: 1 the system, 2 the modules, 3 the server layer, 4 the translators,
5 the obligation encoding, 6 what each run checks, 7 fairness, 8 what is proved,
9 where the code and its documentation disagree, 10 other observations,
11 limits, 12 what is not modelled.

## 1. The system: inventory

| Part | Code | State it keeps | Operations | Interacts with |
|---|---|---|---|---|
| Verification service | `service.py` | configuration (`_backend`, `_sif`, `_bv_size`, ...), registry `_jobs` of jobs by token, `_state_lock`, `_jobs_lock` | `verify` (concurrent and serial path), `cancel`, `reconfigure`, `shutdown`, `flush_cache` | called by the language and MCP servers from worker threads; calls `main.translate`, the error manager, the ViperServer manager |
| ViperServer manager | `viper_server.py` | the one server of the process, its started flag | `submit`, `await_result`, `cancel_job`, `cancel_all`, `stop`, `ensure_started` | Viper's actors run the jobs |
| Direct back ends | `verifier.py` | a JVM verifier per call | `verify` | serial path of the service, command line |
| Error manager | `lib/errors/` | a process-wide table from error ids to Python positions and rules | `add_error_information`, `convert`, `clear` | filled by every translator, read by conversion |
| Configuration | `lib/config.py` | process-wide, also *sticky*: `obligation_config.disable_all` | read and written by `translate` | everything |
| Command line, ZeroMQ server and client | `main.py`, `client.py` | one loop, one response buffer | receive, translate and verify, reply | error manager, configuration |
| Language server | `lsp_server.py` | one service built lazily, four workers, last diagnostics per document | open/save/verify handlers | the service, the editor |
| MCP server | `mcp_server.py` | the service, a pool of workers, temporary directories | `verify_file`, `verify_snippet`, `configure`, `cancel` | the service |
| Analyzer, program nodes, resolver | `analyzer.py`, `lib/program_nodes.py`, `lib/resolver.py` | the symbol tables of a program: modules, classes, methods, try blocks, fresh names | one visitor per Python construct, `process` | filled once, read by all translators |
| Ghost checker, extraction | `ghost/` | a ghost/regular mark per expression and statement | one visitor per construct | between analysis and translation |
| Control-flow encoding | `translators/statement.py`, `method.py`, `expression.py` | finally variables, error variables, labels | `try`, `with`, loops, `raise`, `return`, `break`, `continue`, calls | inside the translators |
| Assignments, patterns, names | `translators/statement.py`, `expression.py`, `common.py`, `lib/context.py` | aliases of variables, targets, captures | assignment, `match`, inlining, quantifiers | inside the translators |
| Expressions and calls | `translators/expression.py`, `call.py` | statements that precede an expression | operators, calls, arguments | inside the translators |
| Pure functions | `translators/pure.py` | a list of guarded assignments | statements to one expression | functions |
| Module execution | `translators/statement.py`, `program.py`, `common.py` | the names each module has defined | import, definition, use, call dependencies | global code |
| Classes and inheritance | `translators/program.py`, `method.py`, `predicate.py` | override checks, predicate families | inheritance, overriding, `super` | methods |
| Types | `translators/type*.py`, `lib/typeinfo.py` | the type domain; mypy's output | subtype tests, declared types | everything |
| Contracts and fields | `translators/contract.py`, `permission.py`, `statement.py` | permissions, may-set permissions | `Acc`, `MaySet`, `Old`, quantifiers, `del` | methods |
| IO operations | `translators/io_operation/`, `lib/io_checkers.py` | places, tokens and existentials defined so far | define, open, perform, results, termination | contracts |
| Algebraic data types | `translators/program.py`, `call.py` | one domain per type | construct, deconstruct, compare, box | expressions |
| Obligations | `translators/obligation/` | measures, wait levels, leak checks as ghost state of the Viper program | calls, loops, forks, inhale/exhale | wraps the other translators |
| Secure information flow | `sif/` | like the translators, for two executions | | replaces translators |
| Counterexamples | `models/` | a parsed solver model | conversion | error reporting |
| Silver AST, JVM access | `lib/viper_ast.py`, `lib/silver_nodes/`, `lib/jvmaccess.py` | none | constructors | the JVM |

What is hard in it, and what makes the parts correct:

* **Shared globals under threads.** Error ids, the obligation setting, the
  Silver resources and the configuration are process-wide, and several
  verifications overlap. Correct: a request is translated, and its errors are
  converted, as if it were alone.
* **Registration, cancellation, reconfiguration** race with running
  verifications. Correct: cancel hits the run it names and no other; a
  reconfiguration concerns later requests only.
* **Failure**: translation errors, missing jars, jobs that fail or never end,
  clients that give up. Correct: every caller gets an answer, nobody keeps a
  lock, a worker or a directory.
* **Long-lived loops**: state left behind by one request reaches the next.
* **Order of results** in the language server. Correct: what the editor shows
  never goes back to an older state of the document.
* **The encodings.** A translator turns a language with exceptions, effects in
  expressions, dynamic fields and late binding into one that has none of them.
  Correct: what Viper accepts behaves in Python as the contracts say. The hard
  cases are combinations: a return through two finally-blocks in a loop, a name
  that is a parameter, a handler's name and a static field, a method that is
  inherited, overridden and called through `super`.
* **The encoding of obligations**: permissions to release a lock move through
  calls, loops, returns and forks, and each move has a check of its own. Correct:
  together the checks mean that locks are released and nobody waits in a circle.
* **Caches on the syntax tree**: ghost marks, aliases, fresh names and call
  dependencies are computed once and read later, in another context.

`PROJECT.json` lists the components with their status, the hazards with the
line where each bites, and the properties that cover them.

## 2. The modules

| Module | Models | Uses |
|---|---|---|
| `ViperServerManager` | the manager, the jobs, Viper's actors as environment | |
| `VerificationService` | `service.py`, the error manager, the relevant part of `main.translate` | EXTENDS `ViperServerManager` |
| `VerifyPromise` | abstract specification: what a caller of `verify` is promised | |
| `ServicePromise` | the refinement mapping from the service to the promise | EXTENDS `VerificationService`, INSTANCE `VerifyPromise` |
| `LanguageServer` | `lsp_server.py`, composed with the service | EXTENDS `VerificationService` |
| `McpServer` | `mcp_server.py`, composed with the service | EXTENDS `VerificationService` |
| `ServerLoop` | `nagini --server` and its clients | |
| `PythonFlow` | reference: Python's control flow as a function | |
| `ControlFlow` | the encoding of control flow, and the execution of the encoded body | EXTENDS `PythonFlow` |
| `PatternMatching`, `Assignments`, `Names` | match statements; targets and loops over lists; which variable a name means | |
| `Evaluation`, `PureFunctions` | expressions with effects and calls; pure functions as one expression | |
| `ModuleExecution` | global code: imports, definitions and the names calls depend on | EXTENDS `FrontEndTasks`, which holds the variables `task` and `state` |
| `Inheritance` | override and inherit checks, predicate families, `super` | EXTENDS `FrontEndTasks` |
| `TypeDomain` | declared types and the axioms about subtypes | |
| `FieldPermissions` | contracts over fields that are created and deleted | |
| `IOOperations` | nets of IO operations: definition, opening, performing, termination | |
| `AlgebraicTypes` | the domains of algebraic data types and enumerations | EXTENDS `FrontEndTasks` |
| `GhostCode` | the ghost checker, extraction, and the run before and after | |
| `Obligations` | the programs that pass the checks of the obligation encoding: threads, calls, loops, locks | |
| `MC...` | instances for TLC: `MCVerificationService`, `MCServers` (both servers), `MCServerLoop`, `MCStatements` (with `MCControlFlow` and `MCAssignments`), `MCFrontEnd` (with `MCGhostCode`, `MCFieldPermissions`, `MCIOOperations`), `MCObligations` | |
| `VerificationServiceProofs` | the service: invariants, isolation, cancellation, the refinement | EXTENDS `ServicePromise` |
| `LanguageServerProofs`, `McpServerProofs` | that the servers use the service as it may be used, and what they add | EXTEND the server and `VerificationServiceProofs` |
| `ServerProofs` | the ZeroMQ loop | EXTENDS `ServerLoop` |
| `ObligationsProofs` | stacks, carriers and promises; levels, deadlock freedom and measures | EXTENDS `Obligations` |
| `FrontEndProofs` | the order of modules; soundness of the domains of algebraic types | EXTENDS `ModuleExecution` and `AlgebraicTypes` |
| `TypeDomainProofs` | the axioms of declared types are sound and decide every check | EXTENDS `TypeDomain` |
| `InheritanceProofs` | behavioural subtyping | EXTENDS `Inheritance` |

The modules of the translators are made alike. A constant gives families of
tasks (programs, expressions, contracts, nets), `Init` picks one, and the
actions translate it as the code does, check it as Viper would, and run it; a
second part says, from the language and not from the translator, what Python
does with the same task, and the property compares the two. All of them have
the variables `task` and `state`, so that one run takes tasks of all of them.

## 3. The server layer

### VerificationService and ViperServerManager

A *request* `r` is one call of `verify`, a *configurer* one call of
`reconfigure`, a *canceller* one call of `cancel`; each runs in its own thread
(`pc[r]`, `configPc[c]`, `cancelPc[k]`). An action is what a thread does between
two points at which another thread can see a difference: taking or giving back
`_state_lock`, a call into Viper, or a read of an attribute that `reconfigure`
writes without the reader holding the lock.

| Variable | Code |
|---|---|
| `stateLock` | `_state_lock` and who holds it |
| `config` | `_backend`, `use_viper_server`, `_sif`, `_bv_size` |
| `resources` | the options `main.sil_programs` was loaded for |
| `disableAll` | `obligation_config.disable_all` (None, True, False) |
| `items` | whose ids are in the global error manager |
| `snapshot[r]` | `error_manager._items.copy()` in `_verify_concurrent` |
| `jobs` | `_jobs` |
| `jobState`, `stopSent`, `started` | ViperServer: each job's life, the stop messages, whether the server runs |
| `answer[r]` | the `VerifyResult` (or exception) of `verify` |

The concurrent path is `Dispatch`, `BeginTranslation` (lock, clear, reset),
`Analyze`, `Encode` or `FailTranslation`, `TakeSnapshot` (copy, unlock),
`ChooseArgs`, `SubmitJob`, `Register`, `Await`, `Deregister`, and for failures
`InstallSnapshot` (lock) and `ConvertErrors` (unlock). The serial path shares the
translation and goes on under the lock with `StartBackend` (`get_verifier`: start
the server, or fall back to a direct front end), `SubmitSerially` and
`SerialAnswer`. Between start and submission the server may be shut down: then
`submit` raises and the request is answered as a verifier error
(`SerialSubmitFails`).
`reconfigure` is `LockConfig`, `AssignLive`, `AssignResources`, `Reload`: the
options that only concern later requests are assigned one after the other, and
the resources are loaded after the options. `cancel` looks the job up
(`CancelLookup`) and stops it in a second step (`CancelStop`), as the code does.

Abstractions: a program is its use of obligations; an error is the request its
item belongs to; `_jobs_lock` protects single dictionary operations, which are
one action each; `Dispatch` reads the attributes of `_can_run_concurrently` in
one step (they are single reads without a lock; a reconfigure between two of
them yields the value one of the two orders yields); result formatting is left
out.

### LanguageServer

A *run* is one `run_verification`: its handler on the event loop cancels the run
of the same document it finds registered (`Supersede`, the service's two cancel
steps), queues the new run (`Enqueue`) and awaits it. A worker takes it
(`TakeRun`), makes sure that there is a service (`CheckService`, `LockService`,
`CheckAgain` and `BuildService`: double-checked locking, the constructor may
fail), and verifies (`VerifyBlocking`, `WorkerReturns` around the service's own
actions). `Resume` is the handler after its await; it publishes unless the
result says cancelled. The event loop runs one handler at a time between awaits
(`loop`).

### McpServer

The tools that verify are coroutines: they queue the call for the pool
(`tasks`, `running`) and leave the event loop until it returns. `configure` and
`cancel` are plain functions, which FastMCP calls on the event loop itself: from
their first step to their last, `eventLoop` is theirs, and no other call is even
received. A client may give up a call it waits for: the coroutine ends and
removes the directory of its snippet, the worker goes on. The state of a call is
`callPc`; the service's own actions run in between.

### ServerLoop

One thread, one request at a time. `Receive` clears the error manager and makes
a fresh response; `Analyze` and `Encode` are `translate`, with the assignment to
`disable_all`; `Verify`, `AnswerFailure` and `FailTranslation` are the branches
of `translate_and_verify`; `Raise` is an exception nobody catches, which ends
the loop. Clients block in `recv_string` until they are answered.

## 4. The translators

### ControlFlow and PythonFlow

Nagini turns a method body into a Viper body in which handlers, else-blocks and
finally-blocks stand at the end and are reached with `goto`. For every try or
with block there is a *finally variable* that says how to go on after the
finally-block (0 normally, 1 returning, 2 with an exception, 3 breaking, 4
continuing) and an *error variable* for the exception raised in it.

`ControlFlow` has two halves. The first is the translation, one operator per
function of the translators: `TranslateTry`, `TranslateWith`, `TranslateHandler`,
`TranslateFinally` with `LeaveFinally` (the cascade of tests at its end),
`CreateExceptionCatchers`, `TranslateWhile`, `TranslateFor`, and so on. An
environment carries what the code finds by walking the AST: the blocks that
protect a statement (`get_surrounding_try_blocks`, inner to outer), the loop
around it (`get_parent_of_type`), the handler that binds the exception's name.
The second half executes the translated body: one action per kind of Viper
instruction, with free outcomes for calls and tests. Locals that were never
assigned start as a value of `Junk`. `PythonFlow` is the reference, a function
on the syntax tree.

The encoding does not support every nesting of the statements it accepts.
`MCControlFlow` therefore names the nestings for which it agrees with Python, one
predicate per limit, and the passing run takes all method bodies within them.
Outside of them the encoded program differs from the Python program:

| Limit (`MCControlFlow`) | What the code does outside of it |
|---|---|
| `WithAlone`, `ErrorReaches` | control flow is passed on to blocks with a `finally` only (`method.py:730`): a surrounding `with` is not exited; handlers around a `with` run without its `__exit__` (`expression.py:839`) |
| `ErrorReaches` | every block has its own error variable and none is copied to the next (`method.py:744`, `789`): an exception that passes a finally-block and is then seen by a further block, or bound by a handler further out, is an unassigned variable |
| `StaysInside` | only the try body is the protected region: return, raise, break or continue in an except- or else-block, and calls that raise there, skip the block's own finally |
| `LoopsInside` | break and continue go through the first finally-block around them, even if the loop lies inside its try body, and the try body's rest is skipped; in the else-block of a loop they refer to that loop |
| `ResultKept` | a loop in a finally-block sets the pending result to null (`_set_result_none`); an exception raised in a finally-block during a return and caught outside leaves the discarded result in the result variable |

The result of `__exit__` is stored and never tested, so no exception is ever
swallowed; the runs therefore set `ExitSwallows = FALSE`.

### The other modules of the statement run

The tasks of `MCStatements` are all those of the given shape within the limits
that follow; what happens outside of a limit is described in section 10.

* `PatternMatching`: the nested conditional of a `match` statement (`TakeCase`,
  `SkipCase`, `NoCase`, `RunBody`, `RunAfter`), with a rejection when a name is
  read that the definedness check does not know. Limit: names captured by a
  guarded case or an or-pattern have no value before the statement.
* `Assignments`: the Viper statements of nested, starred, chained and augmented
  targets and of loops over lists. Limits: no target but the last changes what
  the value reads; a call is not combined with a read of the field it changes;
  targets after a starred one only when it takes one element; a list that is
  augmented has no second name; no `break` or `continue` in else-blocks of loops.
* `Names`: the aliases kept while a body, the methods inlined into it and, at the
  end, all handlers and finally-blocks are translated. Limits: a method with a
  try statement is inlined once; finally-blocks of the method itself do not
  mention parameters; a static field has no local's or global's name; locals of
  an inlined method are assigned before they are read; the else-block does not
  use the name of the exception.

### The modules of the front-end run

* `ModuleExecution` runs the method that stands for the global code, with its
  sets of defined names and assertions, and then Python on the same modules, with
  name spaces and calls; `AddAllCallDeps` is the transitive closure as the code
  computes it. A use at module level of a method, and a constructor called in a
  function, assert nothing: the run `module_names` shows the consequence, the
  passing tasks avoid them.
* `Evaluation` translates an expression to statements and a Viper expression,
  evaluates both, and compares calls, arguments, heap, exception and value with
  Python's left-to-right order. `WithinLimits` in `MCFrontEnd` names what the
  order of statements gets wrong.
* `PureFunctions` builds the wrappers and turns them, from the end, into lets and
  conditionals, as `translate_exprs` does, for every argument.
* `Inheritance` compares the contracts of each override (`CompareContracts`), then
  executes all bodies at once, each method and each inherited method again, one
  statement per step and in every state Viper lets them start in (`VerifyStep`,
  over the set `open` of activations under way). What passes is then called in
  Python, for every dynamic class: a stack of activations, `super` inside them.
  Bodies may call each other and themselves. A superclass further up than the
  direct one is never compared: run `overrides`; the tasks of the passing run
  have `NoGaps` and `OwnConstructors`.
* `TypeDomain` converts a declared type to a term and derives, to a fixed point,
  which facts follow from the axioms; every object type must be decided, as
  Python would. Options and items of a union are sets, since nothing depends on
  their order; a class has at most one type variable. `TypesAssumption` says what
  mypy lets through: classes form a tree, nothing extends `NoneType` or an
  enumeration, and no option of a union is a subclass of another.
* `FieldPermissions` verifies methods one by one, from all states their
  preconditions allow, and runs verified programs.
* `IOOperations` covers the definition checks, the order in which existentials
  become known, opening, performing and the termination check; the run of a
  verified program must be a path through its net, and end if it promised to.
* `AlgebraicTypes` chooses an interpretation of the domain step by step, keeps it
  if the axioms hold, and asks whether every known value in it is decided like
  Python's; and that Python's own values satisfy the axioms. `Meanings` gives the
  element of an interpretation the value of Python it stands for, built up to three
  levels deep; an element that is part of itself stands for none. Equality is
  compared (`Decided`) if every constructor has fields and no two have fields of the
  same types.
* `GhostCode` marks the tree as the checker does, including that a mark once set
  answers later questions, extracts, and runs both programs.

## 5. The obligation encoding

`MustRelease(l, m)` and `MustTerminate(m)` become permissions, leak checks and
measure checks in the Viper program. `Obligations` models what is *accepted*:
its steps are the steps of any Python program whose methods have contracts from
`Contracts` and whose loops have invariants from `Invariants`, each step guarded
by the checks that `translators/obligation/` emits at that place. A program that
fails a check is rejected, which appears as a thread with no next step. The
properties ask whether what is accepted behaves as the encoding promises.

| Model | Code |
|---|---|
| a context of `stack[t]` | a method body or one loop iteration, which Viper verifies in one piece |
| `bounded`, `unbounded` | `MustReleaseBounded`, `MustReleaseUnbounded` in its heap |
| `calls` | the method's measure map, against which its calls are checked, also from inside loops |
| `contract.measures` | the obligations with a measure, `CThread` for `MustTerminate`; in a loop also the loop's measure map |
| `contract.waits` | `WaitLevel() < Level(l)`: what the context knows of its residue level |
| `promised` | `MustTerminate` held on entry; for loops `loop_check_before` and the termination flag |
| `children[u]` | what is known of the level of a thread it has forked |
| `left` | statements the body may still have; a bound of the model |
| `waiting`, `owner`, `taken`, `started` | what really happens to threads and locks; the checks never look at `owner` and `taken` |

`Payable` and `Pay` are the exhale of a precondition or invariant (bounded
permission if its measure allows it, unbounded otherwise), `Gain` the inhale,
`CallerLeakCheck` and `NoLeak` the leak checks, `LevelBelow` the comparison with
the wait level, `MayHandOver` the exhale of a fork. `Call`, `Return`,
`EnterLoop`, `SkipLoop`, `Iterate`, `LeaveLoop`, `RequestLock`, `ObtainLock`,
`ReleaseLock`, `Fork`, `RequestJoin` and `CompleteJoin` are the places at which
the encoding emits checks.

What is abstracted: the contract of a method is chosen at the call rather than
fixed by a program text, which allows more programs, not fewer; measures and
guards of obligations are chosen with it; a lock's level is a constant; the main
module knows its residue to be below the locks it creates. Left out: the token
obligations of IO operations, `break` and `return` out of loops, wait levels in
postconditions, and threads joined by a method other than the one (or its
loops) that forked them.

## 6. The runs

| Run | Instance | Shows |
|---|---|---|
| `service_concurrent` | 3 concurrent requests, two under one token, one cancel call; jobs end with success, failure or null | requests never mix their error items or their obligation setting; the registry holds running jobs only; cancel is precise; a run removes only its own registration; answers match verdicts |
| `service_reconfigure` | 2 requests, one reconfigure to the direct back end and other resources, cancel of everything, shutdown, missing back ends, failing jobs | the lock protects the globals, resources match options, the abstract promise holds; every call returns if its job does, and a stopped job frees its caller (`RequestsReturn`) |
| `servers` | language server: 2 runs of one document on 1 worker, constructor, server and jobs may fail, and on 2 workers, constructor and jobs may fail; MCP server: a file, a snippet, one configure and one cancel call on one worker, which clients may give up; in all, jobs that never end | one service; a stopped run publishes nothing; a run settles unless a job ahead of it never ends, and a registered run that is superseded ends although its job never would; workers, event loop and directories are accounted for; every call settles, unless `configure` waits for Viper on the event loop |
| `server_loop` | 3 clients, any request may raise | replies contain the client's own results only; every client is answered unless the loop has died |
| `statements` | all supported bodies of two compound statements inside each other around one leaf, in loops as well, two exceptions, three free outcomes; and the tasks of `PatternMatching`, `Assignments` and `Names` | the Viper body performs what the Python body performs, leaves the method in the same way, and ends; cases, values and variables are Python's |
| `front_end` | the tasks of the nine modules of section 4 | verified global code finds its names, in Python's order of modules; expressions, pure functions, ghost erasure, classes, types, fields, IO and algebraic types agree with Python |
| `obligations_stack` | one thread, one lock, four contexts, two statements each, measures 1 and 2, every contract and invariant about the lock | whoever runs above a debtor has promised to terminate, measures decrease, nobody keeps a lock or a promise and runs on for ever |
| `obligations_threads` | two threads, two locks, three contexts, two statements each, terminating methods that take or are given a lock or give it back, loops that take or carry one | forks, joins, hand-overs, returns and loops keep each lock with one context, so obligations to release are neither lost nor doubled; waiting for locks closes no circle |
| `stale_diagnostics`, `join_deadlock`, `module_names`, `overrides` | see section 9 | a property the documentation states is violated |

Why the bounds are enough. Two requests are what a race needs; the third one of
`service_concurrent` has another token, so that a cancel can hit the wrong job. One
reconfigure suffices for every window, as requests see a configuration only
through its fields. One worker for two calls of the MCP server makes one of them
wait while the event loop serves `configure` or `cancel`. One worker for the two
runs of the language server makes the later one queue behind a job that may
never end, which four workers (`lsp_server.py:68`) make rarer but do not exclude;
two workers let both look for the service at once.
`EveryRunSettles` also holds with three runs of two documents on one worker, whose
jobs end with failure if at all and whose server always starts (72,420 states);
that takes too long to be a run. In `statements` every
block kind stands in every position of every other one, so that variables of an
earlier iteration are there to be read by mistake; a body has a mark before and
after every statement, so a skipped or repeated statement shows. Three outcomes
allow one iteration that jumps and one that does not. `MaxEvents` is larger than
any run of these bodies needs; events beyond it are not recorded, so that an
endless loop has finitely many states. The tasks of the other modules have two
or three of everything that can be confused: two names for a parameter, a
handler and a global, three modules that import each other, three classes in a
chain, two fields, two constructors, values 0 and 1,
three references, two elements of the uninterpreted sort of each algebraic type.

Four contexts are what `obligations_stack` needs for method, loop, callee and a
callee of that: the measure that matters at the third level is the one of the
first. Two measures are the least that can decrease once. The second statement
of a body lets something happen after the obligation was passed on. Iterations
start afresh, so loops and recursion up to the depth run as often as they like.
In `obligations_threads` a body of two statements takes a lock and then calls,
joins, or asks for the second lock. The same invariants hold with three
statements each if no loop carries a lock and no method gives one back (901,282
states).

Deadlock is not checked where the system stops when everything is done
(`servers`, `statements`, `front_end`, the obligations). Every property of a
passing run has a mutant: a small wrong version of the code's own definition
(`NeverDeregistered`, `OpenBlockUnset`, `LoopIsLeft`, ...) that stands next to
the right one and violates the property.

## 7. Fairness

`FairSpec` gives weak fairness to each thread's next step (operating-system
threads are scheduled; the model's locks are plain mutexes whose holder always
gets to release them, and no two threads alternate for ever on one lock because
each call is finite) and to the delivery of a stop message to its actor. It
gives none to the end of a job: the first half of `RequestsReturn` assumes it in
its own hypothesis, and the second needs none. The frontend's calls (shutdown,
saves, tool calls, giving up) are not fair. `FairServersSpec` adds the event loops
and the pools of both servers (`LspFairness`, `McpFairness`), and in neither of them
does a job have to end. `EveryRunSettles` is two statements about the language
server. `RunsTakeTurns` has the end of the jobs in its hypothesis: a run settles if
each job that can hold it up ends, which is its own, one of a run saved before
it (`service.py:382` waits without a timeout, and that run may have the worker) or
one awaited under the state lock. `SupersededRunsEnd` assumes the end of no job: a
run that is registered when a newer one of its document starts is stopped and
settles. What neither promises is what the code does not give: a run behind a job that
never ends, of another document or not yet registered when it is superseded,
stays where it is. Calls of the MCP server settle because a cancel is served. The two liveness properties
of `Obligations` need no fairness: they say that a thread which keeps a lock (or
stays in what promised to terminate) for ever takes finitely many steps only, so
the specification may stop anywhere. `ServerLoop` assumes that the single thread
runs, `StatementsSpec` that an unfinished method goes on. The front-end tasks are
finite and have safety properties only.

## 8. What is proved

The theorems hold for every value of the constants that satisfies the named
assumptions: any number of requests, threads, locks, contracts or modules. The
proofs are in the `...Proofs` modules; TLC checks the same properties on the runs
of section 6. TLC checked the inductive invariants before they were proved, where
it can evaluate them; `ClassesInv` and `Controls`, which speak of some set or run that
exists, were only proved.

**VerificationServiceProofs** (`ConstantsAssumption`, `OutcomesAssumption`).

* `TypeCorrect`: types. Not inductive alone: that `CancelStop` stops a job needs
  `StopsAJob` (a canceller in its second step has found a job).
* `LockIsHeld`: `LockHeld` says that a thread at a locked point is the holder of
  the lock. The isolation results rest on it, because it makes a step of one
  request leave the globals of all others alone.
* `ErrorsStayOwn`: from `Isolation`, the conjunction of `ItemsHeld` (while a request
  is between clearing and snapshot, the table has its items only; while it
  converts, the installed ones), `SnapshotsHeld` (a snapshot taken has exactly
  the owner's items) and `LockHeld`.
* `ObligationsStayOwn`: from `SettingHeld`, which relates `disable_all` to the point
  at which the holder of the lock stands.
* `RegistryIsInFlight`, `CancellationIsPrecise`: from `Registry`, which adds to the
  properties that a job looked up by a canceller had the canceller's token
  (`LookupsHeld`).
* `OnlyOwnersUnregister`, `LockProtects`: action properties, from the invariants
  above.
* `ResourcesFollowOptions`: from `ResourcesHeld`, which also describes the window in
  which options are assigned and resources not yet loaded. Assumes
  `BadSizes = {}`: when loading fails the property is false (section 10).
* `VerdictsAreKept`, `ServiceKeepsPromise`: the service implements `VerifyPromise`
  under the mapping of `ServicePromise`; every step of the service is a step of the
  promise or a stutter. From `JobsHeld` (what is known of a request's job at each
  of its points). Assumes that no job completes with null: on the serial path
  null counts as success.

**LanguageServerProofs** (also `LspAssumption`) and **McpServerProofs** (also
`McpAssumption`). `UsesTheService` and `McpUsesTheService`: every behaviour of the server is one of
the service, so that each theorem above holds under it. `OneServiceIsBuilt`:
the invariant says that whoever is between the second check and the end of the
constructor has the lock and found no service. `StoppedStaySilent`: a stopped
run's answer is cancelled or still to come. `McpResourcesAreAccounted` states what the
run `servers` checks through an instance: from `WorkersHeld` (the running calls
are those the pool took and no more than there are workers) and `LoopHeld` (who
stands inside `configure` or `cancel` has the event loop).

**ServerProofs** (`ServerAssumption`). `RepliesStayOwn`: from `OneAtATime`, which ties the
item table and the response buffer to the one request under way.

**ObligationsProofs** (`ObligationsAssumption`; stacks of any depth).

* `ControlComesBack`: below a context that carries an obligation every context has
  promised to terminate. The strengthening describes each context and each pair
  of neighbours: what the upper one was given is what the lower one paid.
* `TerminationIsWellFounded`, `HandingOverIsWellFounded`, together
  `MeasuresAreWellFounded`: both measures fall along every stack, for any two
  contexts and not only for neighbours. The invariant carries the measure map of
  the method through the loops around the current context.
* `LocksAreCarriedOnce`: a lock is in the heaps of exactly one context of the
  thread that owns it. The leak checks of returns, loops and calls are each needed.
* `LocksAreDeadlockFree`: `LevelsKnown` and `StacksLeveled` say that what a context
  knows of its wait level is below every lock its thread carries; from them,
  a circle of waiting threads would give a strictly rising cycle of levels. The
  circle itself is excluded by well-foundedness on the (finite) set of threads;
  the theorem assumes that threads and locks are disjoint.

**FrontEndProofs**, modules (`ProgramsAssumption`). `ModulesAreVerifiedInOrder`: an accepted
program has been executed in the order in which Python runs its modules. Python's
part of the model is a deterministic machine (`Step`, `Leads`); the invariant
(`Controls`) says that the state of the verification is one the machine reaches
from its start, and two halting states of one deterministic run are equal
(`OneEnd`). So no induction over programs is needed.

**FrontEndProofs**, algebraic types (`AdtAssumption`: there are three types of fields, and some object).
`AlgebraicTypesAreSound`: for every algebraic type, and every interpretation, finite or
not. The invariant `AdtInv` collects the axioms each stage has assumed. From them:
each element has one constructor (`OneTag`) and is made of its components
(`ElementsAreConstructed`); what an element stands for is made of what its
components stand for (`MeaningsAreMadeOfMeanings`), and different elements stand for
different values (`MeaningsTellApart`), both by climbing the three levels of
`Meanings`; `Constructs`, `Inspects` and `Compares` are then equations between components.
`PythonModels`: the axioms hold of the named tuples, so they are consistent. The
bound on nesting stays: values nested more than three times are not spoken of,
since a proof for all depths is an induction over data.

**TypeDomainProofs** (`TypesAssumption`). `TypesAreDecided`: for every hierarchy of classes,
finite or not, and every declared type. What is above a class is computed by a
recursive function; `ClosureUnfolds` and `AboveUnfolds` show that it is the least closed
set, and the laws of trees (`AboveIsLinear`, `LowestAboveAll`, ...) follow from the absence
of cycles, without an induction over the height. `Below` says what a term means:
each alternative of the one has an ancestor among those of the other. The
invariant `TypesInvariant` says that what is derived so far is true in this sense
and keeps what the class axioms give. Soundness is one step per axiom
(`AxiomsAreTrue`); `BelowIsAntisymmetric`, `SiblingsExclude` and `InstancesExclude` are the
reasons why the three exclusion axioms are right. Completeness is shown at the
fixed point: ancestors are derived (`AncestorsAreDerived`), and for any other type
there is a place where its line of ancestors enters that of the object, at which
one of the exclusion axioms applies (`OthersAreRefuted`). That excludes
contradictions and open answers together. `DerivationsAreTrue` states soundness on
its own.

**InheritanceProofs** (`ClassesAssumption`: the statements of a class chain are well
formed). `SubtypesAreBehavioural`: for every chain of classes, of any length, with any
contracts and bodies. Two hypotheses exclude what sections 9 and 10 describe: no
member overrides one of a class that is not the direct superclass (`NoGaps`; the
run `overrides` is the counterexample without it), and a class that adds to the
predicate does not inherit its constructor (`OwnConstructors`), since `__init__`
is the one method that no inherit check covers. First, the override checks
compare neighbours only, and `MethodsRefine` carries the comparison to every
class above; `BodyIsPromised` says that the predicate family of a receiver is
what all its classes state. Then the invariant `ClassesInv`: when all bodies have
verified, there is a set of activations that contains every start of a body and
every successor, and all of them verify (`Closed`). While Python runs, there is a
sequence of such activations that has Python's frames and values (`Follows`):
each is `Honest`, that is, where it has a permission the field has a value, and
where it has the folded predicate the value is one that the body allows; and each is called
by the one below it (`CalledFrom`), whose contract it keeps. The cases are a
statement (`StatementsRun`), among them a call, which finds the start of a verified
body (`CallsEnterMethods`), the return from super (`SupersReturn`) and the return to a
caller, which assumed one of the results that the contract allows (`MethodsReturn`).
Recursion needs no measure, because the argument is about one step of the stack;
so this is partial correctness, as in the code.

Only model-checked, and why:

* Liveness (`RequestsReturn`, `EveryRunSettles`, `EveryCallSettles`, `ClientsAreAnswered`, the two
  liveness properties of `Obligations`, termination of method bodies): out of the
  prover's reach, as is ENABLED.
* The encodings compared with Python (`RunsLikePython`, `MatchesLikePython`,
  `AssignmentsRunLikePython`, `NamesMeanPythonsVariables`,
  `ExpressionsRunLikePython`, `PureFunctionsReturnPythonsValue`,
  `ExtractionIsComplete`, `ErasureKeepsTheRegularRun`,
  `FieldsAreThere`, `OperationsKeepTheirWord`): both sides are recursive over syntax
  trees, so a proof is an induction over data; and they hold of the tasks within
  the limits of section 4 only.
* `NamesAreThere`: rests on the closure `AddAllCallDeps` of dependencies, and does not
  hold of all programs (run `module_names`).

## 9. Where the code and its documentation disagree

* `stale_diagnostics`: a run can be cancelled only from its registration on
  (`service.py:380`). Two quick saves leave the older run alive, and it may
  publish last, against "Precisely supersede any in-flight run" (`lsp_server.py:100`).
* `join_deadlock`: a fork ignores the wait-level comparisons of the forked
  method's precondition and assumes only that the new thread's level is above
  the locks of its creator (`translators/obligation/fork.py:172`, `:212`).
  Nothing relates that level to the locks the thread takes, so the check at
  `join`, which "prevents deadlocks" (`translators/call.py:1643`), accepts a
  thread that holds a lock and joins one that needs it. The trace shows this; for
  joins in loops see section 10.
* `module_names`: a method call in global code asserts none of the names it depends
  on (`translators/call.py:725`), and a constructor called inside a function
  loses its dependencies (`lib/program_nodes.py:1033`); the comment announces
  the assertion for "the called method and its dependencies". The trace shows the
  method call; the constructor is read from the source.
* `overrides`: a method is compared with what the direct superclass declares
  itself (`lib/program_nodes.py:1137`). If that class inherits the method, nothing
  is compared and a verified subclass breaks its grandparent's contract.

## 10. Other observations

Met while modelling; no run of their own. Where a task would show one, the
instances avoid it (the limits of section 4).

**Service.**
A cancel for a token whose job is submitted but not yet registered returns
without effect (`service.py:229`).
The concurrent path reads the backend twice and the SIF mode once after it
released the lock (`service.py:372`, `377`, `413`): a reconfigure in between
submits arguments for the wrong back end.
When `load_sil_files` raises in `reconfigure`, the options stay, and a second
identical call sees no change and does not reload (`service.py:316-330`).
Every exception of `await_result` is answered as cancelled (`service.py:383`),
also that of a job that failed; the language server then keeps old diagnostics.
In the ZeroMQ server a file without obligations sets `disable_all` for good
(`main.py:166`): the service resets it, the loop does not.
`configure` and `cancel` of the MCP server run on the event loop
(`mcp_server.py:133`, `148`): a `configure` that waits for a serial verification
keeps the server from receiving the `cancel` that could end it. `LoopWaitsForViper`
states exactly this limit of `EveryCallSettles`. A client that gives up
`verify_snippet` removes the directory its worker may still read.

**Control flow.**
Besides the table of section 4: `_assign_exit_vars` (`method.py:636`) treats
break and continue as exceptions and passes an unassigned variable to
`__exit__`. The label after a try is `post_name` in one place and `'post_' + name`
in another (`method.py:875`).

**Assignments and patterns.**
The value of a chained assignment is evaluated once per target
(`statement.py:1643`). Targets after a starred one are indexed from the left.
`xs += ys` on lists makes a new list. An augmented assignment reads its target
after the calls of the value (`statement.py:450`). A subscript is looked up in
`node.targets[0]` only (`statement.py:1497`). Leaving a for loop by break or
return skips the deletion of its iterator (`statement.py:869`). An or-pattern's
names are not collected (`analyzer.py:953`); when a method with a match is
inlined, a local of the caller with the same name takes the capture
(`statement.py:1277`).

**Names.**
Finally-blocks are translated after the aliases of reassigned parameters were
removed (`method.py:663`, `statement.py:980`), so they read the initial value.
A method with a try that is inlined twice overwrites its handlers' aliases
(`common.py:899`). Static fields are searched before locals and globals
(`common.py:945`). The alias of an exception's name stays for later handlers
and the else-block (`method.py:857`). Locals of an inlined method are read
without the definedness check (`expression.py:958`). Setting an alias inside
`additional_aliases` and removing it can remove an outer alias of that name
(`lib/context.py:136`).

**Expressions and calls.**
An operand that reads the heap is evaluated after the statements of a later
operand. `and`, `or` and conditional expressions evaluate their condition again
after the statements of a branch. The third operand of a comparison chain is
always called (comment at `expression.py:1431`). A static field read through an
object, and a comparison of types, drop the statements of their operands
(`expression.py:1166`, `1371`). Keywords collected by `**kwargs` are evaluated
last. The type check of a thread's arguments joins with an equality where a
conjunction is meant (`call.py:1545`), and `Thread(target=f)` without arguments is
an internal error.

**Pure functions.**
A conditionally reassigned parameter becomes null (`pure.py:362`). `+=` on a
parameter or an unassigned local is an internal error. A name captured by a case
whose guard fails stays unbound.

**Module execution.**
A function that reaches itself through a method makes `add_all_call_deps` run
for ever (`lib/program_nodes.py:1022`). Default arguments, `isinstance` and `except`
add no dependencies. A dependency on a static method asserts a name that is
never defined. A star import brings names with an underscore.

**Classes and types.**
An inherited `__init__` is never checked again (`program.py:1468`). A predicate of
a class whose direct superclass lacks it starts a family of its own.
`Fold(Acc(self.P()))` is not seen as a fold of a family (`contract.py:468`). An
override check with exceptions declared above and not below leaves `_err`
unassigned. For a union one of whose options is a subclass of another the axioms
contradict each other. `GenericType.issubtype` compares arguments without mapping
them to the superclass. `OptionalType.issubtype(A)` holds of the class itself
(`lib/resolver.py:653`). Union types end at four options.

**Contracts, fields, ghost code.**
`MaySet`, `MayCreate` and `del` of an inherited field use `field.sil_name` where
reads use the actual field (`contract.py:317`, `statement.py:431`). Reading any
attribute adds a field to the receiver's class (`analyzer.py:1586`).
The ghost checker lets through a ghost argument inside another call, drops a
call with an effect whose result is ghost (`ghost/ghost_checker.py:659`), and misses
a ghost loop variable used before its loop: `MCGhostCode` has a predicate for
each.

**IO operations and algebraic types.**
An existential that is input and output of one call, or in no result position,
passes `IOOperationBodyChecker` (`lib/io_checkers.py:66`) and fails later; an
operation's own result as argument of a later one is an internal error.
Constructors with equal field tuples are equal in Python and different by the
axioms. A constructor without fields has no axiom to rebuild it. The axioms
about deconstructors contradict each other for arguments of a wrong type
(`program.py:824`). A field called `type` collides with the constructor's constant
(`program.py:751`). Enumerations lack an axiom from the object back to its value.

**Obligations.**
A join is checked against the residue of the method even inside a loop
(`translators/call.py:1646`), while calls there use the loop's
(`obligation/method_call_node.py:93`); the loop's invariant may know less. Fork
and join check no measure (`obligation/fork.py:180`), so a method that promises to
terminate may fork itself and join, without end: an infinite chain of threads,
which no finite instance contains. The exhale of a fork is checked with the
caller's measures unknown, so a bounded obligation can never be given to a
thread: sound, but incomplete.

## 11. Limits

ViperServer, Silicon, Carbon, mypy, pygls, FastMCP and the thread pool are
environment: modelled by how the code uses them. Messages, positions and
formatting are left out. `cancel_job` waits up to five seconds for the job's
handle; the model sends the stop at once, which assumes that the actor exists by
then. Verifying a loop in Viper forgets the variables the loop assigns and keeps
its invariant; the control-flow model executes loops instead, so it speaks about
which statements run and not about what is provable. A goto into a loop body is
executed as a jump.

## 12. What is not modelled

* The analyzer as a whole: its decisions that another part relies on (aliases,
  try blocks, call dependencies, overriding, ghost marks, patterns) are in the
  modules of those parts; building the symbol tables is a walk over the syntax tree
  without further state.
* Secure information flow (`sif/`): two executions of every construct. The
  encoding is a variant of each translator and would need a variant of each
  module of section 4.
* Counterexamples (`models/`), the Silver AST and JVM access: conversions
  without control of their own, over data whose meaning is the solver's or the JVM's.
* The contract library and the type stubs: declarations that do nothing at run time.
* Of the parts modelled: `eval_io`, the token obligations of IO operations, `break`
  and `return` out of loops with obligations, wait levels in postconditions.
