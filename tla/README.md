# Formal models of cache-invariant

cache-invariant runs a pinned `llama.cpp` server through registered scenarios
(prompt cache on and off, cancelled streams, two interleaved streams, saved and
restored slots), checks the observed counters and hashes with a deterministic
oracle, and publishes an evidence bundle that can be verified offline. This
directory holds TLA+ models of its moving parts, the TLC runs that check them
and the proofs that TLAPS checks.

Paths below are relative to `src/cache_invariant/` unless they name a document.

## Inventory

| Part | State it keeps | Operations | What makes it hard | What makes it correct |
|---|---|---|---|---|
| `adapter.py` `dual_stream_disconnect` | barrier, ready and release events, first events, error list, registered connections | two workers and a caller that stream, gate, poll `/slots`, join and clean up | three threads and the server interleave; every wait is bounded; failing workers also signal | a returned report is true; errors reach the caller; nothing is left running |
| `adapter.py` `stream_then_disconnect` | ready, active and stop events | caller streams and disconnects, a sampler polls `/slots` | the sampler races with the read, the close and the stop | the report is final and true; the sampler ends |
| `adapter.py` requests | none | erase, completion, direct-token prefill, save, restore, slot view | answers may be missing or malformed | a bad answer raises |
| `process.py` | the server's handle, port, captures, drain threads | `start`, `stop`, the with statement; process groups on POSIX, snapshots on Windows | processes exit, spawn and are reaped at any moment; numbers are reused; a port is free only for a moment | after `stop` nothing it undertook to end runs; handles are closed |
| `runner.py` | trace and observations, the temporary directory, two servers | the lanes, the restart, the order check | lanes share slots; either server may crash or lose its port to another program | the order is the registered one; lanes do not disturb each other; the restart is real and the first server answers nothing after it |
| `registration.py` | constants | cases and process orders, three schemas | newer orders splice into older ones by index | the order equals what the runner does |
| `oracle.py` | none | invariants per lane, for three schemas | it sees reports, not the server | faults are noticed, a sound server is accepted |
| `fetch.py` | the destination directory | download, extract, lock, validate | a crash or another command between any two steps; archives with links, in any order | a lock vouches for its inputs; the tree is what the archive says |
| `convert.py`, `_vendor/` | the model file | convert, compare, confirm | the output is checked first and opened later | a verified model stays |
| `evidence.py` | staging directory, output path | write, verify, rename, clean up | failures half way, crashes, other writers | the output is complete, and written once |
| `verify.py` | none | `verify_bundle`, `validate_evidence` | re-reads by path; three schemas; a second description of every field | what it accepts is one bundle that could have been published; what a run returns is accepted |
| `cli.py` | none | the four commands | nothing keeps commands from overlapping | "verified" stays true |
| `util.py` | none | path guards, field checks, strict JSON | `..`, links and missing parts in any place of a path | no link is followed; a pinned file has one name |
| `tools/` | the list of findings | privacy scan of a source tree, check of the two archives of a release | the tree changes while it is scanned; the two archives differ in layout | no file is passed over; both archives have the current sources |
| `subprocess_env.py`, `pins.py` | none | a filter of environment variables, constants | – | not modelled |

How they interact: `cli` calls `fetch`, `convert_from_lock`, `run_scenarios`
with `write_bundle`, or `verify_bundle`. These commands share only files: the
destination of a fetch (artifacts, lock, model) and the evidence directory.
`run_scenarios` calls `validate_lock`, extracts the runtime, starts a
`ServerProcess`, drives it through `LlamaCppClient` lane by lane, stops it,
starts a second one for the restart lane, and hands the evidence to the oracle.
Threads exist in the two streaming calls and in the capture of the server's
output. The behaviours that are hard to test are listed with their source lines
under `hazards` in `PROJECT.json`.

## Modules

| Module | Models | Kind |
|---|---|---|
| `DualStream` | `dual_stream_disconnect` | state machine, with fairness |
| `CancelStream` | `stream_then_disconnect` | state machine, with fairness |
| `DisconnectPromise` | what both calls promise | abstract specification |
| `DualStreamProofs` | inductive invariant, safety and refinement of `DualStream` | proofs |
| `Bundle` | `write_bundle` and `verify_bundle` | state machine, with fairness |
| `WriteOnce` | what an output path promises | abstract specification |
| `ServerProcess` | `ServerProcess.start` and `stop`, POSIX and Windows | state machine, with fairness |
| `Provision` | `fetch`, `convert`, and what `run` reads | state machine |
| `Scenarios` | the runner's calls, the registration and the oracle, against a server with faults | state machine |
| `ServerPromise` | what `ServerProcess` promises to its user | abstract specification, with fairness |
| `RunLifetime` | `run_scenarios` as the owner of two servers, ports and a directory | composition of two `ServerPromise`s, with fairness |
| `RuntimeArchive` | `_extract_registered_runtime`: members, link passes, the server's place | state machine, with fairness |
| `EvidenceContract` | the document from the adapter to the verifier, three schemas | state machine over documents |
| `BundleFiles` | the manifest, the JUnit file and what `verify_bundle` asks of a directory | operators over edited bundles |
| `PlainPath` | the path guards of `util.py` | operators over small file systems |
| `PrivacyScan` | `tools/privacy_scan.py` while somebody edits the tree | state machine |
| `DistCheck` | `tools/check_dist.py` | operators over changed archives |
| `CancelStreamProofs`, `BundleProofs`, `ServerProcessProofs`, `RunLifetimeProofs`, `ProvisionProofs`, `RuntimeArchiveProofs` | types, inductive invariant and safety of the module each is named after; the first three also its refinement | proofs |
| `GateProofs` | types of the five gates of `MCGates`, their inductive invariants and their safety | proofs |
| `MCRuntimeArchive` | the archives that `RuntimeArchive` is checked with | TLC instance |
| `MCGates` | `EvidenceContract`, `BundleFiles`, `PlainPath`, `PrivacyScan` and `DistCheck`, side by side | TLC instance |

### DualStream

`pc` is the caller's place and `wpc[s]` the place of the worker of slot `s`. One
step is one shared operation: a barrier, an event, a section under `state_lock`,
a socket call. `barrier`, `ready`, `gate`, `firstEvent`, `errors` and
`registered` are `start_barrier`, `first_event_ready`, `release_stream`,
`first_events`, `worker_errors` and the lists of connections and responses.
Several independent waits of one kind are one step (the two `event.wait(5.0)`).
`client`, `slot` and `event` are the two ends of each connection; the server is
external and is modelled by what the code can see of it. A bounded wait may time
out whenever what it waits for has not happened: no deadline is compared with
another, so the results do not depend on the values of the time-outs. `got` and
`spoiled` are history variables for the properties.

### CancelStream

The same style for a caller and one sampler. The sampler's request may be
answered, fail with a handled error and be repeated, or end the thread with an
exception it does not handle. It refines `DisconnectPromise` with one client.

### Bundle

A directory is named by the writer that made it and keeps its content when it is
renamed; `output` says whose directory the output path leads to. `disk` holds
absent, partial and whole files. Interrupts (`except BaseException`), failed
writes and crashes are separate actions. `sound[w]` says whether what a writer
serialises passes `verify_bundle` when it is read back. The reader resolves the
path again at each of its four steps. `ReplacesEmpty` covers both behaviours of
`os.replace` on an empty directory.

### ServerProcess

The caller runs `start`, the body of the with statement and `stop`; the system
runs processes that may exit, spawn or ignore signals between any two steps of
the caller. On POSIX zombies stay in the group until they are reaped and the
number of an empty group may be reused. On Windows `Tree` is the closure that
`_windows_process_tree` computes, and the wait handles are kept apart from the
processes. `LeaderExited` before `poll()` in `stop` takes the branch that only
reaps the leader. Two kinds of exception leave `stop` between the opening of the
handles and the `try` whose `finally` closes them: a `taskkill` that cannot be
started or outlives its time limit (`process.py:281-286`), and an interrupt. They
end at a place of their own, `leftBeforeWaits`, where handles may be open.

The module implements `ServerPromise` (`KeepsPromise`): `Phase` maps its places
to the phases that a user of the class can tell apart, `running` is the leader,
`family` what descends from it and `found` whether `stop()` saw the server
running. The promise says when `start` and `stop` may end and what then holds.
`platform` is chosen at the start and does not change; on Windows the promise's
`wholeGroup` is false, as the snapshot is all that `stop` speaks for.

### RunLifetime

The composition: `run_scenarios` with two instances of `ServerPromise` in place
of two `ServerProcess` objects, which the runs of `ServerProcess` justify. A port
is chosen while nobody listens on it and is not held (`Make`); the server, or a
stranger, may then listen. Any listener may answer any request, the health check
included: the key that requests carry (`adapter.py:99-103`) tells the server who
asks, and nothing tells the client who answers. `answeredBy` records who did. An
exception may pass through every place that has one in the code, and the
clean-up of the temporary directory may itself fail while a server uses it.

### RuntimeArchive

An archive is a sequence of members, taken from the set `Archives`. A name that
`_safe_member_parts` refuses is the member kind `unsafe`; special files and hard
links have their kinds; a link name that is empty, a dot name, or has a slash or
a colon is `Elsewhere`. `dirs` and `files` are the tree, and a file keeps the
place in the archive that its bytes and its mode are from, so that a copy can be
told from an original. `links` and `left` are `unresolved` and `remaining`. The
properties compare the tree with a definition over the set of members that knows
neither their order nor passes (`Sound`, `ImpliedDirs`, `LinksLeadToFiles`).

### EvidenceContract

A document is a function from paths of keys to typed values, so that a missing
key, an unknown key and a wrong type are different documents. The field names of
the lanes are those of the code, on both sides: `Measured` is translated from the
adapter and the runner, `Shape` from the verifier, and the invariants from the
oracle, each from its own source. A hash is a number of its own type. `Equal` is
`==` of Python, for which `True`, `1` and `1.0` are one value. Three registered
token cases keep their numbers; texts are numbers without meaning.

### BundleFiles

`Bundle` has the order of the reads and writes and one flag for "verifies". Here
that flag is opened: a text is a document in a form, a hash names a text, a
length is shared by texts, and an editor changes texts, records, names and kinds
of files in any order. `Accepted` is the conjunction of the checks of
`verify_bundle`; that they are made one after the other is `Bundle`'s matter.

### PlainPath

A tree of two levels with files, directories and links; a path is a sequence of
names and `..`. `Resolve` is the system's resolution, which follows links before
it takes `..`; the guards are those of the code, over `Lstat`. Only POSIX is
modelled: on Windows `..` is taken away lexically before any lookup.

### PrivacyScan and DistCheck

`PrivacyScan` looks at one path after the other: its name, what `lstat` says,
the read, the lines. Names, things and texts are classes that the code tells
apart. An edit may happen between any two steps. `DistCheck` has one operator
per function of the script; a member is a sequence of parts with current or stale
bytes, and `relative` is the name that the dictionary of the source archive
keeps, which depends on the iteration order of a set.

### MCGates

The five modules that judge something - a document, a bundle, a path, a tree, a
release - share no state and each has few states of its own. `MCGates` lets a
behaviour go through any one of them and states their properties for it; the
variables of the other four hold a constant.

### Provision

A file is an inode named by its creator and a path leads to an inode or to none,
so an `unlink` leaves an open file behind as the system does. Pins make "whole"
the only content that a hash accepts. `fetch` is `FetchStart`, then `Request`,
`CreateFile`, `Fill`, `CheckFile` for each of three artifacts, `Extract`,
`WriteLock`, `Validate`; `Discard` is the exception handler. `convert` and `run`
follow in the same way. Every process may die between any two steps, and the
commands overlap in any way, as nothing in the code keeps them apart. Two history
variables let the properties name what that costs: `met` has the pairs of commands
of one kind that were under way together, `lost` the files that a command removed
or truncated although another had made them, where the two have met.

### Scenarios

`Calls` is translated from the lanes in `runner.py`, `ProcessOrder` from
`registration.py`, each with its own names; the model checks that they agree.
Prompts are short token sequences that share the token of the beginning of a
text, except the direct-token prompts, which are those of the code. The server
reuses the longest common prefix and at least one prompt token is evaluated,
which is what `docs/ARCHITECTURE.md` expects of it. It may have silent faults:
it erases nothing or the wrong slot, reuses what it should not or never, restores
nothing or elsewhere, spoils a result after a cancellation, a restore or a reuse,
rewrites the state file, or miscounts. The report of a streaming call is a single
flag here; its truth is the subject of `DualStream` and `CancelStream`. The
oracle's invariants are grouped per lane and slot.

## Runs

All bounds are the constants of the `.cfg` files.

| Run | Bounds | Shows |
|---|---|---|
| `dual_stream` | the code's two slots, `First = 1` | all interleavings of three threads and the server: `ReportTruthful`, `NoErrorSwallowed`, `IdleReportLasts`, `SurvivorHeld`, the refinement `KeepsPromise`, and that every call comes to rest (`Quiesces`) |
| `cancel_stream` | none needed | the report is final and true (`ReportTruthful`), `KeepsPromise`, and the call comes to rest (`Quiesces`) |
| `cancel_stream_order` | none needed | violation: activity first observed after the first event was read |
| `bundle` | two writers, one reader | `PublishedVerifies`, `ReaderSeesOneBundle`, `LitterHasAReason`, `WritersEnd`, the refinement `IsWrittenOnce` |
| `server_process` | POSIX and Windows, a leader and two children | `VerifiedTermination`, `SignalsOwnGroup`, `HandlesClosed`, the refinement `KeepsPromise` with its fairness, so that `start` and `stop` end |
| `server_process_gone` | POSIX, one child | violation: after `stop` a spawned process still runs |
| `provision` | two fetches, two conversions, one run, in any overlap | `LockMeansInputs`, `VerifiedStays`, `LoadsWholeModel` |
| `provision_overlap` | two overlapping fetches | violation: a fetch removes the file of the other |
| `scenarios` | at most three faults of fifteen | `FollowsOrder`, `AcceptedMeansSound`, `SoundIsAccepted`, `RestoreIsReal` |
| `run_lifetime` | two ports, two calls in each body, POSIX and Windows | `RestartIsReal`, `ServersAreKeptApart`, `SurvivorsHaveAReason`, `RunEnds` |
| `runtime_archive` | three members of any of six kinds with two names and paths of two parts, in both formats; four files and links with three names | `OrderIsNoMatter`, `TreeIsArchive`, `Ends` |
| `gates` | documents: counts up to 5, one odd answer or one change; bundles: four changes; paths: two names, four parts; scan: two paths, one edit; release: two changes | `ReturnedCanBeWritten`, `VersionsDoNotMix`, `ChangesAreNoticed`; `AcceptedIsWritten`; `GuardsLeaveOneName`; `EveryPathAccounted`; `ArchivesAgree` |

Each module with variables of its own also has a type invariant, `TypeOK`. A run
checks the one of `DualStream`; it and those of `CancelStream`, `Bundle`,
`ServerProcess`, `RunLifetime`, `Provision` and `RuntimeArchive` are theorems, and
the others document the state.

Why the bounds are enough. Two slots are all the code has. Two writers and two
processes of each command are the least for a race, and each holds at most one
file of each kind. Two children make a chain of spawns, so that the closure over
parents and a late spawn both occur. Two faults are the least for one to mask
another, and a single pair does so: slots that share their caches hide a restore
into the wrong slot, and then also, a third fault, what that restore spoilt there.
`Hidden` is exactly this exception of `AcceptedMeansSound`; `RestoreIsReal` makes
no claim about the restore in the same process when slots share their caches, as
the slot that was saved may then serve what was restored. More faults add nothing:
with `MaxFaults = 15` TLC has also been run on each of four parts into which two of
the faults divide `Init`, so that every one of the 32768 sets of faults was started
from; only the step `Raise`, which ends a run without evidence, was left out there.
Two ports are the least for the two servers to have different ones and for one to
be taken, and they may also have the same. Three members give a file, a directory
and a duplicate, or a link in any order with its target; four members give a chain
of three links, a cycle beside a chain, and every order of them, and a fifth adds
no relation between two members that these lack. One odd answer may be of one call
or of all calls of a kind, which is the way in which a server is consistently
wrong. Four changes are the least that make a consistent forgery of a bundle (a
text, its record, and the other pair); two changes make a second copy of a source
and its sibling stale. Paths of four parts in a tree of two levels go below, up
again and beside.

Deadlock is checked in every run: a finished system stutters by an explicit
action (`AllOver`, `Over`, `Stay`, `Stop`), so any other stop would be reported.

### The violations

- `ObservedBeforeFirstEvent`: `docs/ARCHITECTURE.md:91-93` requires an
  observation before the first event is read. The wait's result is not used
  (`adapter.py:463`) and the sampler goes on afterwards.
- `StoppedMeansGone`: `runner.py:385-386` says that stop has verified
  termination. A server that has already exited takes the branch at
  `process.py:312`, which looks at no other process.
- `DownloadsKeepForeignFiles`: `fetch.py:68` refuses to overwrite. A file that
  appears after that test makes the exclusive open raise, and the handler at 96-98
  unlinks it, although it is another fetch's.

### Where the passing properties stop

Some properties hold up to an exception that they state, because the code does
less than a document says or a reader may expect. No run is kept for these. Where
the exception is written into the property, the model has a counterexample as soon
as it is taken out.

- `ChangesAreNoticed` leaves out values that Python takes for equal. `README.md:75-76`
  says that `verify` validates the exact schema; whole objects are compared by `!=`
  (`verify.py:359`, `418`, `426`), for which `1` and `1.0` are `True`. Leaves of the
  measured lanes are checked by type.
- `EveryPathAccounted` leaves out excluded names. `docs/PRIVACY.md:3-4` excludes
  directories; the scan (`tools/privacy_scan.py:80`) excludes files of these names
  as well.
- `ArchivesAgree` says that current bytes are somewhere in the source archive. Of
  two members with one relative path only one is compared with the tree
  (`tools/check_dist.py:145-147`), so that the other may be stale.
- `TreeIsArchive` has links as copies. `SECURITY.md:7-8` says that symlinks are
  rejected; those of a tar archive are copied (`fetch.py:154-185`), as the comment
  there says.
- `LockMeansInputs` and `VerifiedStays` leave out what one of two fetches, or of two
  conversions, that were under way together took from the other, and
  `LoadsWholeModel` in addition a model that its conversion withdraws after a run
  has validated it. `DownloadsKeepForeignFiles` is the violation for fetches. Two
  conversions do the same: the output is looked for before the conversion
  (`convert.py:31`) and opened without exclusive creation after it
  (`_vendor/llama2c_gguf.py:253`), so that the model of another is truncated, while
  `README.md:46-48` says that an existing output is refused.
- `HandlesClosed` leaves out exceptions that come before the `try` of the waits
  (`process.py:271-286`); handles stay open after them.
- `RestoreIsReal` leaves out the restore in the same process when slots share their
  caches, a fault of the server that no invariant of the oracle is about.
- `ServersAreKeptApart` says that the first server answers nothing for the second,
  and not that the second, or the first, answers for itself: a stranger who takes
  the port (`process.py:48`) and ignores the key is believed.
- `ReturnedCanBeWritten` is about one odd field, in one call or in all calls of a
  kind, and not about several fields that are odd at once.
- `EveryPathAccounted` is about the paths that were listed. `rglob` passes over a
  directory that it may not read without an error (`tools/privacy_scan.py:78`).
- `LitterHasAReason` takes an interrupt between `mkdtemp` and the `try`
  (`evidence.py:35`) as a failure of the check that stands there, not as an
  interrupt at any of its instructions.
- `IdleReportLasts` says that a slot reported idle stays idle, and not that the
  report came after the disconnection, which `docs/ARCHITECTURE.md:26-27` describes:
  the caller opens the worker's gate and polls at once (`adapter.py:589`), and a
  stream that ended on its own is idle by then.

### Fairness

Liveness is claimed only where the code's scheduling justifies it. Threads that
can take a step take one (weak fairness of the caller, of each worker, of the
sampler, of a writer). A polling loop runs against `time.monotonic()`, so its
expiry is strongly fair: the loop's body cannot postpone it for ever. The server
notices that its client is gone, and a killed process exits. Nothing forces a
request to be answered, an event to be sent or a generation to end, nothing
forces a process to exit on SIGTERM, and crashes, interrupts and spawns are never
forced. In `RunLifetime` the runner, a sequential program each of whose waits has
a time limit, takes a step when it can; `ServerPromise!FairSpec` says as much of
the caller of one server, and `KeepsPromise` shows that `ServerProcess` provides
it. In `RuntimeArchive` the extraction is the only process and takes its steps.
`Provision`, `Scenarios` and the modules of `MCGates` are specifications without
fairness and carry safety only.

### How the models fit together

`ServerProcess` implements `ServerPromise`, and `RunLifetime` is built from two
promises: what it shows of `run_scenarios` holds with the real class in their
place, as far as its bounds go. `DualStream` and `CancelStream` implement
`DisconnectPromise`; `Scenarios` takes the report of such a call as one flag.
`Bundle` implements `WriteOnce`. `RuntimeArchive` opens the step `Extract` of
`Provision`, `EvidenceContract` the check in `Build` and `Write`, `BundleFiles`
the predicate `Verifies` of `Bundle`, and `PlainPath` the guards that `Provision`
and `Bundle` take as tests that hold.

## Proofs

Every theorem is about the specification that the runs check, without its
fairness, and holds for every value of the constants that its module's
assumptions allow. In each module `Inductive` is `Spec => []IInv` and rests on
three facts: `Init` implies `IInv`, a step keeps it, and it implies the property.
The step is one lemma per conjunct of `IInv`, with one step of the proof per
action or, where few actions matter, on top of lemmas about what a step changes
(`ProvisionProofs`); in `GateProofs`, whose parts share no state, it is one lemma per gate.

| Module | For | Theorems |
|---|---|---|
| `DualStreamProofs` | either slot first | `TypeCorrect`, `ReportIsTruthful`, `ErrorsAreRaised` (`NoErrorSwallowed`), `IdleReportIsLasting` (`IdleReportLasts`), `SurvivorIsHeld` (`SurvivorHeld`), `PromiseIsKept` (`KeepsPromise`) |
| `CancelStreamProofs` | – | `TypesHold`, `ReportsAreTruthful` (`ReportTruthful`), `PromiseIsKept` (`KeepsPromise`) |
| `BundleProofs` | any set of writers, either behaviour of `os.replace` on an empty directory | `TypesHold`, `PublishedBundlesVerify` (`PublishedVerifies`), `ReadersSeeOneBundle` (`ReaderSeesOneBundle`), `LitterIsExplained` (`LitterHasAReason`), `WrittenOnce` (`IsWrittenOnce`) |
| `ServerProcessProofs` | any set of processes the server may spawn, both platforms | `TypesHold`, `TerminationIsVerified` (`VerifiedTermination`), `OwnGroupIsSignalled` (`SignalsOwnGroup`), `HandlesAreClosed` (`HandlesClosed`), `PromiseIsKept` |
| `RunLifetimeProofs` | any set of ports, any number of calls in a body | `TypesHold`, `RestartsAreReal` (`RestartIsReal`), `AnswersAreKeptApart` (`ServersAreKeptApart`), `SurvivorsAreExplained` (`SurvivorsHaveAReason`) |
| `ProvisionProofs` | any sets of fetches, conversions and runs, in any overlap | `TypesHold`, `LocksMeanInputs` (`LockMeansInputs`), `VerifiedFilesStay` (`VerifiedStays`), `WholeModelsAreLoaded` (`LoadsWholeModel`) |
| `RuntimeArchiveProofs` | any set of archives, of any length, over any names | `TypesHold`, `OrderDoesNotMatter` (`OrderIsNoMatter`), `ExtractionIsTheArchive` (`TreeIsArchive`) |
| `GateProofs` | every value of the bounds, any names | `ScanFailsClosed` (`EveryPathAccounted`), `VerificationIsExact` (`AcceptedIsWritten`), `PassingArchivesAgree` (`ArchivesAgree`), `OneNameIsLeft` (`GuardsLeaveOneName`), `OneVersion` (`VersionsDoNotMix`), `ReturnedIsWritten` (`ReturnedCanBeWritten`), `ChangesAreSeen` (`ChangesAreNoticed`) |

In parentheses is the property of a run that the theorem states, where its name
is another.

Assumptions. The constants have those that their modules name: there is a
writer, a body has a call, names of things that differ are different values,
archives are sequences of members. No theorem asks for more.

### Why the properties hold

None of the properties is inductive. Each is about the end of something and
rests on what was done long before, so that every `IInv` says what is known at
each place in between.

- `DualStream`. `WorkerInv`: a worker that signals has stored what it received,
  and one that leaves without an error came through its gate. `StreamInv`: a
  closed client means a failure, a finished worker or a finished call.
  `MainInv`: what the caller has waited for at each place; the survivor's gate
  stays shut until the caller passes `survivor`. `SpoiledInv`: a disconnection
  before both events were received implies that a failure is recorded or the call
  raises; this is why `ReportTruthful` holds although a failing worker sets its
  ready event, since the error list is read after the joins. `IdleInv`: idle flags
  of the last loop stay true, because a released slot is not taken again.
- `CancelStream`. `StreamInv` is how far the caller is with its stream, `EventInv`
  that an event comes from a slot that is or was busy. `DrainInv` is the point:
  the caller polls for an idle slot only after the join, when no sampler runs, and
  with an event in hand, so that "not busy" can only mean "released".
- `Bundle`. `PublishInv`: between the verification and the rename nobody touches a
  writer's files, and the directory at the output path has no second name under
  which its writer, or its clean-up, could still change it. Therefore a reader,
  which resolves the path at each step, always finds the same directory
  (`ReaderInv`). `StagingInv` is when a staging directory cannot be there.
- `ServerProcess`. `LeaderInv`: the number of the group belongs to the leader
  until the caller reaps it, and every signal precedes that. `HandleInv`: the
  processes of the snapshot that still run have an open handle until the wait for
  them is over. `SpawnInv` says that what is spawned late is not in the snapshot,
  and `GoneInv` what the check at the end of `stop` has established. The lemma
  `TreeBound` gives what the proof needs of the closure over parents. The
  refinement maps every action to an action of `ServerPromise` or a stutter.
- `RunLifetime`. `ServersInv`: what the promise says of a server that is new,
  stopped or failed. `PlaceInv`: which with statement the runner is in when a server
  is busy, so that the second server does not exist before the first has stopped.
  `PortInv` and `ListenInv`: a launched server has a port, and only a server that
  runs listens, so that a first server that has stopped answers nothing. `CallsInv`:
  a with statement that ended without an exception has had all its calls answered.
- `Provision`. `MetInv`: commands of one kind that are under way have met. `EmptyInv`
  is why a retry cannot harm: the test for an empty destination is made before
  anything is created, and a fetch that dies leaves the directory marked. From both
  follows `RaceInv`: what a fetch finds of another was made by one that it has met,
  and so was the model that a conversion finds after it has found none; whatever
  either then takes away is `lost`. `MakerInv` says who makes which file. `FetchInv`:
  what a fetch has verified is at its path, unless lost. `LockInv`: a complete lock
  is of a fetch that had verified all artifacts and will discard nothing any more.
  `ModelInv` is the same for the model of a conversion, and `LoadInv` for the model
  that a run has validated, until a conversion withdraws it.
- `RuntimeArchive`. `TreeInv` and `ContentInv` say which members the tree is made of
  so far and what each file holds. `OrderInv` relates the passes to the definition
  `LinksLeadToFiles`, which knows of none: in every set of copied links one leads
  out of the set, to a file or to another copied link. `PassInv` is the converse:
  in a pass that has copied nothing, every link that was put off leads to
  nothing, so that a refusal is justified by a set of links that lead only to each
  other or nowhere. Together they give both halves of `OrderIsNoMatter` without an
  induction over the passes.
- The gates. `ScanInv` says of the paths that were passed that they are accounted
  for, and of the current one what the checks so far have let through; an edit
  changes neither what was listed nor what was seen. `BundleInv` says only that
  the texts and records are of their kinds: that `Accepted` is equivalent to the
  property is then an argument about sequences of records without a repetition.
  `ArchivesInv` places the dictionary's choice among the packaged files; the rest
  is about names and the ways in which both layouts take a path apart.
- The path guards. `GuardsInv` keeps the file system a tree of directories, files
  and links. Resolution and the guards walk the same parts (`Walk`), so the proof
  compares the two walks: as long as no part seen so far is a link, both stand at
  the same directory. Paths have any number of parts. There is no induction scheme to
  cite, so the proof takes the least place at which the walks part, which exists in
  a non-empty set of numbers, and finds the link that the guard refused there.
- The contract. `ContractInv` says what the document is at each place: while it is
  returned it is the one that was measured, from answers that no call refused, and
  the oracle's invariants hold of it; once it is edited it is one leaf away from a
  document that was returned and that the validator accepts. Objects are functions on paths, so that the
  lemmas on `Obj` and `Merge` (what is below a key, what has no other key) carry the
  whole comparison of `Shape` with `Measured`. `OneVersion` rests on one leaf of
  each versioned part that the two schemas disagree about. `ReturnedIsWritten` goes
  lane by lane: a lane has its shape because each answer in it was taken, and the
  counts of the save lane are positive only because the invariants that compare
  them passed. `ChangesAreSeen` compares the edited document with the one it came
  from. Two parts of a document name its version, so that a change to one leaf
  leaves the version and with it the leaves that each part must have: a leaf that
  is removed or added is refused. For a leaf that is altered, the invariants that
  passed give the ties of each lane (`CacheTies`, `CancellationTies`, `SaveTies`,
  `InterleavingTies`, `TokenTies`), and a leaf tied to another that did not change
  has not changed either.

Each `IInv` was checked with TLC, as an invariant of the module's run, before it
was proved.

### Only model-checked

- Liveness, which rests on fairness: `Quiesces`, `WritersEnd`, `RunEnds`, `Ends`, and
  the half of `ServerProcess`'s `KeepsPromise` that is the fairness of the promise.
  `PromiseIsKept` of `ServerProcessProofs` is `Spec => Promise!Spec`, the other half.
- `FollowsOrder`, `AcceptedMeansSound`, `SoundIsAccepted` and `RestoreIsReal` of
  `Scenarios`: the registered calls and tokens there are constants of the code, and
  each property is about one long evaluation of them. Its only parameter is
  `MaxFaults`, and of the faults there are fifteen, so that TLC's check of every set
  of them (above) leaves nothing to prove.

## Not modelled

- JSON decoding, and the layout of JSON and XML: a text parses to a document or is
  refused (`BundleFiles`), and an answer of the server has its fields or makes the
  call raise (`EvidenceContract`).
- The bounded capture of a server's output (`process.py:25-42`): the last 8192
  bytes, of which the code only asks whether there are any.
- The numerical content of a conversion, which is data behind a hash.
- `subprocess_env.py`: a filter of strings without state.
- Windows' lexical treatment of `..`, junctions, and UNC anchors: `PlainPath` has
  symbolic links on POSIX only. Its paths are sequences of parts, so that spellings
  with `.` or an empty part, which `Path()` takes away (`util.py:210`), are not in it.
- The patterns of the privacy scan: a text matches or does not. The markers inside
  the metadata of a release (`tools/check_dist.py:177-181`, `215-219`, `228-250`):
  they are part of "current bytes".
- Host detection (`fetch.py:43-63`), argument parsing and messages.
- `pins.py`, tests and CI.

## Plan

Done: the two streaming calls (the most concurrent code), the evidence bundle, the
server process, provisioning, the scenarios with their oracle, archive
extraction, the contract between run and verifier, the lifetime of a run over two
servers, the path guards and the release tools; and the safety proofs of all of
these but the scenarios, which TLC checks completely.

Left: the exceptions under "Not modelled".
