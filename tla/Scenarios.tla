------------------------------ MODULE Scenarios ------------------------------
(***************************************************************************)
(* run_scenarios (runner.py) driving two server processes through the      *)
(* registered scenarios, and the oracle (oracle.py) that accepts or rejects*)
(* what it observed.                                                       *)
(*                                                                         *)
(* The server is external.  Its slots keep a prompt cache; a request with  *)
(* cache_prompt reuses the longest common prefix, but never the whole      *)
(* prompt.  A server may have faults, at most MaxFaults of them, all of    *)
(* them silent: every request is acknowledged as if it had been done.  The *)
(* model asks which of them the oracle can miss.                           *)
(*                                                                         *)
(* A prompt is a sequence of tokens, 1 the beginning of every text; a      *)
(* result is the prompt it answers and whether it is spoilt; the reports of*)
(* the streaming calls (DualStream, CancelStream) are a single flag.       *)
(***************************************************************************)
EXTENDS Naturals, Sequences, FiniteSets, TLC

CONSTANT MaxFaults   \* bound: faults of one server

ASSUME MaxFaultsAssumption == MaxFaults \in Nat

-----------------------------------------------------------------------------
(* registration.py                                                          *)

Slots == {"slot_0", "slot_1"}

Completion(name, slot, prompt, cache) ==
    [name |-> name, slot |-> slot, prompt |-> prompt, cache |-> cache]

CachePrompt == <<1, 11, 12>>
CancelPrompt == <<1, 21, 22>>
StreamPrompt == <<1, 31, 32>>
SavePrompt == <<1, 41, 42, 43>>
InterleavingPrompt == [slot_0 |-> <<1, 51, 52>>, slot_1 |-> <<1, 61, 62>>]

CacheCases ==
    << Completion("cold_cache_on", "slot_0", CachePrompt, TRUE),
       Completion("repeat_cache_on", "slot_0", CachePrompt, TRUE),
       Completion("cold_cache_off", "slot_1", CachePrompt, FALSE),
       Completion("repeat_cache_off", "slot_1", CachePrompt, FALSE) >>

CleanBaseline == Completion("clean_baseline", "slot_1", CancelPrompt, FALSE)
ReusedSlot == Completion("reused_slot", "slot_0", CancelPrompt, FALSE)

Baselines ==
    [s \in Slots |-> Completion(s, s, InterleavingPrompt[s], FALSE)]

SaveSource == Completion("source", "slot_0", SavePrompt, TRUE)
SaveSame == Completion("same_process.restored", "slot_1", SavePrompt, TRUE)
SaveAfter == Completion("after_restart.restored", "slot_0", SavePrompt, TRUE)

TokenSource == <<403, 407, 261, 378>>

TokenCases == [
    exact |-> [common |-> 4, target |-> TokenSource],
    shared_prefix |-> [common |-> 3, target |-> <<403, 407, 261, 328, 426>>],
    first_token_divergence |-> [common |-> 0, target |-> <<385, 328, 426>>]]

TokenOrder == <<"exact", "shared_prefix", "first_token_divergence">>

(* The names of the process order, a tuple for each dotted name.            *)
ErasesAt(lane) == << <<lane, "erase", "slot_0">>, <<lane, "erase", "slot_1">> >>

OrderV1 ==
    << <<"start_server_1">> >>
    \o ErasesAt("cache_pairing")
    \o [i \in DOMAIN CacheCases |-> <<"cache_pairing", CacheCases[i].name>>]
    \o ErasesAt("cancellation_reuse")
    \o << <<"cancellation_reuse", "clean_baseline">>,
          <<"cancellation_reuse", "disconnect">>,
          <<"cancellation_reuse", "reused_slot">> >>
    \o ErasesAt("save_restore")
    \o << <<"save_restore", "source">>,
          <<"save_restore", "save", "slot_0">>,
          <<"save_restore", "restore", "slot_1">>,
          <<"save_restore", "same_process.restored">>,
          <<"stop_server_1">>,
          <<"hash_slot_state_before_restart">>,
          <<"start_server_2">>,
          <<"save_restore", "erase", "slot_0">>,
          <<"save_restore", "restore", "slot_0">>,
          <<"save_restore", "after_restart.restored">>,
          <<"stop_server_2">>,
          <<"hash_slot_state_after_restart">> >>

InterleavingOrder ==
    ErasesAt("interleaving_isolation")
    \o << <<"interleaving_isolation", "baselines", "slot_0">>,
          <<"interleaving_isolation", "baselines", "slot_1">> >>
    \o ErasesAt("interleaving_isolation")
    \o << <<"slot_0_cancelled_first", "dual_stream_disconnect">>,
          <<"slot_0_cancelled_first", "slot_0">>,
          <<"slot_0_cancelled_first", "slot_1">> >>
    \o ErasesAt("interleaving_isolation")
    \o << <<"slot_1_cancelled_first", "dual_stream_disconnect">>,
          <<"slot_1_cancelled_first", "slot_0">>,
          <<"slot_1_cancelled_first", "slot_1">> >>

TokenStepsAt(case) ==
    << <<case, "erase", "slot_0">>, <<case, "source">>,
       <<case, "cache_on_target">>,
       <<case, "erase", "slot_0">>, <<case, "cache_off_target">> >>

TokenPrefixOrder ==
    TokenStepsAt(TokenOrder[1]) \o TokenStepsAt(TokenOrder[2]) \o TokenStepsAt(TokenOrder[3])

(* Mutation of ProcessOrder: the lanes are put in before the last step of   *)
(* cancellation_reuse.                                                      *)
ProcessOrderEarly ==
    SubSeq(OrderV1, 1, 11) \o InterleavingOrder \o TokenPrefixOrder
    \o SubSeq(OrderV1, 12, Len(OrderV1))

ProcessOrder ==
    SubSeq(OrderV1, 1, 12) \o InterleavingOrder \o TokenPrefixOrder
    \o SubSeq(OrderV1, 13, Len(OrderV1))

-----------------------------------------------------------------------------
(* runner.py: the calls that run_scenarios makes, one record each, with the *)
(* name that it then appends to its trace.                                  *)

Call(at, op, slot, prompt, cache) ==
    [at |-> at, op |-> op, slot |-> slot, prompt |-> prompt, cache |-> cache]

Plain(at, op, slot) == Call(at, op, slot, <<>>, FALSE)

CompletionCase(lane, c) ==
    Call(<<lane, c.name>>, "complete", c.slot, c.prompt, c.cache)

EraseRegisteredSlots(lane) ==
    << Plain(<<lane, "erase", "slot_0">>, "erase", "slot_0"),
       Plain(<<lane, "erase", "slot_1">>, "erase", "slot_1") >>

CachePairing ==
    EraseRegisteredSlots("cache_pairing")
    \o [i \in DOMAIN CacheCases |-> CompletionCase("cache_pairing", CacheCases[i])]

CancellationReuse ==
    EraseRegisteredSlots("cancellation_reuse")
    \o << CompletionCase("cancellation_reuse", CleanBaseline),
          Call(<<"cancellation_reuse", "disconnect">>, "cancel", "slot_0", StreamPrompt, TRUE),
          CompletionCase("cancellation_reuse", ReusedSlot) >>

InterleavingDirection(name) ==
    << Call(<<name, "dual_stream_disconnect">>, "dual", "slot_0", StreamPrompt, TRUE),
       CompletionCase(name, Baselines["slot_0"]),
       CompletionCase(name, Baselines["slot_1"]) >>

InterleavingIsolation ==
    LET lane == "interleaving_isolation" IN
    EraseRegisteredSlots(lane)
    \o << Call(<<lane, "baselines", "slot_0">>, "complete", "slot_0",
               InterleavingPrompt.slot_0, FALSE),
          Call(<<lane, "baselines", "slot_1">>, "complete", "slot_1",
               InterleavingPrompt.slot_1, FALSE) >>
    \o EraseRegisteredSlots(lane) \o InterleavingDirection("slot_0_cancelled_first")
    \o EraseRegisteredSlots(lane) \o InterleavingDirection("slot_1_cancelled_first")

TokenPrefixCase(case) ==
    LET erase == Plain(<<case, "erase", "slot_0">>, "erase", "slot_0")
        target == TokenCases[case].target
    IN  << erase,
           Call(<<case, "source">>, "complete", "slot_0", TokenSource, TRUE),
           Call(<<case, "cache_on_target">>, "complete", "slot_0", target, TRUE),
           erase,
           Call(<<case, "cache_off_target">>, "complete", "slot_0", target, FALSE) >>

TokenPrefixDivergence ==
    TokenPrefixCase(TokenOrder[1]) \o TokenPrefixCase(TokenOrder[2])
    \o TokenPrefixCase(TokenOrder[3])

SaveRestoreSameProcess ==
    EraseRegisteredSlots("save_restore")
    \o << CompletionCase("save_restore", SaveSource),
          Plain(<<"save_restore", "save", "slot_0">>, "save", "slot_0"),
          Plain(<<"save_restore", "restore", "slot_1">>, "restore", "slot_1"),
          CompletionCase("save_restore", SaveSame) >>

RestoreAfterRestart ==
    << Plain(<<"save_restore", "erase", "slot_0">>, "erase", "slot_0"),
       Plain(<<"save_restore", "restore", "slot_0">>, "restore", "slot_0"),
       CompletionCase("save_restore", SaveAfter) >>

Calls ==
    << Plain(<<"start_server_1">>, "start", "slot_0") >>
    \o CachePairing \o CancellationReuse \o InterleavingIsolation
    \o TokenPrefixDivergence \o SaveRestoreSameProcess
    \o << Plain(<<"stop_server_1">>, "stop", "slot_0"),
          Plain(<<"hash_slot_state_before_restart">>, "hash", "slot_0"),
          Plain(<<"start_server_2">>, "start", "slot_0") >>
    \o RestoreAfterRestart
    \o << Plain(<<"stop_server_2">>, "stop", "slot_0"),
          Plain(<<"hash_slot_state_after_restart">>, "hash", "slot_0") >>

-----------------------------------------------------------------------------
VARIABLES
    faults,   \* the faults of the server, fixed for the run
    next,     \* the call that comes next
    phase,    \* "running", then "accepted", "rejected" or "raised"
    trace,    \* the names of the calls made
    seen,     \* what each call that reports something reported
    cache,    \* the tokens in each slot's prompt cache
    spoilt,   \* the slots that answer with a wrong result
    origin,   \* history: the slots that hold tokens of the state file
    file,     \* the slot state file
    fromFile  \* history: the completions that reused restored tokens

serverVars == <<cache, spoilt, origin, file>>
vars == <<faults, next, phase, trace, seen, serverVars, fromFile>>

(* Faults that some invariant notices, and the ones that none is about.     *)
Noticed == {"erasesNothing", "erasesOther", "reusesOff", "reusesNever",
            "reusesWhole", "restoresNothing", "restoresOther", "cancelSpoils",
            "restoreSpoils", "reuseSpoils", "rewritesFile", "miscountsSlot",
            "miscountsRestore"}
Tolerated == {"sharesCache", "savesPart"}
Faults == Noticed \cup Tolerated

TypeOK ==
    /\ faults \in SUBSET Faults
    /\ next \in 1 .. Len(Calls) + 1
    /\ phase \in {"running", "accepted", "rejected", "raised"}
    /\ trace \in Seq({ProcessOrder[i] : i \in DOMAIN ProcessOrder})
    /\ DOMAIN seen \subseteq {trace[i] : i \in DOMAIN trace}
    /\ DOMAIN cache = Slots
    /\ spoilt \subseteq Slots /\ origin \subseteq Slots
    /\ fromFile \subseteq DOMAIN seen

Empty == [s \in Slots |-> <<>>]

Init ==
    /\ faults \in {F \in SUBSET Faults : Cardinality(F) <= MaxFaults}
    /\ next = 1 /\ phase = "running" /\ trace = <<>>
    /\ seen = << >>
    /\ cache = Empty /\ spoilt = {} /\ origin = {}
    /\ file = <<>> /\ fromFile = {}

Has(fault) == fault \in faults

-----------------------------------------------------------------------------
(* The external server                                                      *)

Other(slot) == CHOOSE s \in Slots : s # slot

(* The length of the longest common prefix.                                 *)
Lcp(a, b) ==
    Cardinality({k \in 1 .. Len(a) :
                    k <= Len(b) /\ \A i \in 1 .. k : a[i] = b[i]})

(* The slot whose cache serves a request: its own, unless they are shared   *)
(* and the other has more of the prompt.                                    *)
Source(slot, prompt) ==
    IF /\ Has("sharesCache")
       /\ Lcp(cache[Other(slot)], prompt) > Lcp(cache[slot], prompt)
    THEN Other(slot) ELSE slot

(* How many tokens of the prompt a request reuses.                          *)
Reused(slot, prompt, on) ==
    LET best == Lcp(cache[Source(slot, prompt)], prompt)
    IN  CASE Has("reusesNever") \/ ~(on \/ Has("reusesOff")) -> 0
          [] best = Len(prompt) /\ ~Has("reusesWhole") -> best - 1
          [] OTHER -> best

Generated == 0   \* stands for the tokens that an answer adds to the cache

Erased(slot) ==
    CASE Has("erasesNothing") -> {}
      [] Has("erasesOther") -> {Other(slot)}
      [] OTHER -> {slot}

RestoredTo(slot) ==
    CASE Has("restoresNothing") -> {}
      [] Has("restoresOther") -> {Other(slot)}
      [] OTHER -> {slot}

-----------------------------------------------------------------------------
(* The runner's calls, each with what the server does of it                 *)

Done(call) ==
    /\ next' = next + 1
    /\ trace' = Append(trace, call.at)
    /\ UNCHANGED <<faults, phase>>

Report(at, value) == seen' = (at :> value) @@ seen

Start(call) ==
    /\ call.op = "start"
    /\ Done(call)
    /\ cache' = Empty /\ spoilt' = {} /\ origin' = {}
    /\ UNCHANGED <<seen, file, fromFile>>

Stop(call) ==
    /\ call.op = "stop"
    /\ Done(call)
    /\ cache' = Empty /\ spoilt' = {} /\ origin' = {}
    /\ UNCHANGED <<seen, file, fromFile>>

Erase(call) ==
    /\ call.op = "erase"
    /\ Done(call)
    /\ cache' = [s \in Slots |-> IF s \in Erased(call.slot) THEN <<>> ELSE cache[s]]
    /\ spoilt' = spoilt \ Erased(call.slot)
    /\ origin' = origin \ Erased(call.slot)
    /\ UNCHANGED <<seen, file, fromFile>>

(* completion_case and direct_token_prefill_case: the request, then the     *)
(* slot's own count of the prompt tokens it processed.                      *)
Complete(call) ==
    /\ call.op = "complete"
    /\ Done(call)
    /\ LET reused == Reused(call.slot, call.prompt, call.cache)
           work == Len(call.prompt) - reused
           wrong == call.slot \in spoilt \/ (Has("reuseSpoils") /\ reused > 0)
           restored == reused > 0 /\ Source(call.slot, call.prompt) \in origin
       IN  /\ Report(call.at,
                     [result |-> <<call.prompt, wrong>>, total |-> Len(call.prompt),
                      cached |-> reused, work |-> work,
                      slotWork |-> IF Has("miscountsSlot") THEN work + 1 ELSE work])
           /\ fromFile' = IF restored THEN fromFile \cup {call.at} ELSE fromFile
           /\ origin' = IF restored THEN origin \cup {call.slot} ELSE origin \ {call.slot}
    /\ cache' = [cache EXCEPT ![call.slot] = call.prompt \o <<Generated>>]
    /\ UNCHANGED <<spoilt, file>>

(* stream_then_disconnect and dual_stream_disconnect: the report's flags may*)
(* be missing whatever the server does, its waits are bounded.              *)
Disconnect(call) ==
    /\ call.op \in {"cancel", "dual"}
    /\ Done(call)
    /\ \E flags \in BOOLEAN : Report(call.at, flags)
    /\ LET streams == IF call.op = "dual" THEN Slots ELSE {call.slot}
       IN  /\ cache' = [s \in Slots |-> IF s \in streams
                                        THEN call.prompt \o <<Generated>> ELSE cache[s]]
           /\ spoilt' = IF Has("cancelSpoils") THEN spoilt \cup streams ELSE spoilt
           /\ origin' = origin \ streams
    /\ UNCHANGED <<file, fromFile>>

Save(call) ==
    /\ call.op = "save"
    /\ Done(call)
    /\ file' = IF Has("savesPart") THEN SubSeq(cache[call.slot], 1, 2) ELSE cache[call.slot]
    /\ Report(call.at, Len(file'))
    /\ UNCHANGED <<cache, spoilt, origin, fromFile>>

Restore(call) ==
    /\ call.op = "restore"
    /\ Done(call)
    /\ Report(call.at, IF Has("miscountsRestore") THEN Len(file) - 1 ELSE Len(file))
    /\ LET slots == RestoredTo(call.slot)
       IN  /\ cache' = [s \in Slots |-> IF s \in slots THEN file ELSE cache[s]]
           /\ origin' = origin \cup slots
           /\ spoilt' = IF Has("restoreSpoils") THEN spoilt \cup slots ELSE spoilt
    /\ file' = IF Has("rewritesFile") THEN file \o <<Generated>> ELSE file
    /\ UNCHANGED fromFile

HashState(call) ==
    /\ call.op = "hash"
    /\ Done(call)
    /\ Report(call.at, file)
    /\ UNCHANGED <<serverVars, fromFile>>

Step(call) ==
    \/ Start(call) \/ Stop(call) \/ Erase(call) \/ Complete(call)
    \/ Disconnect(call) \/ Save(call) \/ Restore(call) \/ HashState(call)

(* Any call may raise; the with statement stops the server.                 *)
Raise ==
    /\ next <= Len(Calls)
    /\ phase' = "raised"
    /\ cache' = Empty /\ spoilt' = {} /\ origin' = {}
    /\ UNCHANGED <<faults, next, trace, seen, file, fromFile>>

-----------------------------------------------------------------------------
(* oracle.py, over what was seen                                            *)

AllTrue(invariants) == \A name \in DOMAIN invariants : invariants[name]

ViewsConsistent(at) == seen[at].work = seen[at].slotWork

SameResult(a, b) == seen[a].result = seen[b].result

LessWork(a, b) == seen[a].work < seen[b].work /\ seen[a].slotWork < seen[b].slotWork
EqualWork(a, b) == seen[a].work = seen[b].work /\ seen[a].slotWork = seen[b].slotWork

CachePairingInvariants ==
    LET at(name) == <<"cache_pairing", name>>
        names == {CacheCases[i].name : i \in DOMAIN CacheCases}
    IN  [all_results_equal |->
            \A m, n \in names : SameResult(at(m), at(n)),
         cache_on_strictly_reduced |->
            LessWork(at("repeat_cache_on"), at("cold_cache_on")),
         cache_off_equal |->
            EqualWork(at("repeat_cache_off"), at("cold_cache_off")),
         views_consistent |-> \A n \in names : ViewsConsistent(at(n))]

CancellationInvariants ==
    LET at(name) == <<"cancellation_reuse", name>>
    IN  [disconnect_flags |-> seen[at("disconnect")],
         reuse_result_matches |-> SameResult(at("clean_baseline"), at("reused_slot")),
         reuse_work_matches |->
            seen[at("clean_baseline")].work = seen[at("reused_slot")].work,
         views_consistent |->
            ViewsConsistent(at("clean_baseline")) /\ ViewsConsistent(at("reused_slot"))]

InterleavingInvariants(name) ==
    LET baseline(s) == <<"interleaving_isolation", "baselines", s>>
    IN  [flags |-> seen[<<name, "dual_stream_disconnect">>],
         views_consistent |->
            \A s \in Slots : ViewsConsistent(baseline(s)) /\ ViewsConsistent(<<name, s>>),
         reuse_matches_baseline |->
            \A s \in Slots : SameResult(baseline(s), <<name, s>>),
         work_matches_baseline |->
            \A s \in Slots : seen[baseline(s)].work = seen[<<name, s>>].work]

(* Mutation of ExpectedCache: a full prefix is expected to be reused whole. *)
ExpectedCacheWhole(common, target) == common

ExpectedCache(common, target) == IF common = target THEN common - 1 ELSE common

(* Mutation of TokenPrefixInvariants: the source need not be cold.          *)
TokenPrefixInvariantsWarm(case) ==
    LET target == Len(TokenCases[case].target)
        expected == ExpectedCache(TokenCases[case].common, target)
        on == seen[<<case, "cache_on_target">>]
        off == seen[<<case, "cache_off_target">>]
    IN  [cache_off_is_cold |-> off.cached = 0 /\ off.work = target,
         cache_on_matches_lcp |-> on.cached = expected /\ on.work = target - expected]

TokenPrefixInvariants(case) ==
    LET target == Len(TokenCases[case].target)
        expected == ExpectedCache(TokenCases[case].common, target)
        source == seen[<<case, "source">>]
        on == seen[<<case, "cache_on_target">>]
        off == seen[<<case, "cache_off_target">>]
    IN  [accounting_consistent |->
            \A r \in {source, on, off} : r.cached + r.work = r.total,
         counts_match_registration |->
            source.total = Len(TokenSource) /\ on.total = target /\ off.total = target,
         views_consistent |->
            \A name \in {"source", "cache_on_target", "cache_off_target"} :
                ViewsConsistent(<<case, name>>),
         source_is_cold |-> source.cached = 0 /\ source.work = Len(TokenSource),
         cache_off_is_cold |-> off.cached = 0 /\ off.work = target,
         cache_on_matches_lcp |-> on.cached = expected /\ on.work = target - expected,
         work_relation |-> IF expected > 0 THEN on.work < off.work ELSE on.work = off.work]

(* Mutation of SaveRestoreInvariants: after the restart only counts matter. *)
SaveRestoreInvariantsCounts ==
    LET at(name) == <<"save_restore", name>>
        saved == seen[<<"save_restore", "save", "slot_0">>]
    IN  [save_positive |-> saved > 0,
         same_count |-> seen[<<"save_restore", "restore", "slot_1">>] = saved,
         restart_count |-> seen[<<"save_restore", "restore", "slot_0">>] = saved,
         file_unchanged |-> seen[<<"hash_slot_state_before_restart">>]
                            = seen[<<"hash_slot_state_after_restart">>]]

SaveRestoreInvariants ==
    LET at(name) == <<"save_restore", name>>
        saved == seen[<<"save_restore", "save", "slot_0">>]
        before == seen[<<"hash_slot_state_before_restart">>]
        restored == {"same_process.restored", "after_restart.restored"}
    IN  [save_positive |-> saved > 0,
         same_count |-> seen[<<"save_restore", "restore", "slot_1">>] = saved,
         restart_count |-> seen[<<"save_restore", "restore", "slot_0">>] = saved,
         results_match |-> \A n \in restored : SameResult(at("source"), at(n)),
         strictly_reduced |-> \A n \in restored : LessWork(at(n), at("source")),
         views_consistent |->
            \A n \in restored \cup {"source"} : ViewsConsistent(at(n)),
         file_nonempty |-> before # <<>>,
         file_unchanged |-> before = seen[<<"hash_slot_state_after_restart">>]]

AllInvariants ==
    /\ AllTrue(CachePairingInvariants)
    /\ AllTrue(CancellationInvariants)
    /\ \A name \in {"slot_0_cancelled_first", "slot_1_cancelled_first"} :
          AllTrue(InterleavingInvariants(name))
    /\ \A case \in DOMAIN TokenCases : AllTrue(TokenPrefixInvariants(case))
    /\ AllTrue(SaveRestoreInvariants)

(* The end of run_scenarios: the order check, then the evidence.            *)
Judge ==
    /\ next = Len(Calls) + 1
    /\ phase' = CASE trace # ProcessOrder -> "raised"
                  [] AllInvariants -> "accepted"
                  [] OTHER -> "rejected"
    /\ UNCHANGED <<faults, next, trace, seen, serverVars, fromFile>>

Over == phase # "running" /\ UNCHANGED vars

Next ==
    \/ phase = "running" /\ next <= Len(Calls) /\ Step(Calls[next])
    \/ phase = "running" /\ Raise
    \/ phase = "running" /\ Judge
    \/ Over

Spec == Init /\ [][Next]_vars

-----------------------------------------------------------------------------
(* Properties                                                               *)

(* The calls follow the registered process order from the first to the last,*)
(* so the check at runner.py 414 never raises: the lanes spliced into it by *)
(* index stay where the runner calls them.                                  *)
FollowsOrder == trace = SubSeq(ProcessOrder, 1, Len(trace)) /\ next = Len(trace) + 1

(* What acceptance means: the server had none of the faults in Noticed.  No *)
(* set of these hides one of its own, and none is hidden by what an earlier *)
(* lane left in the slots.  Only slots that share their caches, a fault no  *)
(* invariant of the oracle is about, hide that a restore went to the wrong  *)
(* slot, and with it what that restore spoilt there.                        *)
Hidden ==
    IF {"sharesCache", "restoresOther"} \subseteq faults
    THEN {"restoresOther", "restoreSpoils"} ELSE {}

AcceptedMeansSound ==
    phase = "accepted" => faults \ Tolerated \subseteq Hidden

(* No false alarm: a server without faults is only rejected because a       *)
(* streaming call did not see all it waits for.                             *)
SoundIsAccepted ==
    phase = "rejected" /\ faults = {} =>
        \E at \in {<<"cancellation_reuse", "disconnect">>,
                   <<"slot_0_cancelled_first", "dual_stream_disconnect">>,
                   <<"slot_1_cancelled_first", "dual_stream_disconnect">>} : ~seen[at]

(* docs/CLAIM_BOUNDARIES.md: "saved slot state restored into another slot", *)
(* and after a restart: in accepted evidence the completion after the       *)
(* restart did reuse tokens that came from the state file, whatever faults  *)
(* the server has; and so did the one in the other slot, unless slots share *)
(* their caches, when the slot that was saved may have served it instead.   *)
RestoreIsReal ==
    phase = "accepted" =>
        /\ <<"save_restore", "after_restart.restored">> \in fromFile
        /\ "sharesCache" \notin faults =>
               <<"save_restore", "same_process.restored">> \in fromFile
=============================================================================
