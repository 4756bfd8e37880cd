-------------------------- MODULE EvidenceContract --------------------------
(***************************************************************************)
(* The contract between the code that measures (adapter, runner, oracle)   *)
(* and the code that judges a document offline (verify.validate_evidence). *)
(* Each side spells out the fields of an evidence document by itself, and  *)
(* the verifier knows two older schemas beside the current one.            *)
(*                                                                         *)
(* A document is a function from the paths of its leaves, sequences of     *)
(* keys, to JSON values; an object is the set of the paths through it.  A  *)
(* run measures a server that answers well but for one answer, the result  *)
(* is checked and written; what is written, or a document that was put     *)
(* together from parts of several schemas, may be changed in one place and *)
(* is then verified.                                                       *)
(***************************************************************************)
EXTENDS Naturals, Integers, Sequences, FiniteSets, SequencesExt

CONSTANTS
    MaxCount,     \* the greatest number a server or an editor puts in a leaf
    MaxChanges    \* bound: odd answers of a run and edits of its document

-----------------------------------------------------------------------------
(* JSON values and objects                                                  *)

Value(type, n) == [type |-> type, n |-> n]

Number(n) == Value("int", n)
Bool(b) == Value("bool", IF b THEN 1 ELSE 0)
Sha(n) == Value("sha", n)
Text(n) == Value("text", n)
True == Bool(TRUE)

Numeric == {"bool", "int", "float"}

(* == of Python, for which True, 1 and 1.0 are one value.                   *)
Equal(a, b) == a = b \/ ({a.type, b.type} \subseteq Numeric /\ a.n = b.n)

Leaf(x) == [p \in {<<>>} |-> x]

(* The fields of both; f's where both have one.                             *)
Merge(f, g) == [k \in DOMAIN f \cup DOMAIN g |-> IF k \in DOMAIN f THEN f[k] ELSE g[k]]

Obj(fields) ==
    LET paths == UNION {{<<k>> \o p : p \in DOMAIN fields[k]} : k \in DOMAIN fields}
    IN  [p \in paths |-> fields[Head(p)][Tail(p)]]

All(keys, x) == Obj([k \in keys |-> x])

Inner(d, key) ==
    LET paths == {Tail(p) : p \in {q \in DOMAIN d : Head(q) = key}}
    IN  [p \in paths |-> d[<<key>> \o p]]

(* The keys of a document; a part without leaves is not there.              *)
Keys(d) == {k \in DOMAIN d : DOMAIN d[k] # {}}

SameObject(d, e) == DOMAIN d = DOMAIN e /\ \A p \in DOMAIN d : Equal(d[p], e[p])

(* _require_bool, require_non_negative_int, require_positive_int,           *)
(* require_sha256                                                           *)
Fits(v, type) ==
    \/ type = "bool" /\ v.type = "bool"
    \/ type = "nat" /\ v.type = "int" /\ v.n >= 0
    \/ type = "pos" /\ v.type = "int" /\ v.n > 0
    \/ type = "sha" /\ v.type = "sha"

HasShape(d, shape) == DOMAIN d = DOMAIN shape /\ \A p \in DOMAIN d : Fits(d[p], shape[p])

-----------------------------------------------------------------------------
(* What the verifier expects of the measured parts                          *)

Completion == Obj([content_bytes |-> Leaf("nat"), content_sha256 |-> Leaf("sha"),
    predicted_tokens |-> Leaf("pos"), prompt_work |-> Leaf("nat"),
    response_cached_tokens |-> Leaf("nat"), token_count |-> Leaf("pos"),
    tokens_sha256 |-> Leaf("sha")])

IdleSlot == Obj([idle |-> Leaf("bool"), prompt_work |-> Leaf("nat")])

Case == Obj([completion |-> Completion, idle_slot |-> IdleSlot])

CachePairing == All({"cold_cache_off", "cold_cache_on", "repeat_cache_off", "repeat_cache_on"}, Case)

Cancellation == Obj([clean_baseline |-> Case, reused_slot |-> Case,
    disconnect |-> All({"active_processing_observed", "first_event_nonterminal",
                        "first_event_observed", "idle_after_disconnect"}, Leaf("bool"))])

Flags == {"both_idle_after_second_disconnect", "both_first_events_before_disconnect",
    "both_processing_observed", "cancelled_slot_idle_after_first_disconnect",
    "slot_0_first_event_nonterminal", "slot_0_first_event_observed",
    "slot_1_first_event_nonterminal", "slot_1_first_event_observed",
    "survivor_active_after_first_disconnect"}

BothSlots == {"slot_0", "slot_1"}

Direction == Obj(Merge([reuses |-> All(BothSlots, Case)], [f \in Flags |-> Leaf("bool")]))

Interleaving == Obj([baselines |-> All(BothSlots, Case),
    slot_0_cancelled_first |-> Direction, slot_1_cancelled_first |-> Direction])

PrefillCase == Obj([idle_slot |-> IdleSlot,
    prefill |-> All({"cache_tokens", "predicted_tokens", "prompt_tokens", "prompt_work"}, Leaf("nat"))])

TokenPrefix == All({"exact", "first_token_divergence", "shared_prefix"},
    All({"cache_off_target", "cache_on_target", "source"}, PrefillCase))

Restored == Obj([restored |-> Case, restored_tokens |-> Leaf("pos")])

SlotState == Obj([bytes |-> Leaf("pos"), sha256 |-> Leaf("sha")])

SaveRestore == Obj([after_restart |-> Restored, same_process |-> Restored,
    process_restart_confirmed |-> Leaf("bool"), saved_tokens |-> Leaf("pos"), source |-> Case,
    slot_state_after_restart |-> SlotState, slot_state_before_restart |-> SlotState])

Shape == [cache_pairing |-> CachePairing, cancellation_reuse |-> Cancellation,
    interleaving_isolation |-> Interleaving, token_prefix_divergence |-> TokenPrefix,
    save_restore |-> SaveRestore]

-----------------------------------------------------------------------------
(* What the server answers and what the adapter and the runner make of it   *)

CacheCalls == {"cold_cache_on", "repeat_cache_on", "cold_cache_off", "repeat_cache_off"}

DirectionNames == {"slot_0_cancelled_first", "slot_1_cancelled_first"}

TokenNames == {"exact", "shared_prefix", "first_token_divergence"}

CompletionCalls ==
    ({"cache_pairing"} \X CacheCalls)
        \cup ({"cancellation_reuse"} \X {"clean_baseline", "reused_slot"})
        \cup ({"baselines"} \cup DirectionNames) \X BothSlots
        \cup ({"save_restore"} \X {"source", "same_process", "after_restart"})

PrefillCalls == TokenNames \X {"source", "cache_on_target", "cache_off_target"}

StreamCalls == {<<"stream">>} \cup {<<"streams", d>> : d \in DirectionNames}

CountCalls == {<<"save">>, <<"restore", "same_process">>, <<"restore", "after_restart">>}

FileReads == {<<"state", "before">>, <<"state", "after">>}

Calls == CompletionCalls \cup PrefillCalls \cup StreamCalls \cup CountCalls \cup FileReads

CancelFlags == {"active_processing_observed", "first_event_nonterminal",
                "first_event_observed", "idle_after_disconnect"}

(* The registered numbers of tokens of a direct-token case.                 *)
Registered == [
    exact |-> [source |-> 4, target |-> 4, common |-> 4],
    shared_prefix |-> [source |-> 4, target |-> 5, common |-> 3],
    first_token_divergence |-> [source |-> 4, target |-> 3, common |-> 0]]

(* External: a server that does what the scenarios expect of it.            *)
GoodAnswer(c) ==
    IF c \in CompletionCalls THEN
        LET work == IF c[2] \in {"repeat_cache_on", "same_process", "after_restart"} THEN 1 ELSE 2
        IN  [content |-> 2, tokens |-> 2, predicted |-> 2, prompt_n |-> work, cached |-> 3,
             busy |-> 0, processed |-> work]
    ELSE IF c \in PrefillCalls THEN
        LET r == Registered[c[1]]
            count == IF c[2] = "source" THEN r.source ELSE r.target
            cached == IF c[2] # "cache_on_target" THEN 0
                      ELSE IF r.common = r.target THEN r.common - 1 ELSE r.common
        IN  [cache_n |-> cached, predicted |-> 1, evaluated |-> count, prompt_n |-> count - cached,
             busy |-> 0, processed |-> count - cached]
    ELSE IF c = <<"stream">> THEN [f \in CancelFlags |-> 1]
    ELSE IF c \in StreamCalls THEN [f \in Flags |-> 1]
    ELSE IF c \in CountCalls THEN [n |-> 3]
    ELSE [bytes |-> 3, sha |-> 3]

Kinds == {CompletionCalls, PrefillCalls, StreamCalls, CountCalls, FileReads}

(* One answer, or all answers of a kind, have another number in a field.    *)
Oddities ==
    { o \in [calls : {{c} : c \in Calls} \cup Kinds, field : UNION {DOMAIN GoodAnswer(c) : c \in Calls},
             n : {-1, 0, 1, 3, MaxCount}] :
          \A c \in o.calls : o.field \in DOMAIN GoodAnswer(c) }

Answers(odd) ==
    [c \in Calls |->
        IF \E o \in odd : c \in o.calls
        THEN LET o == CHOOSE x \in odd : c \in x.calls IN [GoodAnswer(c) EXCEPT ![o.field] = o.n]
        ELSE GoodAnswer(c)]

(* Mutation of Refuses: a completion of no tokens is taken.                 *)
RefusesNegative(a) == \E f \in DOMAIN a : a[f] < 0

(* _slot_view_from_values, completion and direct_token_prefill raise.       *)
Refuses(a) ==
    \/ \E f \in DOMAIN a : a[f] < 0
    \/ "tokens" \in DOMAIN a /\ a.predicted = 0

SlotView(a) == Obj([idle |-> Leaf(Bool(a.busy = 0)), prompt_work |-> Leaf(Number(a.processed))])

CompletionCase(a) ==
    Obj([completion |-> Obj([
            content_bytes |-> Leaf(Number(a.content)), content_sha256 |-> Leaf(Sha(a.content)),
            predicted_tokens |-> Leaf(Number(a.predicted)), prompt_work |-> Leaf(Number(a.prompt_n)),
            response_cached_tokens |-> Leaf(Number(a.cached)), token_count |-> Leaf(Number(a.predicted)),
            tokens_sha256 |-> Leaf(Sha(a.tokens))]),
         idle_slot |-> SlotView(a)])

DirectTokenCase(a) ==
    Obj([idle_slot |-> SlotView(a), prefill |-> Obj([
            cache_tokens |-> Leaf(Number(a.cache_n)), predicted_tokens |-> Leaf(Number(a.predicted)),
            prompt_tokens |-> Leaf(Number(a.evaluated)), prompt_work |-> Leaf(Number(a.prompt_n))])])

Report(a) == [f \in DOMAIN a |-> Leaf(Bool(a[f] > 0))]

DirectionReport(ans, d) ==
    Obj(Merge([reuses |-> Obj([s \in BothSlots |-> CompletionCase(ans[<<d, s>>])])],
              Report(ans[<<"streams", d>>])))

RestoreReport(ans, name) ==
    Obj([restored |-> CompletionCase(ans[<<"save_restore", name>>]),
         restored_tokens |-> Leaf(Number(ans[<<"restore", name>>].n))])

FileState(a) == Obj([bytes |-> Leaf(Number(a.bytes)), sha256 |-> Leaf(Sha(a.sha))])

(* The lanes as run_scenarios assembles them.                               *)
Measured(ans) == [
    cache_pairing |->
        Obj([c \in CacheCalls |-> CompletionCase(ans[<<"cache_pairing", c>>])]),
    cancellation_reuse |->
        Obj([clean_baseline |-> CompletionCase(ans[<<"cancellation_reuse", "clean_baseline">>]),
             disconnect |-> Obj(Report(ans[<<"stream">>])),
             reused_slot |-> CompletionCase(ans[<<"cancellation_reuse", "reused_slot">>])]),
    interleaving_isolation |->
        Obj(Merge([baselines |-> Obj([s \in BothSlots |-> CompletionCase(ans[<<"baselines", s>>])])],
                  [d \in DirectionNames |-> DirectionReport(ans, d)])),
    token_prefix_divergence |->
        Obj([t \in TokenNames |->
            Obj([x \in {"source", "cache_on_target", "cache_off_target"} |->
                DirectTokenCase(ans[<<t, x>>])])]),
    save_restore |->
        Obj([saved_tokens |-> Leaf(Number(ans[<<"save">>].n)),
             source |-> CompletionCase(ans[<<"save_restore", "source">>]),
             same_process |-> RestoreReport(ans, "same_process"),
             after_restart |-> RestoreReport(ans, "after_restart"),
             slot_state_before_restart |-> FileState(ans[<<"state", "before">>]),
             slot_state_after_restart |-> FileState(ans[<<"state", "after">>]),
             process_restart_confirmed |-> Leaf(True)])]

-----------------------------------------------------------------------------
(* oracle.py                                                                *)

Judged(flags) == [k \in DOMAIN flags |-> Leaf(Bool(flags[k]))]

(* Mutation of SameResult: the counts are left out.                         *)
SameResultHashes(d, p, q) ==
    \A f \in {"content_sha256", "tokens_sha256"} :
        d[p \o <<"completion", f>>] = d[q \o <<"completion", f>>]

SameResult(d, p, q) ==
    \A f \in {"content_sha256", "tokens_sha256", "content_bytes", "predicted_tokens", "token_count"} :
        d[p \o <<"completion", f>>] = d[q \o <<"completion", f>>]

ResponseWork(d, p) == d[p \o <<"completion", "prompt_work">>].n

SlotWork(d, p) == d[p \o <<"idle_slot", "prompt_work">>].n

ViewsAgree(d, p) == ResponseWork(d, p) = SlotWork(d, p)

Idle(d, p) == d[p \o <<"idle_slot", "idle">>] = True

CacheInvariants(d) ==
    LET cases == {<<c>> : c \in CacheCalls} IN
    Judged([
        cache_all_results_equal |-> \A c \in cases : SameResult(d, <<"cold_cache_on">>, c),
        cache_on_response_prompt_work_strictly_reduced |->
            ResponseWork(d, <<"repeat_cache_on">>) < ResponseWork(d, <<"cold_cache_on">>),
        cache_on_slot_prompt_work_strictly_reduced |->
            SlotWork(d, <<"repeat_cache_on">>) < SlotWork(d, <<"cold_cache_on">>),
        cache_off_response_prompt_work_equal |->
            ResponseWork(d, <<"repeat_cache_off">>) = ResponseWork(d, <<"cold_cache_off">>),
        cache_off_slot_prompt_work_equal |->
            SlotWork(d, <<"repeat_cache_off">>) = SlotWork(d, <<"cold_cache_off">>),
        cache_prompt_work_views_consistent |-> \A c \in cases : ViewsAgree(d, c),
        cache_slots_idle |-> \A c \in cases : Idle(d, c)])

CancellationInvariants(d) ==
    Judged([
        cancel_active_processing_observed |-> d[<<"disconnect", "active_processing_observed">>] = True,
        cancel_first_event_observed |-> d[<<"disconnect", "first_event_observed">>] = True,
        cancel_first_event_nonterminal |-> d[<<"disconnect", "first_event_nonterminal">>] = True,
        cancel_idle_after_disconnect |-> d[<<"disconnect", "idle_after_disconnect">>] = True,
        cancel_reuse_result_matches_clean_slot |-> SameResult(d, <<"clean_baseline">>, <<"reused_slot">>),
        cancel_reuse_prompt_work_matches_clean_slot |->
            ResponseWork(d, <<"clean_baseline">>) = ResponseWork(d, <<"reused_slot">>),
        cancel_prompt_work_views_consistent |->
            ViewsAgree(d, <<"clean_baseline">>) /\ ViewsAgree(d, <<"reused_slot">>),
        cancel_reused_slot_idle |-> Idle(d, <<"reused_slot">>)])

SaveRestoreInvariants(d) ==
    LET same == <<"same_process", "restored">>
        restart == <<"after_restart", "restored">>
        cases == {<<"source">>, same, restart}
    IN  Judged([
        save_reports_positive_tokens |-> d[<<"saved_tokens">>].n > 0,
        same_process_restore_count_matches_save |->
            d[<<"same_process", "restored_tokens">>] = d[<<"saved_tokens">>],
        same_process_restore_result_matches_source |-> SameResult(d, <<"source">>, same),
        same_process_response_prompt_work_strictly_reduced |->
            ResponseWork(d, same) < ResponseWork(d, <<"source">>),
        same_process_slot_prompt_work_strictly_reduced |-> SlotWork(d, same) < SlotWork(d, <<"source">>),
        restart_restore_count_matches_save |->
            d[<<"after_restart", "restored_tokens">>] = d[<<"saved_tokens">>],
        restart_restore_result_matches_source |-> SameResult(d, <<"source">>, restart),
        restart_response_prompt_work_strictly_reduced |->
            ResponseWork(d, restart) < ResponseWork(d, <<"source">>),
        restart_slot_prompt_work_strictly_reduced |-> SlotWork(d, restart) < SlotWork(d, <<"source">>),
        restore_prompt_work_views_consistent |-> \A c \in cases : ViewsAgree(d, c),
        restore_slots_idle |-> \A c \in cases : Idle(d, c),
        server_process_restart_confirmed |-> d[<<"process_restart_confirmed">>] = True,
        slot_state_file_nonempty |-> d[<<"slot_state_before_restart", "bytes">>].n > 0,
        slot_state_file_unchanged_across_restart |->
            Inner(d, "slot_state_before_restart") = Inner(d, "slot_state_after_restart")])

(* The flags that are observations only: both_processing_observed and       *)
(* survivor_active_after_first_disconnect.                                  *)
Gating == Flags \ {"both_processing_observed", "survivor_active_after_first_disconnect"}

ReuseInvariants(d, base, reuse) ==
    Judged([
        reuse_matches_baseline |-> SameResult(d, base, reuse),
        prompt_work_matches_baseline |-> ResponseWork(d, base) = ResponseWork(d, reuse)])

DirectionInvariants(d, name) ==
    LET reuse(s) == <<name, "reuses", s>> IN
    Merge(Judged([f \in Gating |-> d[<<name, f>>] = True]), Merge(
        Judged([
            result_views_consistent |-> \A s \in BothSlots : ViewsAgree(d, reuse(s)),
            result_slots_idle |-> \A s \in BothSlots : Idle(d, reuse(s))]),
        [s \in BothSlots |-> Obj(ReuseInvariants(d, <<"baselines", s>>, reuse(s)))]))

InterleavingInvariants(d) ==
    Merge(Judged([
        interleave_baselines_idle |-> \A s \in BothSlots : Idle(d, <<"baselines", s>>),
        interleave_baseline_prompt_work_views_consistent |->
            \A s \in BothSlots : ViewsAgree(d, <<"baselines", s>>)]),
        [n \in DirectionNames |-> Obj(DirectionInvariants(d, n))])

Prefill(d, p, f) == d[p \o <<"prefill", f>>].n

TokenCaseInvariants(d, t, counts) ==
    LET Source(f) == Prefill(d, <<t, "source">>, f)
        On(f) == Prefill(d, <<t, "cache_on_target">>, f)
        Off(f) == Prefill(d, <<t, "cache_off_target">>, f)
        expected == IF counts.common = counts.target THEN counts.common - 1 ELSE counts.common
    IN  Judged([
        source_is_cold |-> Source("cache_tokens") = 0 /\ Source("prompt_work") = counts.source,
        cache_off_is_cold |-> Off("cache_tokens") = 0 /\ Off("prompt_work") = counts.target,
        cache_on_cache_matches_lcp_rule |-> On("cache_tokens") = expected,
        cache_on_work_matches_lcp_rule |-> On("prompt_work") = counts.target - expected,
        work_relation_matches_divergence |->
            IF expected > 0 THEN On("prompt_work") < Off("prompt_work")
            ELSE On("prompt_work") = Off("prompt_work")])

TokenPrefixInvariants(d, reg) ==
    LET cases == (DOMAIN reg) \X {"source", "cache_on_target", "cache_off_target"}
        Count(c) == reg[c[1]][IF c[2] = "source" THEN "source" ELSE "target"]
    IN  Merge(Judged([
            prefix_predicted_tokens_are_one |-> \A c \in cases : Prefill(d, c, "predicted_tokens") = 1,
            prefix_prompt_accounting_consistent |-> \A c \in cases :
                Prefill(d, c, "cache_tokens") + Prefill(d, c, "prompt_work") = Prefill(d, c, "prompt_tokens"),
            prefix_prompt_counts_match_registration |->
                \A c \in cases : Prefill(d, c, "prompt_tokens") = Count(c),
            prefix_prompt_work_views_consistent |->
                \A c \in cases : Prefill(d, c, "prompt_work") = SlotWork(d, c),
            prefix_slots_idle |-> \A c \in cases : Idle(d, c)]),
        [t \in DOMAIN reg |-> Obj(TokenCaseInvariants(d, t, reg[t]))])

(* all_invariants_v1, all_invariants_v2, all_invariants                     *)
Invariants(lane, v) ==
    LET oldest == Merge(CacheInvariants(lane.cache_pairing),
                        Merge(CancellationInvariants(lane.cancellation_reuse),
                              SaveRestoreInvariants(lane.save_restore)))
        second == Merge(oldest, InterleavingInvariants(lane.interleaving_isolation))
        third == Merge(second, TokenPrefixInvariants(lane.token_prefix_divergence, Registered))
    IN  Obj(CASE v = 1 -> oldest [] v = 2 -> second [] v = 3 -> third)

Passed(invariants) == \A p \in DOMAIN invariants : invariants[p] = True

-----------------------------------------------------------------------------
(* The fixed parts of a document, by the version of its schema              *)

Versions == 1 .. 3

LanesOf(v) ==
    {"cache_pairing", "cancellation_reuse", "save_restore"}
        \cup (IF v >= 2 THEN {"interleaving_isolation"} ELSE {})
        \cup (IF v >= 3 THEN {"token_prefix_divergence"} ELSE {})

Producer(v) == Obj([name |-> Leaf(Text(0)), version |-> Leaf(Text(v))])

(* registered_scenarios_v1, registered_scenarios_v2, registered_scenarios:  *)
(* of each lane, a control that is a number and one that is a boolean.      *)
Registration(v) ==
    LET controls == [cache_prompt |-> Leaf(True), n_predict |-> Leaf(Number(2))]
        counts(t) == [k \in {"source", "target", "common"} |-> Leaf(Number(Registered[t][k]))]
    IN  Obj(Merge([process_order |-> Leaf(Text(v)), schema |-> Leaf(Text(v))],
              [l \in LanesOf(v) |->
                  IF l = "token_prefix_divergence" THEN Obj([t \in TokenNames |-> Obj(counts(t))])
                  ELSE Obj(controls)]))

Fixture == Obj([checkpoint_sha256 |-> Leaf(Sha(11)), model_sha256 |-> Leaf(Sha(12)),
    source_revision |-> Leaf(Text(13)), tokenizer_sha256 |-> Leaf(Sha(14))])

Platforms == {Text(20), Text(21)}

(* RUNTIME_CONTEXT_TOTAL_V1 and RUNTIME_CONTEXT_TOTAL                       *)
ContextTotal(v) == IF v = 1 THEN 1 ELSE 4

Runtime(v, platform) ==
    Obj([adapter |-> Leaf(Text(22)), asset_platform |-> Leaf(platform),
         asset_sha256 |-> Leaf(Sha(platform.n)), configured_context_total |-> Leaf(Number(ContextTotal(v))),
         cpu_only |-> Leaf(True), offline |-> Leaf(True), release |-> Leaf(Text(23)),
         server_sha256 |-> Leaf(Sha(10 + platform.n)), slot_count |-> Leaf(Number(2)),
         source_commit |-> Leaf(Text(24)), version_line |-> Leaf(Text(25))])

Transport == Obj([api_key_enabled |-> Leaf(True), endpoint |-> Leaf(Text(26)), proxy_bypass |-> Leaf(True)])

BoundaryKeys == {"absolute_paths_included", "generated_text_included", "hostnames_included",
    "performance_claim_included", "ports_included", "raw_server_logs_included", "raw_token_lists_included"}

Revisions == {Leaf(Text(30)), Leaf(Text(31))}

(* build_evidence, for the version of each part                             *)
Document(lane, part) ==
    Merge([
         boundary |-> All(BoundaryKeys, Leaf(Bool(FALSE))), fixture |-> Fixture,
         producer |-> Producer(part.producer), registration |-> Registration(part.registration),
         runtime |-> Runtime(part.runtime, Text(20)), schema |-> Leaf(Text(part.schema)),
         source_revision |-> Leaf(Text(30)), transport |-> Transport,
         invariants |-> Invariants(lane, part.invariants)],
        [l \in LanesOf(part.lanes) |-> lane[l]])

Parts == {"producer", "registration", "runtime", "schema", "invariants", "lanes"}

-----------------------------------------------------------------------------
(* verify.validate_evidence                                                 *)

TopKeys(v) == {"boundary", "fixture", "invariants", "producer", "registration", "runtime", "schema",
    "source_revision", "transport"} \cup LanesOf(v)

ExpectedRuntime(d, v) == Runtime(v, d.runtime[<<"asset_platform">>])

(* Mutation of ValidRuntime: the pins and the configuration are not         *)
(* compared.                                                                *)
ValidRuntimeKeys(d, v) ==
    /\ DOMAIN d.runtime = DOMAIN Runtime(v, Text(20))
    /\ d.runtime[<<"asset_platform">>] \in Platforms

ValidRuntime(d, v) ==
    /\ DOMAIN d.runtime = DOMAIN Runtime(v, Text(20))
    /\ d.runtime[<<"asset_platform">>] \in Platforms
    /\ SameObject(d.runtime, ExpectedRuntime(d, v))

ValidBoundary(b) == DOMAIN b = {<<k>> : k \in BoundaryKeys} /\ \A p \in DOMAIN b : b[p] = Bool(FALSE)

(* _validate_completion compares two of its fields as well.                 *)
CountsAgree(lane) ==
    \A p \in DOMAIN lane :
        Last(p) = "token_count" => lane[p] = lane[Append(Front(p), "predicted_tokens")]

ValidLane(lane, shape) == HasShape(lane, shape) /\ CountsAgree(lane)

ValidInvariants(d, v) ==
    LET stored == d.invariants
        computed == Invariants(d, v)
    IN  /\ DOMAIN stored = DOMAIN computed
        /\ \A p \in DOMAIN stored : stored[p].type = "bool" /\ stored[p] = computed[p]
        /\ Passed(stored)

Valid(d) ==
    \E v \in Versions :
        /\ d.schema = Leaf(Text(v))
        /\ Keys(d) = TopKeys(v)
        /\ SameObject(d.producer, Producer(v))
        /\ d.source_revision \in Revisions
        /\ SameObject(d.registration, Registration(v))
        /\ SameObject(d.fixture, Fixture)
        /\ ValidRuntime(d, v)
        /\ SameObject(d.transport, Transport)
        /\ ValidBoundary(d.boundary)
        /\ \A l \in LanesOf(v) : ValidLane(d[l], Shape[l])
        /\ ValidInvariants(d, v)

-----------------------------------------------------------------------------
VARIABLES
    pc,
    odd,    \* what the server answers otherwise than a good one
    doc,    \* the document
    part,   \* the version that each of its parts is from
    edit    \* the leaf that was changed, its old and its new value

vars == <<pc, odd, doc, part, edit>>

None == [path |-> <<>>, old |-> Value("none", 0), new |-> Value("none", 0)]

Current == [k \in Parts |-> 3]

EditValues ==
    {Bool(b) : b \in BOOLEAN} \cup {Value("float", n) : n \in {1, 2}}
        \cup {Number(n) : n \in {-1, 0, 1, 3}} \cup {Sha(n) : n \in 2 .. 3} \cup {Text(n) : n \in {0, 2, 21}}

TypeOK ==
    /\ pc \in {"measured", "raised", "returned", "published", "unwritable", "received", "accepted", "refused"}
    /\ odd \subseteq Oddities
    /\ \A k \in DOMAIN doc : \A p \in DOMAIN doc[k] :
          doc[k][p] \in [type : Numeric \cup {"sha", "text"}, n : Int]
    /\ part \in [Parts -> Versions]
    /\ edit = None \/ edit.new = None.new \/ doc[Head(edit.path)][Tail(edit.path)] = edit.new

Init ==
    \/ /\ pc = "measured"
       /\ odd \in {{}} \cup {{o} : o \in IF MaxChanges > 0 THEN Oddities ELSE {}}
       /\ doc = <<>> /\ part = Current /\ edit = None
    \/ /\ pc = "received"
       /\ part \in [Parts -> Versions]
       /\ odd = {} /\ edit = None
       /\ doc = Document(Measured(Answers({})), part)

Move(from, to) == pc = from /\ pc' = to

(* The adapter refuses an answer: the run ends without a document.          *)
Measure ==
    /\ LET ans == Answers(odd) IN \E c \in Calls : Refuses(ans[c])
    /\ Move("measured", "raised")
    /\ UNCHANGED <<odd, doc, part, edit>>

(* build_evidence and the last check of run_scenarios.                      *)
Build ==
    /\ LET ans == Answers(odd) IN
          /\ \A c \in Calls : ~Refuses(ans[c])
          /\ doc' = Document(Measured(ans), Current)
    /\ Move("measured", IF Passed(doc'.invariants) THEN "returned" ELSE "raised")
    /\ UNCHANGED <<odd, part, edit>>

(* write_bundle validates what it is given.                                 *)
Write ==
    /\ Move("returned", IF Valid(doc) THEN "published" ELSE "unwritable")
    /\ UNCHANGED <<odd, doc, part, edit>>

(* A leaf has another value, is gone, or has an unknown one beside it.      *)
Change ==
    /\ Cardinality(odd) < MaxChanges
    /\ Move("published", "received")
    /\ \E k \in DOMAIN doc : \E p \in DOMAIN doc[k] :
          LET leaf == doc[k][p] IN
          \/ \E v \in EditValues \ {leaf} :
                /\ doc' = [doc EXCEPT ![k][p] = v]
                /\ edit' = [path |-> <<k>> \o p, old |-> leaf, new |-> v]
          \/ /\ doc' = [doc EXCEPT ![k] = [q \in DOMAIN doc[k] \ {p} |-> doc[k][q]]]
             /\ edit' = [path |-> <<k>> \o p, old |-> leaf, new |-> None.new]
          \/ /\ doc' = IF p = <<>> THEN Merge([unknown |-> Leaf(leaf)], doc)
                      ELSE [doc EXCEPT ![k] = Merge([q \in {Append(Front(p), "unknown")} |-> leaf], doc[k])]
             /\ edit' = [path |-> <<k>> \o p, old |-> leaf, new |-> None.new]
    /\ UNCHANGED <<odd, part>>

(* verify reads what was published, or what came from elsewhere.            *)
Verify ==
    /\ pc \in {"published", "received"}
    /\ pc' = IF Valid(doc) THEN "accepted" ELSE "refused"
    /\ UNCHANGED <<odd, doc, part, edit>>

AllOver == pc \in {"raised", "unwritable", "accepted", "refused"} /\ UNCHANGED vars

Next == Measure \/ Build \/ Write \/ Change \/ Verify \/ AllOver

Spec == Init /\ [][Next]_vars

-----------------------------------------------------------------------------
(* What a run returns can be written: whatever a server answers, a document *)
(* that the runner's own check lets pass has the fields and the values that *)
(* the validator asks for, although each spells them out by itself and the  *)
(* adapter admits zero where the validator asks for a positive number.      *)
ReturnedCanBeWritten == pc # "unwritable"

(* A document is of one version throughout: parts of different versions are *)
(* refused whatever the document calls itself.  Only the context total is   *)
(* the same in two of them.                                                 *)
VersionsDoNotMix ==
    (pc = "accepted" /\ edit = None) =>
        \E v \in Versions : \A k \in Parts :
            part[k] = v \/ (k = "runtime" /\ ContextTotal(part[k]) = ContextTotal(v))

(* The leaves that nothing is compared with: the cached tokens of responses,*)
(* the revision, the flags that are only observed, and whether the slot of  *)
(* the clean baseline of the cancellation lane was idle.                    *)
Unrelated(p) ==
    \/ Last(p) \in {"response_cached_tokens", "source_revision"}
    \/ Head(p) = "interleaving_isolation" /\ Last(p) \in Flags \ Gating
    \/ p = <<"cancellation_reuse", "clean_baseline", "idle_slot", "idle">>

(* A change of any one number, flag, hash, key or name of a published       *)
(* document is noticed, but for the unrelated leaves and for values that    *)
(* Python takes for equal: each measured number is tied to another one.     *)
ChangesAreNoticed ==
    (pc = "accepted" /\ edit # None) => Unrelated(edit.path) \/ Equal(edit.old, edit.new)

=============================================================================
