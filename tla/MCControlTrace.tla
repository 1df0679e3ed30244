--------------------------- MODULE MCControlTrace ---------------------------
(* Small traces for ControlTrace: SSD records of version 1, with and without *)
(* a sample id, and PEARL records of version 2, cold, warm and misshapen.    *)
(* Some records state draft_precompute_kv_cache_tokens: as the SSD traces do *)
(* and, in version 2, with another number than draft_kv_cache_tokens.        *)
EXTENDS ControlTrace

Ssd(id, iteration) ==
  [sample_index |-> id, iteration |-> iteration, trace_version |-> 1, algorithm |-> "ssd",
   prefix_len_before |-> 3 + iteration, prefix_len_after |-> 4 + iteration,
   target_input_tokens |-> Absent, target_kv_cache_tokens |-> 3 + iteration,
   target_query_tokens |-> 2, draft_input_tokens |-> Absent,
   draft_kv_cache_tokens |-> Absent, draft_precompute_kv_cache_tokens |-> Absent,
   draft_uncached |-> Absent, draft_forward_steps |-> 1, draft_proposal_count |-> 3,
   draft_tree_steps |-> 1, draft_tree_query_tokens |-> Absent, fan_out |-> <<1, 2>>,
   target_after_decision |-> Absent, draft_after_decision |-> Absent, prefill_excluded |-> FALSE]

\* PEARL v2: both actors hold `cache' tokens of a prefix, the draft proposes two
Pearl(id, iteration, prefix, cache) ==
  [sample_index |-> id, iteration |-> iteration, trace_version |-> 2, algorithm |-> "pearl",
   prefix_len_before |-> prefix, prefix_len_after |-> prefix + 1,
   target_input_tokens |-> prefix, target_kv_cache_tokens |-> cache,
   target_query_tokens |-> prefix - cache, draft_input_tokens |-> prefix,
   draft_kv_cache_tokens |-> cache, draft_precompute_kv_cache_tokens |-> Absent,
   draft_uncached |-> prefix - cache, draft_forward_steps |-> 2,
   draft_proposal_count |-> (prefix - cache) + 1,
   draft_tree_steps |-> 1, draft_tree_query_tokens |-> Absent, fan_out |-> <<>>,
   target_after_decision |-> prefix, draft_after_decision |-> prefix,
   prefill_excluded |-> FALSE]

SsdLines ==
  {Ssd(id, iteration) : id \in {Absent, 0, 1}, iteration \in 0..1}
  \cup {[Ssd(0, 1) EXCEPT !.fan_out = <<1, 1>>],
        [Ssd(0, 1) EXCEPT !.draft_tree_query_tokens = 2],
        [Ssd(1, 1) EXCEPT !.draft_precompute_kv_cache_tokens = 6,
                          !.draft_tree_query_tokens = 3]}

PearlLines ==
  {Pearl(0, 0, 3, 0), Pearl(0, 1, 4, 3), Pearl(0, 2, 5, 4), Pearl(0, 1, 4, 2),
   Pearl(1, 0, 2, 0), [Pearl(1, 0, 2, 1) EXCEPT !.prefill_excluded = TRUE],
   Pearl(1, 0, 3, 1), [Pearl(0, 1, 4, 3) EXCEPT !.draft_proposal_count = 5],
   [Pearl(0, 1, 4, 3) EXCEPT !.draft_after_decision = Absent],
   [Pearl(0, 1, 4, 3) EXCEPT !.fan_out = <<0>>],
   [Pearl(0, 0, 3, 0) EXCEPT !.draft_precompute_kv_cache_tokens = 2],
   [Pearl(0, 1, 4, 2) EXCEPT !.draft_precompute_kv_cache_tokens = 3,
                             !.target_kv_cache_tokens = 3, !.target_query_tokens = 1],
   Ssd(1, 1)}

Setting(sample, skip, max, exclude) ==
  [sample_index |-> sample, skip_warmup_iterations |-> skip,
   max_control_iterations |-> max, exclude_prefill |-> exclude]

SsdSettings ==
  {Setting(-1, 0, 0, FALSE), Setting(-1, 1, 2, FALSE), Setting(1, 0, 1, FALSE), Setting(1, 1, 0, FALSE)}
PearlSettings ==
  {Setting(-1, 0, 0, TRUE), Setting(0, 1, 0, TRUE), Setting(-1, 0, 2, FALSE)}
MCSettings == SsdSettings \cup PearlSettings
MCLines(s) == IF s \in SsdSettings THEN SsdLines ELSE PearlLines
=============================================================================
