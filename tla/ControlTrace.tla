---------------------------- MODULE ControlTrace ----------------------------
(***************************************************************************)
(* TraceGenerator::load_speculative_control_trace (trace_generator.cpp):   *)
(* the control trace is read line by line, cut into samples, normalised so *)
(* that prompt prefill is not replayed, checked for cache continuity, and  *)
(* the records the configuration selects become the Host's control list.   *)
(*                                                                         *)
(* A line is a record of the fields the loader decides on.  A field whose  *)
(* absence matters holds Absent then.  Blank lines and lines of other      *)
(* events, which are passed over, JSON parsing and the fields that are     *)
(* copied without being looked at are left out.                            *)
(***************************************************************************)
EXTENDS Integers, Sequences, SequencesExt

CONSTANTS
  Lines(_),   \* the lines a trace replayed with these settings may consist of
  MaxLines,   \* bound on the length of the trace
  Settings    \* [sample_index, skip_warmup_iterations, max_control_iterations,
              \*  exclude_prefill]: the speculative section of the configuration

ASSUME TraceAssumption ==
  /\ MaxLines \in Nat
  /\ \A s \in Settings : s.sample_index >= -1

VARIABLES
  spec,       \* the settings of this run
  pc,         \* "read", "prefill", "continuity", "select", "loaded" or "thrown"
  trace,      \* the control records read so far
  samples,    \* the samples closed so far
  current,    \* current_sample
  at,         \* <<sample, record>> of the loop that is running
  selected    \* speculative_control
vars == <<spec, pc, trace, samples, current, at, selected>>

Absent == -1
Explicit(line) == line.sample_index # Absent

-----------------------------------------------------------------------------
(* Reading.                                                                 *)

\* trace_generator.cpp:101-118; of the fields that are looked at later
Required(l) ==
  Absent \notin {l.target_input_tokens, l.target_kv_cache_tokens, l.target_query_tokens,
                l.draft_input_tokens, l.draft_kv_cache_tokens, l.draft_uncached,
                l.draft_forward_steps, l.draft_proposal_count,
                l.target_after_decision, l.draft_after_decision}

\* trace_generator.cpp:119-134
CacheShape(l) ==
  /\ l.target_kv_cache_tokens <= l.target_input_tokens
  /\ l.draft_kv_cache_tokens <= l.draft_input_tokens
  /\ l.target_query_tokens = l.target_input_tokens - l.target_kv_cache_tokens
  /\ l.draft_uncached = l.draft_input_tokens - l.draft_kv_cache_tokens
  /\ l.target_query_tokens # 0 /\ l.draft_forward_steps # 0
  /\ l.draft_proposal_count = l.draft_uncached + l.draft_forward_steps - 1

\* trace_generator.cpp:135-149, 197-240: an absent field takes its default
OrElse(field, default) == IF field # Absent THEN field ELSE default

\* trace_generator.cpp:164-178: tree steps, fan-out list and proposal count
TreeShape(l) ==
  LET query_tokens == OrElse(l.draft_tree_query_tokens, l.draft_proposal_count)
  IN /\ l.draft_tree_steps # 0 /\ query_tokens # 0 /\ l.fan_out # <<>>
     /\ FoldLeft(LAMBDA a, b : a + b, 0, l.fan_out) = query_tokens
     /\ l.draft_proposal_count = query_tokens

\* No record may have an empty branch, whatever its algorithm.
Acceptable(l) ==
  /\ l.trace_version >= 2 => Required(l) /\ CacheShape(l)
  /\ \A i \in DOMAIN l.fan_out : l.fan_out[i] # 0
  /\ l.algorithm = "ssd" => TreeShape(l)

Control(l) ==
  [l EXCEPT
    !.target_kv_cache_tokens = OrElse(l.target_kv_cache_tokens, l.prefix_len_before),
    !.target_query_tokens = OrElse(l.target_query_tokens, 1),
    !.target_input_tokens = OrElse(l.target_input_tokens, l.prefix_len_before),
    !.draft_input_tokens = OrElse(l.draft_input_tokens, l.prefix_len_before),
    !.draft_kv_cache_tokens =
        OrElse(l.draft_precompute_kv_cache_tokens,
               OrElse(l.draft_kv_cache_tokens,
                      IF l.algorithm = "ssd" THEN l.prefix_len_after ELSE l.prefix_len_before)),
    !.target_after_decision = OrElse(l.target_after_decision, 0),
    !.draft_after_decision = OrElse(l.draft_after_decision, 0)]

\* Mutant of StartsNewSample: the iteration counter alone tells samples apart.
StartsNewSample_ByIteration(l) == current # <<>> /\ l.iteration = 0

\* Mutant of StartsNewSample: the sample id alone tells samples apart.
StartsNewSample_ById(l) ==
  /\ current # <<>> /\ Explicit(l)
  /\ ~Explicit(Head(current)) \/ l.sample_index # Head(current).sample_index

\* trace_generator.cpp:185-188, against the first record of the open sample
StartsNewSample(l) ==
  /\ current # <<>>
  /\ IF Explicit(l)
     THEN ~Explicit(Head(current)) \/ l.sample_index # Head(current).sample_index
     ELSE l.iteration = 0

Read(l) ==
  /\ pc = "read" /\ Len(trace) < MaxLines /\ Acceptable(l)
  /\ trace' = Append(trace, Control(l))
  /\ IF StartsNewSample(l)
     THEN samples' = Append(samples, current) /\ current' = <<Control(l)>>
     ELSE samples' = samples /\ current' = Append(current, Control(l))
  /\ UNCHANGED <<spec, pc, at, selected>>

Refuse(l) ==
  /\ pc = "read" /\ Len(trace) < MaxLines /\ ~Acceptable(l)
  /\ pc' = "thrown" /\ UNCHANGED <<spec, trace, samples, current, at, selected>>

\* End of file: the open sample is closed, if it holds anything.
EndOfFile ==
  /\ pc = "read"
  /\ samples' = IF current = <<>> THEN samples ELSE Append(samples, current)
  /\ current' = <<>>
  /\ pc' = IF spec.exclude_prefill THEN "prefill" ELSE "continuity"
  /\ at' = IF spec.exclude_prefill THEN <<1, 1>> ELSE <<1, 2>>
  /\ UNCHANGED <<spec, trace, selected>>

-----------------------------------------------------------------------------
(* exclude_prefill, one sample at a time.                                   *)

\* Mutant of WarmStart: the draft still fills the prompt into its cache.
WarmStart_KeepsDecoderTokens(f) ==
  [f EXCEPT !.target_input_tokens = f.prefix_len_before,
            !.target_kv_cache_tokens = f.prefix_len_before - 1,
            !.target_query_tokens = 1,
            !.draft_input_tokens = f.prefix_len_before,
            !.draft_kv_cache_tokens = f.prefix_len_before - 1,
            !.prefill_excluded = TRUE]

\* trace_generator.cpp:264-276: the prompt is in the cache, its last token is not
WarmStart(f) ==
  [f EXCEPT !.target_input_tokens = f.prefix_len_before,
            !.target_kv_cache_tokens = f.prefix_len_before - 1,
            !.target_query_tokens = 1,
            !.draft_input_tokens = f.prefix_len_before,
            !.draft_kv_cache_tokens = f.prefix_len_before - 1,
            !.draft_proposal_count = f.draft_forward_steps,
            !.prefill_excluded = TRUE]

\* the first pre-verify forward of a legacy trace, with cold caches
ColdStart(f) ==
  f.prefix_len_before # 0 /\ f.target_kv_cache_tokens = 0 /\ f.draft_kv_cache_tokens = 0

ExcludePrefill ==
  /\ pc = "prefill" /\ at[1] <= Len(samples)
  /\ LET first == Head(samples[at[1]])
     IN IF first.trace_version < 2 \/ ~(first.prefill_excluded \/ ColdStart(first))
        THEN pc' = "thrown" /\ UNCHANGED <<samples, at>>
        ELSE /\ samples' = IF first.prefill_excluded THEN samples
                           ELSE [samples EXCEPT ![at[1]][1] = WarmStart(first)]
             /\ at' = <<at[1] + 1, 1>> /\ UNCHANGED pc
  /\ UNCHANGED <<spec, trace, current, selected>>

PrefillDone ==
  /\ pc = "prefill" /\ at[1] > Len(samples)
  /\ pc' = "continuity" /\ at' = <<1, 2>>
  /\ UNCHANGED <<spec, trace, samples, current, selected>>

-----------------------------------------------------------------------------
(* Continuity of the two caches from each record to the next.               *)

Continues(previous, next) ==
  previous.trace_version >= 2 /\ next.trace_version >= 2 =>
    /\ previous.target_after_decision = next.target_kv_cache_tokens
    /\ previous.draft_after_decision = next.draft_kv_cache_tokens

CheckContinuity ==
  /\ pc = "continuity" /\ at[1] <= Len(samples)
  /\ LET sample == samples[at[1]]
     IN IF at[2] > Len(sample) THEN at' = <<at[1] + 1, 2>> /\ UNCHANGED pc
        ELSE IF Continues(sample[at[2] - 1], sample[at[2]])
        THEN at' = <<at[1], at[2] + 1>> /\ UNCHANGED pc
        ELSE pc' = "thrown" /\ UNCHANGED at
  /\ UNCHANGED <<spec, trace, samples, current, selected>>

-----------------------------------------------------------------------------
(* Selection.                                                               *)

FirstSample == IF spec.sample_index < 0 THEN 1 ELSE spec.sample_index + 1
LastSample == IF spec.sample_index < 0 THEN Len(samples) ELSE spec.sample_index + 1

\* Mutant of Full: one record too many.
Full_OffByOne == spec.max_control_iterations # 0 /\ Len(selected) > spec.max_control_iterations

Full == spec.max_control_iterations # 0 /\ Len(selected) >= spec.max_control_iterations

\* trace_generator.cpp:299-303: the requested sample must exist
ContinuityDone ==
  /\ pc = "continuity" /\ at[1] > Len(samples)
  /\ pc' = IF spec.sample_index >= Len(samples) THEN "thrown" ELSE "select"
  /\ at' = <<FirstSample, 1>>
  /\ UNCHANGED <<spec, trace, samples, current, selected>>

\* trace_generator.cpp:308-314, one record
SelectRecord ==
  /\ pc = "select" /\ at[1] <= LastSample /\ at[2] <= Len(samples[at[1]])
  /\ LET record == samples[at[1]][at[2]]
     IN IF record.iteration < spec.skip_warmup_iterations
        THEN at' = <<at[1], at[2] + 1>> /\ UNCHANGED selected
        ELSE IF Full THEN at' = <<LastSample + 1, 1>> /\ UNCHANGED selected
        ELSE /\ selected' = Append(selected, [record EXCEPT !.sample_index = at[1] - 1])
             /\ at' = <<at[1], at[2] + 1>>
  /\ UNCHANGED <<spec, pc, trace, samples, current>>

\* trace_generator.cpp:315-318
NextSample ==
  /\ pc = "select" /\ at[1] <= LastSample /\ at[2] > Len(samples[at[1]])
  /\ at' = IF Full THEN <<LastSample + 1, 1>> ELSE <<at[1] + 1, 1>>
  /\ UNCHANGED <<spec, pc, trace, samples, current, selected>>

\* trace_generator.cpp:319-321
SelectionDone ==
  /\ pc = "select" /\ at[1] > LastSample
  /\ pc' = IF selected = <<>> THEN "thrown" ELSE "loaded"
  /\ UNCHANGED <<spec, trace, samples, current, at, selected>>

Init ==
  /\ spec \in Settings /\ pc = "read" /\ trace = <<>>
  /\ samples = <<>> /\ current = <<>> /\ at = <<1, 1>> /\ selected = <<>>

Next ==
  \/ \E l \in Lines(spec) : Read(l) \/ Refuse(l)
  \/ EndOfFile
  \/ ExcludePrefill \/ PrefillDone \/ CheckContinuity \/ ContinuityDone
  \/ SelectRecord \/ NextSample \/ SelectionDone

Spec == Init /\ [][Next]_vars

-----------------------------------------------------------------------------
\* The samples are the requests of the trace.  Laid end to end they are the
\* trace, but for the first records that exclude_prefill rewrites, so that no
\* record is lost, repeated or moved.  In a sample the records that carry an id
\* carry the same one, and a record without an id that restarts the counter
\* opens a sample, also when the trace mixes the two conventions
\* (trace_generator.cpp:179-196, 243-245).
SamplesAreRequests ==
  /\ pc # "thrown" =>
       LET flat == FlattenSeq(samples) \o current
       IN /\ Len(flat) = Len(trace)
          /\ \A i \in DOMAIN trace : flat[i] \in {trace[i], WarmStart(trace[i])}
  /\ \A s \in {samples[i] : i \in DOMAIN samples} \cup ({current} \ {<<>>}) :
       \A i \in DOMAIN s :
         IF Explicit(s[i]) THEN s[i].sample_index = s[1].sample_index
         ELSE s[i].iteration = 0 => i = 1

\* The traces the extractors write: the counter starts at 0 and grows by one
\* within a request; a new request starts at 0, under a new id if it has one.
WellFormed(t) ==
  /\ t # <<>> => t[1].iteration = 0
  /\ \A i \in 1..(Len(t) - 1) :
       LET a == t[i]  b == t[i + 1]
       IN \/ b.iteration = a.iteration + 1 /\ b.sample_index = a.sample_index
          \/ b.iteration = 0 /\ (Explicit(b) => b.sample_index # a.sample_index)

\* No two replayed records share the name "sample<s>.iter<i>" under which the
\* metrics keep an episode: a second episode of the same name would be merged
\* into the first (performance_metrics.cpp:114).
EpisodeNamesDistinct ==
  pc = "loaded" /\ WellFormed(trace) =>
    \A i, j \in DOMAIN selected :
      i # j => <<selected[i].sample_index, selected[i].iteration>>
               # <<selected[j].sample_index, selected[j].iteration>>

\* What is replayed has the cache and work shape that was checked on reading,
\* although exclude_prefill rewrites records after the check, and within a
\* request every record starts from the caches its predecessor left.  The
\* draft's shape is checked with draft_kv_cache_tokens, but a record that
\* states draft_precompute_kv_cache_tokens replays that: of such a record only
\* the target's shape and the continuity are certain
\* (trace_generator.cpp:123-134, 140-143, 264-298).
ReplayIsConsistent ==
  pc = "loaded" /\ WellFormed(trace) =>
    \A i \in DOMAIN selected :
      LET c == selected[i]
      IN c.trace_version >= 2 =>
           /\ c.target_query_tokens = c.target_input_tokens - c.target_kv_cache_tokens
           /\ c.draft_precompute_kv_cache_tokens = Absent =>
                c.draft_proposal_count =
                  (c.draft_input_tokens - c.draft_kv_cache_tokens) + c.draft_forward_steps - 1
           /\ i > 1 /\ selected[i - 1].sample_index = c.sample_index =>
                Continues(selected[i - 1], c)

\* The two nested loops with their continue and breaks select the records of
\* the requested samples that are past the warm-up, in order, cut to the
\* configured number (trace_generator.cpp:305-318).
SelectionExact ==
  pc = "loaded" =>
    LET named(s)  == [k \in DOMAIN samples[s] |-> [samples[s][k] EXCEPT !.sample_index = s - 1]]
        wanted    == FlattenSeq([n \in 1..(LastSample - FirstSample + 1) |-> named(FirstSample + n - 1)])
        past(r)   == r.iteration >= spec.skip_warmup_iterations
        replayed  == SelectSeq(wanted, past)
        limit     == spec.max_control_iterations
    IN selected = IF limit = 0 \/ limit > Len(replayed) THEN replayed ELSE SubSeq(replayed, 1, limit)
=============================================================================
