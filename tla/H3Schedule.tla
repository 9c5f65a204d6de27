----------------------------- MODULE H3Schedule -----------------------------
(***************************************************************************)
(* The compiled denoise schedule of the curve-cache runtime                *)
(* (runtime/h3/schedule.py) and the admission of requests against it       *)
(* (runtime/h3/requests.py).  Times are whole numbers that keep the order  *)
(* and the equality of the FP32 values; how a sigma is computed from a     *)
(* shift is left to the constants.                                         *)
(***************************************************************************)
EXTENDS FiniteSets, FiniteSetsExt, Functions, Integers, SequencesExt

CONSTANTS
  Steps,               \* denoise_steps
  VideoT, AudioT,      \* 1 - sigma at each step, of the two shifts
  ImageT, AudioRefT,   \* the conditioning anchors
  Aliased              \* the schedule values a request can give in two ways

ASSUME H3ScheduleAssumption ==
  /\ Steps \in 1..256
  /\ VideoT \in [1..Steps -> Nat] /\ AudioT \in [1..Steps -> Nat]
  /\ \A s \in 1..Steps - 1 : VideoT[s] < VideoT[s + 1] /\ AudioT[s] < AudioT[s + 1]
  /\ ImageT \in Nat /\ AudioRefT \in Nat

MODE_FIELDS ==
  [ t2va         |-> {"video", "audio"},
    fl2va        |-> {"video", "audio", "image"},
    ref2va_image |-> {"video", "audio", "image"},
    ref2va_audio |-> {"video", "audio", "audio_ref"},
    ref2va_mixed |-> {"video", "audio", "image", "audio_ref"} ]

Modes == DOMAIN MODE_FIELDS
ModeOrder == <<"t2va", "fl2va", "ref2va_image", "ref2va_audio", "ref2va_mixed">>

Later(a, b) == IF a > b THEN a ELSE b

\* The timesteps of one evaluation; their sorted vector is the set itself.
Candidates(mode, s) ==
  LET value == [video |-> VideoT[s], audio |-> AudioT[s],
                image |-> Later(VideoT[s], ImageT), audio_ref |-> Later(AudioT[s], AudioRefT)]
  IN  {value[f] : f \in MODE_FIELDS[mode]}

(***************************************************************************)
(* build_h3_schedule_contract: modes and steps in order, a plan added when *)
(* no plan has exactly its values.                                         *)
(***************************************************************************)
Evaluations == [i \in 1..Len(ModeOrder) * Steps |->
                  [mode |-> ModeOrder[((i - 1) \div Steps) + 1], step |-> ((i - 1) % Steps) + 1]]

SamePlan(a, b) == a = b

SameWidth(a, b) == Cardinality(a) = Cardinality(b)     \* Mutant: plans deduplicated by width

IsPlan(a, b) == SamePlan(a, b)

AddPlan(plans, e) ==
  LET c == Candidates(e.mode, e.step)
  IN  IF \E i \in DOMAIN plans : IsPlan(plans[i], c) THEN plans ELSE Append(plans, c)

PlansAfter[n \in 0..Len(Evaluations)] ==
  IF n = 0 THEN <<>> ELSE AddPlan(PlansAfter[n - 1], Evaluations[n])

Plans == PlansAfter[Len(Evaluations)]

\* mode_plan_indices
PlanIndex ==
  [mode \in Modes |-> [s \in 1..Steps |->
     CHOOSE i \in DOMAIN Plans : IsPlan(Plans[i], Candidates(mode, s))]]

\* _CurveCacheState: where a plan's rows begin in the cache, and the token
\* that narrows to them; token_span finds the plan back from the two numbers.
Width == [i \in DOMAIN Plans |-> Cardinality(Plans[i])]
Offset[i \in DOMAIN Plans] == IF i = 1 THEN 0 ELSE Offset[i - 1] + Width[i - 1]
Token(i) == [start |-> Offset[i], length |-> Width[i]]
SpanOf(token) == {i \in DOMAIN Plans : Token(i) = token}

(***************************************************************************)
(* normalize_h3_request and validate_h3_sampling_controls.  A value of the *)
(* schedule is given by its canonical field, by its legacy alias, by both  *)
(* or by neither; what matters of it is whether it is the compiled one.    *)
(***************************************************************************)
Given == {"absent", "compiled", "other", "malformed"}

\* early: the version, task and acceleration fields are in order; fixed: the
\* values that have no alias; late: the output and the sampling controls.
Requests == [canonical : [Aliased -> Given], legacy : [Aliased -> Given], fixed : Given,
             early : BOOLEAN, late : BOOLEAN]

Wanted(q) == {IF q.canonical[f] = "absent" THEN q.legacy[f] ELSE q.canonical[f] : f \in Aliased}
               \cup {q.fixed}

Conflicts(q) == \E f \in Aliased : "absent" \notin {q.canonical[f], q.legacy[f]}
                                  /\ q.canonical[f] # q.legacy[f]

ConflictsNever(q) == FALSE       \* Mutant: a canonical value silently wins over its alias

Contradicts(q) == Conflicts(q)

IsMalformed(q) == "malformed" \in Range(q.canonical) \cup Range(q.legacy) \cup {q.fixed}

\* The status: 400 for a request that is wrong in itself, 409 for one that
\* asks for a schedule that is not compiled.
Admission(q) ==
  IF ~q.early \/ IsMalformed(q) \/ Contradicts(q) THEN 400
  ELSE IF "other" \in Wanted(q) THEN 409
  ELSE IF ~q.late THEN 400
  ELSE 200

\* cache_pipeline._cache_mode, from the task the host runs and its reference blocks
CacheMode(task, blocks) ==
  LET visual == blocks \cap {"image", "video", "video_audio"} # {}
      audio == blocks \cap {"audio", "video_audio"} # {}
  IN  IF task = "t2va" THEN "t2va"
      ELSE IF task = "fl2va" THEN "fl2va"
      ELSE IF visual /\ audio THEN "ref2va_mixed"
      ELSE IF audio THEN "ref2va_audio"
      ELSE "ref2va_image"
=============================================================================
