------------------------------- MODULE LocalModel -------------------------------
(***************************************************************************)
(* The local language model (local_ai.go): analyses that wait for the one  *)
(* call at a time the runtime allows, what of an answer is kept, a         *)
(* benchmark of several models that waits like the others, and the         *)
(* configuration they are made with.                                       *)
(***************************************************************************)
EXTENDS Naturals, FiniteSets

CONSTANTS
    Analyses,       \* goroutines that analyze an event
    Bench,          \* the goroutine of the benchmark
    Bands,          \* frequency bands
    Modulations,    \* modulations other than UNKNOWN
    Confidences,    \* confidences of a model, in percent
    Minimums,       \* values of LocalAIConfig.MinimumConfidence
    MaxModels,      \* bound: models of a benchmark
    MaxConfigs,     \* bound: updates of the configuration
    MaxBenchmarks,  \* bound: benchmarks
    Cases,          \* how many cases the benchmark has
    CaseOf(_)       \* what its cases give as measured

LocalModelAssumption ==
    /\ {MaxModels, MaxConfigs, MaxBenchmarks, Cases} \subseteq Nat
    /\ Confidences \cup Minimums \subseteq 0..100
    /\ Bench \notin Analyses

VARIABLES
    settings,     \* LocalAIAnalyzer.config: [enabled, minimum]
    settingsFile, \* local-ai.json
    editors,      \* the settings of updates that wrote the file
    configs,      \* updates so far
    calls,        \* per goroutine: [pc, event, settings, answer]
    semaphore,    \* the goroutines that may call the model
    benchmark,    \* LocalAIBenchmarkStatus: [running, asked: models, results: how many, minimum]
    tally,        \* the model that is tried: [cases, grounded, errors]
    benchmarks    \* benchmarks so far

modelvars == <<settings, settingsFile, editors, configs, calls, semaphore, benchmark, tally, benchmarks>>

Unknown == "UNKNOWN"
NoBand == "none"
Callers == Analyses \cup {Bench}
Settings == [enabled : BOOLEAN, minimum : Minimums]
(* The band of the frequency, and the modulation measured or decoded. *)
Observations == [band : Bands, measured : Modulations \cup {Unknown}]
Answers == [band : Bands \cup {NoBand}, modulation : Modulations \cup {Unknown}, confidence : Confidences]
Idle == [pc |-> "idle"]
Untried == [cases |-> 0, grounded |-> 0, errors |-> 0]
Capped == 69

LesserOf(a, b) == IF a < b THEN a ELSE b

-----------------------------------------------------------------------------
(* analyzeWithConfig: what is kept of an answer.  The band and modulation   *)
(* that were measured stand, and an answer that had them wrong is no more   *)
(* than likely; one below the minimum names nothing.                        *)
Banded(answer, seen) ==
    IF answer.band \notin {NoBand, seen.band}
    THEN [answer EXCEPT !.band = seen.band, !.confidence = LesserOf(@, Capped)]
    ELSE answer
Measured(answer, seen) ==
    IF seen.measured # Unknown /\ answer.modulation # seen.measured
    THEN [answer EXCEPT !.modulation = seen.measured, !.confidence = LesserOf(@, Capped)]
    ELSE answer
Named(answer, minimum) ==
    IF answer.confidence < minimum
    THEN [answer EXCEPT !.band = NoBand, !.modulation = Unknown]
    ELSE answer

\* Faulty variant: the minimum is applied before the corrections.
KeptUnchecked(answer, seen, minimum) == Measured(Banded(Named(answer, minimum), seen), seen)
\* Faulty variant: a wrong band is corrected without a doubt about the rest.
KeptTrusting(answer, seen, minimum) ==
    Named(Measured(IF answer.band \in {NoBand, seen.band} THEN answer
                   ELSE [answer EXCEPT !.band = seen.band], seen), minimum)

Kept(answer, seen, minimum) == Named(Measured(Banded(answer, seen), seen), minimum)

-----------------------------------------------------------------------------
LocalModelTypeOK ==
    /\ {settings, settingsFile} \subseteq Settings
    /\ \A c \in Callers : calls[c].pc = "done" => calls[c].answer.confidence \in Confidences \cup {Capped}
    /\ benchmark.results <= benchmark.asked
    /\ tally.grounded + tally.errors <= tally.cases /\ tally.cases <= Cases

LocalModelInit ==
    /\ settings \in Settings /\ settingsFile = settings /\ editors = {}
    /\ configs = 0 /\ benchmarks = 0
    /\ calls = [c \in Callers |-> Idle]
    /\ semaphore = {}
    /\ benchmark = [running |-> FALSE, asked |-> 0, results |-> 0, minimum |-> 0]
    /\ tally = Untried

(* Update writes the file, then keeps the settings. *)
WriteSettings(c) ==
    /\ configs < MaxConfigs /\ configs' = configs + 1
    /\ settingsFile' = c /\ editors' = editors \cup {c}
    /\ UNCHANGED <<settings, calls, semaphore, benchmark, tally, benchmarks>>

KeepSettings(c) ==
    /\ c \in editors
    /\ settings' = c /\ editors' = editors \ {c}
    /\ UNCHANGED <<settingsFile, configs, calls, semaphore, benchmark, tally, benchmarks>>

(* Analyze takes the settings of its start. *)
Analyze(a, seen) ==
    /\ calls[a].pc = "idle" /\ settings.enabled
    /\ calls' = [calls EXCEPT ![a] = [pc |-> "waiting", seen |-> seen, minimum |-> settings.minimum]]
    /\ UNCHANGED <<settings, settingsFile, editors, configs, semaphore, benchmark, tally, benchmarks>>

\* Faulty variant: the call begins whether the runtime is in use or not.
AcquireAnyway(c) ==
    /\ calls[c].pc = "waiting"
    /\ semaphore' = semaphore \cup {c}
    /\ calls' = [calls EXCEPT ![c].pc = "asking"]
    /\ UNCHANGED <<settings, settingsFile, editors, configs, benchmark, tally, benchmarks>>

Acquire(c) ==
    /\ calls[c].pc = "waiting" /\ semaphore = {}
    /\ semaphore' = {c}
    /\ calls' = [calls EXCEPT ![c].pc = "asking"]
    /\ UNCHANGED <<settings, settingsFile, editors, configs, benchmark, tally, benchmarks>>

(* The survey or job of the event is stopped while it waits. *)
GiveUp(a) ==
    /\ calls[a].pc = "waiting"
    /\ calls' = [calls EXCEPT ![a] = Idle]
    /\ UNCHANGED <<settings, settingsFile, editors, configs, semaphore, benchmark, tally, benchmarks>>

Answer(a, raw) ==
    /\ calls[a].pc = "asking"
    /\ semaphore' = semaphore \ {a}
    /\ calls' = [calls EXCEPT ![a] =
         [pc |-> "done", seen |-> @.seen, minimum |-> @.minimum, raw |-> raw,
          answer |-> Kept(raw, @.seen, @.minimum)]]
    /\ UNCHANGED <<settings, settingsFile, editors, configs, benchmark, tally, benchmarks>>

(* No connection, an error status, no valid JSON, or a time limit. *)
CallFails(a) ==
    /\ calls[a].pc = "asking"
    /\ semaphore' = semaphore \ {a}
    /\ calls' = [calls EXCEPT ![a] = Idle]
    /\ UNCHANGED <<settings, settingsFile, editors, configs, benchmark, tally, benchmarks>>

(* The answer is stored with the event. *)
Deliver(a) ==
    /\ calls[a].pc = "done"
    /\ calls' = [calls EXCEPT ![a] = Idle]
    /\ UNCHANGED <<settings, settingsFile, editors, configs, semaphore, benchmark, tally, benchmarks>>

-----------------------------------------------------------------------------
(* StartBenchmark: models of the server, which it is asked for only while   *)
(* the analyses are enabled; one benchmark at a time.                       *)
StartBenchmark(n) ==
    /\ ~benchmark.running /\ calls[Bench].pc = "idle" /\ settings.enabled
    /\ benchmarks < MaxBenchmarks /\ benchmarks' = benchmarks + 1
    /\ benchmark' = [running |-> TRUE, asked |-> n, results |-> 0, minimum |-> 0]
    /\ tally' = Untried
    /\ UNCHANGED <<settings, settingsFile, editors, configs, calls, semaphore>>

(* runBenchmark takes the settings of its start; a case waits for the       *)
(* runtime without a time limit, whether analyses are still enabled or not. *)
NextCase ==
    /\ benchmark.results < benchmark.asked /\ tally.cases < Cases /\ calls[Bench].pc = "idle"
    /\ LET minimum == IF benchmark.minimum = 0 THEN settings.minimum ELSE benchmark.minimum
       IN /\ benchmark' = [benchmark EXCEPT !.minimum = minimum]
          /\ calls' = [calls EXCEPT ![Bench] = [pc |-> "waiting", seen |-> CaseOf(tally.cases + 1), minimum |-> minimum]]
    /\ tally' = [tally EXCEPT !.cases = @ + 1]
    /\ UNCHANGED <<settings, settingsFile, editors, configs, semaphore, benchmarks>>

CaseEnds(outcome) ==
    /\ calls[Bench].pc = "asking"
    /\ semaphore' = semaphore \ {Bench}
    /\ calls' = [calls EXCEPT ![Bench] = Idle]
    /\ tally' = outcome
    /\ UNCHANGED <<settings, settingsFile, editors, configs, benchmark, benchmarks>>

CaseAnswered(raw) ==
    LET kept == Kept(raw, calls[Bench].seen, calls[Bench].minimum)
    IN CaseEnds(IF kept.modulation = calls[Bench].seen.measured
                THEN [tally EXCEPT !.grounded = @ + 1] ELSE tally)

\* Faulty variant: a case that failed counts twice.
CaseFailsTwice == CaseEnds([tally EXCEPT !.errors = @ + 2])

CaseFails == CaseEnds([tally EXCEPT !.errors = @ + 1])

(* All cases of a model are tried: its result is there. *)
ModelTried ==
    /\ benchmark.results < benchmark.asked /\ tally.cases = Cases /\ calls[Bench].pc = "idle"
    /\ benchmark' = [benchmark EXCEPT !.results = @ + 1]
    /\ tally' = Untried
    /\ UNCHANGED <<settings, settingsFile, editors, configs, calls, semaphore, benchmarks>>

BenchmarkOver ==
    /\ benchmark.running /\ benchmark.results = benchmark.asked
    /\ benchmark' = [benchmark EXCEPT !.running = FALSE]
    /\ UNCHANGED <<settings, settingsFile, editors, configs, calls, semaphore, tally, benchmarks>>

EndOf(c) ==
    IF c = Bench THEN CaseFails \/ \E raw \in Answers : CaseAnswered(raw)
    ELSE CallFails(c) \/ \E raw \in Answers : Answer(c, raw)
BenchWork == NextCase \/ ModelTried \/ BenchmarkOver

LocalModelNext ==
    \/ \E c \in Settings : WriteSettings(c) \/ KeepSettings(c)
    \/ \E a \in Analyses : GiveUp(a) \/ Deliver(a) \/ \E seen \in Observations : Analyze(a, seen)
    \/ \E c \in Callers : Acquire(c) \/ EndOf(c)
    \/ BenchWork \/ \E n \in 1..MaxModels : StartBenchmark(n)

LocalModelSpec == LocalModelInit /\ [][LocalModelNext]_modelvars

-----------------------------------------------------------------------------
(* The runtime serves one call at a time, of an analysis or of the          *)
(* benchmark (LocalAIAnalyzer.semaphore).                                   *)
OneCall == \A c, d \in Callers : calls[c].pc = "asking" /\ calls[d].pc = "asking" => c = d

(* An answer that is kept names nothing else than what was measured, and    *)
(* nothing at all below the minimum of its settings (analyzeWithConfig).    *)
AnswerGrounded ==
    \A a \in Analyses : calls[a].pc = "done" =>
        LET kept == calls[a].answer
            seen == calls[a].seen
        IN kept.band # NoBand \/ kept.modulation # Unknown =>
             /\ kept.confidence >= calls[a].minimum
             /\ kept.band \in {NoBand, seen.band}
             /\ seen.measured # Unknown => kept.modulation = seen.measured

(* An answer that contradicted what was measured is never kept as more than *)
(* likely (analyzeWithConfig).                                              *)
ContradictionDoubted ==
    \A a \in Analyses : calls[a].pc = "done" =>
        LET raw == calls[a].raw
            seen == calls[a].seen
        IN \/ raw.band \notin {NoBand, seen.band}
           \/ seen.measured # Unknown /\ raw.modulation # seen.measured
           => calls[a].answer.confidence <= Capped
=============================================================================
