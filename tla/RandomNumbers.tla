---------------------------- MODULE RandomNumbers ----------------------------
(***************************************************************************)
(* The random numbers of the tests: the engine of a process, with a global *)
(* state and one for each thread, the seed that the log shows, which a     *)
(* child or a later run of the program is given back as text, and what the *)
(* threads of a test draw.  A word has 8 bits here, where the code's has   *)
(* 32, and everything that depends on the width is scaled with it.         *)
(***************************************************************************)
EXTENDS Integers, Sequences, FiniteSets, Bitwise

CONSTANTS
  Places,        \* the logical processors: [package_id, core_id, thread_id]
  RandomData,    \* words that /dev/urandom or a file may hold
  TestDraws,     \* the calls that a test makes: [init, run : sequences of functions]
  MaxTests       \* bound: runs of tests in a run of the program

Word == 256
LcgModulus == 127        \* 2^31 - 1
LcgMax == 126
HexAbove == 15           \* 255

EngineTypes == {"Constant:", "LCG:", "AES:"}

VARIABLES
  haveAes,
  fork_mode,    \* "fork", "exec" or "no"
  cpu_info,     \* the processors in use, by thread number
  random_engine,   \* of the parent: [engine_type, global]
  child,        \* of the child that runs the test: [engine_type, global, per_thread, seeded]
  step,         \* "usage", "seed", "idle", "threads"
  draws,        \* the calls that the test makes
  numbers,      \* what each thread drew, by thread number
  begun,        \* the seed that the log shows for the test
  results,      \* history: [seed, place, draws, numbers] of every thread of every run
  reported,     \* history: of the last run, the seed before and after it, and whether it drew from the parent's engine
  tests, reruns

randomVars == <<haveAes, fork_mode, cpu_info, random_engine, child, step, draws, numbers, begun, results, reported,
                tests, reruns>>
Threads(info) == 1 .. Len(info)

NoEngine == [engine_type |-> "none", global |-> 0, per_thread |-> <<>>, seeded |-> {}]
NoSeed == <<"none">>

RandomInit ==
  /\ haveAes \in BOOLEAN /\ fork_mode \in {"fork", "exec", "no"}
  /\ cpu_info \in {i \in Places \X Places : i[1] # i[2]} \cup {<<p>> : p \in Places}
  /\ random_engine = [engine_type |-> "none", global |-> 0] /\ child = NoEngine
  /\ step = "seed" /\ draws = [init |-> <<>>, run |-> <<>>] /\ numbers = <<>> /\ begun = NoSeed
  /\ results = {} /\ reported = [seed |-> NoSeed, failed_seed |-> NoSeed, drew |-> FALSE]
  /\ tests = 0 /\ reruns = 0

-----------------------------------------------------------------------------
(* The engines.  A state is a word, or the two words of the AES engine.    *)

minstd_rand(x) == (3 * x) % LcgModulus
aesenc(a, key) == ((5 * a + 3) % Word) ^^ key

LcgSeed(word) == IF word % LcgModulus = 0 THEN 1 ELSE word % LcgModulus

\* seedGlobalEngine()
Seeded(type, data) ==
  CASE type = "Constant:" -> data
    [] type = "LCG:" -> LcgSeed(data)
    [] type = "AES:" -> <<data, Word - 1 - data>>

seedThread(type, global, mixin) ==
  CASE type = "Constant:" -> global ^^ mixin
    [] type = "LCG:" -> LcgSeed(minstd_rand(global) ^^ (mixin & LcgMax))
    [] type = "AES:" -> <<global[1] ^^ mixin, global[2] ^^ mixin>>

\* one sample: [sample, state]
Sample(type, state) ==
  CASE type = "Constant:" -> [sample |-> state, state |-> state]
    [] type = "LCG:" -> [sample |-> minstd_rand(state), state |-> minstd_rand(state)]
    [] type = "AES:" -> LET v == aesenc(state[1], state[2]) IN [sample |-> v, state |-> <<v, state[2]>>]

\* how many samples generateInt(), generate32(), generate64() and generate128() take
SampleCount(type, kind) ==
  CASE type = "LCG:" -> [int |-> 1, random32 |-> 2, random64 |-> 3, random128 |-> 6][kind]
    [] type = "Constant:" -> [int |-> 1, random32 |-> 1, random64 |-> 2, random128 |-> 4][kind]
    [] type = "AES:" -> 1

\* the functions for a test, and those of the C library that are replaced; those for a seed abort
Kind(call) ==
  CASE call \in {"rand", "random", "lrand48", "nrand48"} -> "int"
    [] call \in {"random32", "mrand48", "jrand48", "frandomf"} -> "random32"
    [] call \in {"random64", "drand48", "erand48", "frandom", "frandoml"} -> "random64"
    [] call = "random128" -> "random128"

\* a number is the samples it is put together from
SampleAfter(type, state, n) ==
  LET after[i \in 0 .. n] == IF i = 0 THEN [sample |-> 0, state |-> state] ELSE Sample(type, after[i - 1].state)
  IN  after[n]
Generate(type, state, kind) ==
  LET n == SampleCount(type, kind)
  IN  [number |-> [i \in 1 .. n |-> SampleAfter(type, state, i).sample], state |-> SampleAfter(type, state, n).state]
GenerateAll(type, state, calls) ==
  LET after[i \in 0 .. Len(calls)] ==
        IF i = 0 THEN state ELSE Generate(type, after[i - 1], Kind(calls[i])).state
  IN  after[Len(calls)]

-----------------------------------------------------------------------------
(* The seed as text: the name of the engine, and digits in a base.         *)

Digits(n, base) == <<n \div (base * base), (n \div base) % base, n % base>>
Value(digits, base) == (digits[1] * base + digits[2]) * base + digits[3]

globalState(type, s) ==
  CASE type = "AES:" -> [base |-> 16, digits |-> <<s[1] \div 16, s[1] % 16, s[2] \div 16, s[2] % 16>>]
    [] type = "LCG:" -> [base |-> 10, digits |-> Digits(s, 10)]
    [] type = "Constant:" -> LET base == IF s > HexAbove THEN 16 ELSE 10 IN [base |-> base, digits |-> Digits(s, base)]

\* the prefix 0x tells the base where the engine does not
reloadGlobalState(type, text) ==
  IF type = "AES:" THEN <<16 * text.digits[1] + text.digits[2], 16 * text.digits[3] + text.digits[4]>>
  ELSE Value(text.digits, text.base)

random_format_seed(engine) == <<engine.engine_type, globalState(engine.engine_type, engine.global)>>
Parsed(seed) == [engine_type |-> seed[1], global |-> reloadGlobalState(seed[1], seed[2])]

-----------------------------------------------------------------------------
(* random_init_global().                                                   *)

\* from /dev/urandom, a file, or the random data of the kernel
SeedFromData(data, type) ==
  /\ step = "seed"
  /\ type \in {"LCG:"} \cup (IF haveAes THEN {"AES:"} ELSE {})
  /\ random_engine' = [engine_type |-> type, global |-> Seeded(type, data)]
  /\ step' = "idle"
  /\ UNCHANGED <<haveAes, fork_mode, cpu_info, child, draws, numbers, begun, results, reported, tests, reruns>>

\* from the option -s
SeedFromText(seed) ==
  /\ step = "seed"
  /\ IF seed[1] = "AES:" /\ ~haveAes
     THEN step' = "usage" /\ UNCHANGED random_engine
     ELSE step' = "idle" /\ random_engine' = Parsed(seed)
  /\ UNCHANGED <<haveAes, fork_mode, cpu_info, child, draws, numbers, begun, results, reported, tests, reruns>>

-----------------------------------------------------------------------------
(* A run of a test.                                                        *)

\* the child's engine is a copy, is made from the text, or is the parent's own
ChildEngine == IF fork_mode = "exec" THEN Parsed(random_format_seed(random_engine)) ELSE random_engine

ParentGlobal(global) == IF fork_mode = "no" THEN global ELSE random_engine.global

\* logging_init(), the start of the child and its test_init(), which draws from the global engine
StartTest(d) ==
  /\ step = "idle" /\ tests < MaxTests
  /\ begun' = random_format_seed(random_engine)
  /\ draws' = d
  /\ LET e == ChildEngine
         global == GenerateAll(e.engine_type, e.global, d.init)
     IN  /\ child' = [engine_type |-> e.engine_type, global |-> global,
                      per_thread |-> [t \in Threads(cpu_info) |-> global], seeded |-> {}]
         /\ random_engine' = [random_engine EXCEPT !.global = ParentGlobal(global)]
  /\ numbers' = [t \in Threads(cpu_info) |-> <<>>]
  /\ step' = "threads" /\ tests' = tests + 1
  /\ UNCHANGED <<haveAes, fork_mode, cpu_info, results, reported, reruns>>

Rotl(k, n) == ((k * 2^n) % Word) + (k \div 2^(8 - n))
scramble(k) == (Rotl((k * 81) % Word, 3) * 147) % Word

\* mutant: a processor is known by its place among those in use
Mixin_number(t) == scramble(t)

Mixin(t) ==
  LET core == (Rotl(scramble(cpu_info[t].core_id), 5) * 5 + 100) % Word
  IN  (core ^^ scramble(cpu_info[t].package_id)) ^^ (85 * (cpu_info[t].thread_id % 4))

random_init_thread(t) ==
  /\ step = "threads" /\ t \notin child.seeded
  /\ child' = [child EXCEPT !.per_thread[t] = seedThread(child.engine_type, child.global, Mixin(t)),
                            !.seeded = @ \cup {t}]
  /\ UNCHANGED <<haveAes, fork_mode, cpu_info, random_engine, step, draws, numbers, begun, results, reported, tests, reruns>>

thread_local_rng(t) == t

\* random32() and the others
DrawNumber(t) ==
  /\ step = "threads" /\ t \in child.seeded /\ Len(numbers[t]) < Len(draws.run)
  /\ LET g == Generate(child.engine_type, child.per_thread[thread_local_rng(t)], Kind(draws.run[Len(numbers[t]) + 1]))
     IN  /\ numbers' = [numbers EXCEPT ![t] = Append(@, g.number)]
         /\ child' = [child EXCEPT !.per_thread[thread_local_rng(t)] = g.state]
  /\ UNCHANGED <<haveAes, fork_mode, cpu_info, random_engine, step, draws, begun, results, reported, tests, reruns>>

\* the test is over; if it failed, the log shows the seed again.  random_advance_seed(), unless it is run again
EndRandomTest(retry) ==
  /\ step = "threads"
  /\ \A t \in Threads(cpu_info) : t \in child.seeded /\ Len(numbers[t]) = Len(draws.run)
  /\ results' = results \cup
       {[seed |-> begun, place |-> cpu_info[t], draws |-> draws, numbers |-> numbers[t]] : t \in Threads(cpu_info)}
  /\ reported' = [seed |-> begun, failed_seed |-> random_format_seed(random_engine),
                   drew |-> fork_mode = "no" /\ draws.init # <<>>]
  /\ random_engine' = IF retry THEN random_engine
                      ELSE [random_engine EXCEPT !.global = Generate(random_engine.engine_type, @, "int").state]
  /\ child' = NoEngine /\ numbers' = <<>>
  /\ step' = "idle"
  /\ UNCHANGED <<haveAes, fork_mode, cpu_info, draws, begun, tests, reruns>>

\* the program is run again, with a seed from the log, on other processors of the machine or in another mode
Rerun(info, mode, seed) ==
  /\ step = "idle" /\ reruns = 0 /\ results # {}
  /\ seed \in {r.seed : r \in results}
  /\ cpu_info' = info /\ fork_mode' = mode
  /\ random_engine' = Parsed(seed)
  /\ reruns' = 1 /\ tests' = MaxTests - 1
  /\ UNCHANGED <<haveAes, child, step, draws, numbers, begun, results, reported>>

RandomNext ==
  \/ \E data \in RandomData, type \in EngineTypes : SeedFromData(data, type)
  \/ \E data \in RandomData : SeedFromText(<<"Constant:", globalState("Constant:", data)>>)
  \/ SeedFromText(<<"AES:", globalState("AES:", <<1, 2>>)>>)
  \/ \E d \in TestDraws : StartTest(d)
  \/ \E t \in Threads(cpu_info) : random_init_thread(t) \/ DrawNumber(t)
  \/ \E retry \in BOOLEAN : EndRandomTest(retry)
  \/ \E info \in {<<p>> : p \in Places}, mode \in {"fork", "exec", "no"}, seed \in {r.seed : r \in results} :
       Rerun(info, mode, seed)

RandomSpec == RandomInit /\ [][RandomNext]_randomVars

-----------------------------------------------------------------------------
(* Properties.                                                             *)

\* A failure can be looked for again.  The seed that the log shows with it is the one the test began with,
\* since the children draw from engines of their own (without a child, what test_init() drew is gone from
\* it).  What a thread draws depends only on that seed, on the processor's place in the topology and on
\* what the test calls: it is the same on another set of processors, whatever the threads' order, and in
\* a child that is forked, exec()ed or not a process of its own.
Reproducible ==
  /\ reported.drew \/ reported.failed_seed = reported.seed
  /\ \A a, b \in results :
       (a.seed = b.seed /\ a.place = b.place /\ a.draws = b.draws) => a.numbers = b.numbers
=============================================================================
