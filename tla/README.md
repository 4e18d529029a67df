# Verification of the HSA PRM conformance tests in TLA+

The repository is a test suite: the program `hc` builds some fourteen thousand
tests (an HSAIL program, its data, and a *scenario* of host commands), runs each
one on an HSA agent through the HSA runtime, and reports how many passed. What
the suite is worth depends on its own code: a test must pass when, and only
when, every step of its scenario succeeded on that agent, one test must not
disturb the next, a hanging or trapping kernel must not end the run, and the
totals must be those of the tests. This project models that code.

Paths below are relative to `src/src/`.

## 1. Inventory

| component | state | operations | interacts with |
|---|---|---|---|
| HSA runtime context (`hexl/hexl_hsaruntime/HsailRuntime.cpp`, `HsailRuntimeContext`) | `queue`, `queueError`, `queueSize`, agent, regions, `context` of the last test | `Init`, `NewState`, `QueueInit`, `QueueDestroy`, `QueueNoError`, `QueueError`, `Dispose` | the agent's packet processor and the runtime's callback thread, both concurrent with the host |
| Runtime state of a test (same file, `HsailRuntimeContextState`) | keys of the objects it put in the context, host threads | create/destroy of programs, code objects, executables, buffers, images, samplers, queues, signals, dispatches; `DispatchArg`, `DispatchExecute`, `SignalSend`, `SignalWait`, validation | the runtime context, the test's `Context` |
| Scenario (`hexl/hexl_base/Scenario.cpp`, `RuntimeContext.cpp`) | command sequences, `StartThreadCommand` (thread, result), `HostThreads` (threads, results) | `Execute`, `Finish`, `StartThread`, `WaitThreads`, `ScenarioTest::Run` | runtime state, up to two host threads |
| Context (`hexl/hexl_base/HexlContext.*`, `HexlObjects.*`) | a map from keys to objects, a parent | `Put`, `Move`, `Get`, `Has`, `Delete` | every command of every host thread, without a lock |
| Test runner (`hexl/hexl_base/HexlTestRunner.cpp`, `Stats.hpp`, `hsail_conformance/exe/HsailConformanceRunner.cpp`, `hexl/hexl_exe/HexlRunner.cpp`) | statistics of the group and of the run, current path | `RunTests`, `BeforeTest`, `AfterTest`, `RunTest`, exit codes | tests, their status |
| Test selection (`hexl/hexl_base/HexlTest.*`, `HexlTestList.cpp`, `hsail_conformance/exe`) | sets, unions and filters of tests | `Iterate`, `Matches`, prefix and exclude filters | test factories |
| Arena, grid, values (`hexl/hexl_base/Arena.*`, `Grid.*`, `MObject.*`) | blocks and offsets; ids of work-items; typed values | `Malloc`, `Grow`; id arithmetic; comparison with precision | emitter, validation |
| Emitter (`hexl/hexl_emitter`) | the HSAIL program being built, its variables, buffers, dispatches | emission of code, `EmittedTest::Scenario` (the order of the commands of a test) | BRIG tools |
| Core tests (`hsail_conformance/core`), image tests (`hsail_conformance/image`) | parameters of a test | the kernel of each test and the expected results; signals, barriers, atomics, memory model, user mode queues are concurrent programs of their own | emitter |
| User mode queues of tests (`core/UserModeQueueTests.cpp`, `EUserModeQueue`) | the queue of a test, its indices | create, load, store, add, cas of indices | runtime state, emitter |
| Test generator (`libTestGen`, `hexl/hexl_HSAILTestGen`) | descriptions of instructions, test data | enumeration of combinations of operands; an emulator of HSAIL instructions | emitter |

Hard behaviours: the host, the packet processor and the callback thread run
concurrently and share a queue, signals and kernarg blocks; kernels hang, trap
and complete late; each call to the runtime may fail in the middle of an
operation; handles are reused after they are freed; host threads of a scenario
share the context; the run survives all of it, test after test.

What makes each part right: the queue promises a test that the verdict of a
dispatch is about its own kernel, and that one test's failure is repaired
before the next; a scenario that passed has executed each command of each thread;
a run counts every test once; an allocator never hands out the same bytes twice.

## 2. Plan

Modules in the order of their importance to what the suite is worth.

| order | modules | what they model | abstract specification / composition |
|---|---|---|---|
| 1 | `HsailQueue` | the shared queue, dispatches, packet processor, error callback | - |
| 2 | `TestVerdict`, `ScenarioThreads` | execution of a scenario on two host threads, the verdict | `ScenarioThreads` implements `TestVerdict`; a dispatch is one step whose detail is `HsailQueue` |
| 3 | `TestSelection` | which tests a run consists of | reference definition: filtering the full list of names |
| 4 | `TestRun` | statistics, log and summary of a run | the summary against the log |
| 5 | `MModelKernel` | kernels of the memory model tests on a memory with delayed writes | "a conforming agent passes" over the parameters of the tests |
| 6 | `KernelCode`, `BarrierKernels`, `AtomicKernels`, `WaitingKernels`, composed in `KernelExecution` | kernels of the barrier, fbarrier, atomicity, fence, execution model and identity tests, in every interleaving | as 5: the expected results of the host |
| 7 | `RuntimeObjects` | what a test creates and gives back, with every call failing | a scenario of `ScenarioThreads`, one thread, with the objects in detail |
| 8 | `IntegerEmulator`, `BitEmulator`, `FpArithmetic`, `FpEmulator`, `Emulator` | the emulator of HSAIL instructions | exact arithmetic on integers and rationals |
| 9 | `TestGeneration`, `TestArrays` | forms, combinations and groups of tests; where their data lie | the set of valid combinations; disjoint places |
| 10 | `Values`, `Arena` | typed values, their comparison, memory of the emitter | the order of numbers; disjoint blocks |
| 11 | `Images`, `ImageLimits` | what image tests expect | loading undoes storing; what an agent must support |
| 12 | `Grids`, `Branches`, `WorkItemTests` | identifiers, conditions, and tests of both | the place of a work-item in its grid |
| 13 | `EmittedTests`, `FunctionTests`, `LimitsTests`, `LinkageTests` | containers, arguments, calls, initializers, linkage, limits | an agent that runs the emitted code |
| 14 | `CoreConfig`, `AddressTests`, `UserModeQueueTests`, `DirectiveTests` | the configurations; conversions of addresses; indices of queues; modules with directives | as 13 |

`MCAlgorithms` extends 3 and 8 to 14 for TLC: they compute and keep no state of their own.
The proofs are in modules of their own, `..._proofs`, with the induction and division they share in `NaturalNumbers` (section 16).

What is left. Worth proving next: what `KernelExecution` checks of the tests that section 16 leaves to TLC.
Worth modelling next: the rest of the
tests of miscellaneous operations (clocks, base pointers), queries of images, kernels that
enqueue (commented out in the source today).

## 3. The queue: `HsailQueue`

`hexl/hexl_hsaruntime/HsailRuntime.cpp`. One queue serves all tests of a run.
Three parties act on it: the host thread, the packet processor (*external*), and the
thread that calls the error callback (*external*).

| variable | code |
|---|---|
| `pc` | the place of the host thread: between tests, in a scenario, inside `QueueNoError`, `DispatchCreate`, `DispatchExecute`, in the destructor of the state |
| `queue`, `gen` | `HsailRuntimeContext::queue`; every `hsa_queue_create` makes a new generation, 0 is the null pointer |
| `queueError` | the volatile flag `HsailRuntimeContext::queueError` |
| `state` | the queue on the agent's side: active, an error whose callback is due, an error reported |
| `writeIndex`, `readIndex`, `doorbell`, `ring` | indices, doorbell signal and packets of the queue; a packet is its header (valid or not), its dispatch, completion signal and kernarg address |
| `live` | the `HsailDispatch` objects in the context of the test |
| `sigAlloc`, `sigVal`, `argAlloc`, `argData` | signals and kernarg blocks: which handles are allocated, and what they contain. A freed handle may be handed out again |
| `lost` | a history variable: packets the host has given up on |

| action | code |
|---|---|
| `NewState`, `EndScenario`, `EndTest`, `Dispose` | creation and destruction of `HsailRuntimeContextState`; `HsailRuntimeContext::Dispose` |
| `QueueNoErrorCheck`, `QueueNoErrorClear` | `QueueNoError`, two steps because the callback may come between the test of the flag and its reset |
| `ReservePacket`, `FillPacket`, `FillPacketFails` | `DispatchCreate`: the write index is taken first; each later call may fail |
| `DispatchArg` | arguments written to the kernarg block |
| `Publish` | the header with release, then the doorbell |
| `WaitDone`, `WaitError`, `WaitTimeout` | the loop of `DispatchExecute` and what follows it |
| `DispatchDestroy` | `HsailDispatch`'s destructor, newest object first |
| `PacketCompletes`, `PacketFails` | the agent: packets in order, because each header has the barrier bit; a kernel that traps puts the queue in its error state |
| `QueueError` | `HsaQueueErrorCallback`, which only notes the error |

A kernel that hangs is a packet the agent does not complete: nothing forces it to.

The condition `Intact` says that nothing of the current queue was given up: no
`DispatchCreate` failed after it had taken a write index, no execution timed out.
Under `Intact` the tests get what they need: a completion or an error is due to
the test's own kernel (`CompletionIsOwn`, `ErrorIsOwn`), an error is remembered until the
queue is replaced (`ReportedIsFlagged`) and arrives while the test's
context exists (`CallbackInTest`), packets are complete before they are visible
(`NotLaunchedEarly`) and keep their arguments until they complete
(`KernargOfOwner`). Without the condition: pointers into the ring never
dangle (`PacketPointerValid`), everything unfinished is lost or in hand
(`BacklogIsLost`: that is why the write index need not be compared with
the read index as long as nothing is lost), and signals do not leak (`Ownership`).
What the code's comments say without the condition does not hold: see section 17.

## 4. The scenario: `ScenarioThreads` implements `TestVerdict`

`hexl/hexl_base/Scenario.cpp`, `RuntimeContext.cpp`, `HexlContext.hpp`; the scenarios
themselves are those that `EmittedTest::Scenario` (`hexl/hexl_emitter/Emitter.cpp`),
`core/SignalTests.cpp`, `core/ExceptionsTests.cpp` and the image tests build.

`TestVerdict` is the promise of `docs/HsaPrmConformance.md`: a test is passed if all
steps of its scenario are successful. `ScenarioThreads` has the main thread
(`phase`: run, join, finish, ...), two host threads (`at`, `ip`), the kernel, the
signal, and the three places results travel through: `HostThreads::results`
(`hostResult`), `StartThreadCommand::result` (`cmdResult`, uninitialised, so any value at
first) and `Scenario::Execute`'s local (`result`); `status` is the entry
`TEST_STATUS_KEY` of the context. Commands are abstracted to what they do: put an object
in the context, look one up, create the signal, ask for a feature, start the thread,
dispatch, send, wait. An insertion takes two steps, because lookups of the other
thread may come in the middle.

The refinement maps a pair (thread, number of the command) to a step and the commands
a thread has passed to those that succeeded; `Verdict!Spec` is checked as a property
and proved. It says both directions at once: a test that passed executed every
command of every thread, and a test of which all commands succeeded is not failed.
An uninitialised `cmdResult` makes the second direction worth a check:
`Finish` reads it also when the command was never executed, which is harmless only
because thread 0 has failed then.

`ConformingPasses` is the liveness of a good agent: under the fairness of its kernels
(`KernelsRun`) a test on which nothing fails passes, whatever the order in
which the threads and the kernel get to the signal.

## 5. Selection and report: `TestSelection`, `TestRun`

`TestSelection` (`hexl/hexl_base/HexlTest.*`, `exe/HsailConformanceRunner.cpp`) has the test
sets as records (union, basic, filtered, empty), the two ways to filter them and
their iteration as recursive operators, and the three steps of
`CreateTestSet`, `Exclude` and `RunTests`. Names are sequences of characters: where a
pattern ends inside a name is what the code is about. `TestsSelected` says that a
pattern that names a category selects all of it, that `-exclude` leaves out exactly
what the same filter would select, and that filters compose.

`TestRun` (`hexl/hexl_base/HexlTestRunner.cpp`, `Stats.hpp`) has one action for each of
`BeforeTestSet`, `RunTestSpec`, `BeforeTest`, `ExecuteTest`, `AfterTest`, `AfterTestSet`, with
the log and the summary as sequences of entries. Texts, times and dumps are left out.
`SummaryMatchesLog` recounts the log; `OwnOutput` says that the log shows each test that did
not pass its own output, all of it, and no other's.

## 6. The memory model tests: `MModelKernel`

`core/MModelTests.cpp` (as compiled, with `QUICK_TEST`) and `core/AtomicTestHelper.hpp`. The source
emits a kernel; the module is what the work-items of that kernel do, and what the
constructor and `IsValid` make of the parameters (`test`).

| part | code |
|---|---|
| `Kind`, `Delta`, `TestSize`, `ReadItem` | `SetTestKind` and which work-item reads from which one (`ArrayIndex`) |
| `ShuffleOp`, `WriteOp`, `ShuffleLdOrder`, `WriteFence`, `ReadFence`, `IsValid` | how operations, orders and fences follow from the parameters |
| `InitialVal`, `ExpectedVal`, `AtomicResult` | the classes `MModelTestProp...` |
| `StartGroup` ... `InitBarrier` | a group begins; arrays in the group segment are initialised |
| `HbWrite`, `SyncWrite` | HB-W, F-W, SYNC-W |
| `Attempt`, `LastAttempt` | `CheckResult`, in two steps: SYNC-R, then F-R and HB-R |
| `EndLoop`, `CheckPrevWg` | the bounded loop of the in-group kinds, the wait for the previous group |
| `FenceBeforeBarrier`, `Barrier` | the barrier before the last attempt, with its fences |

The agent is external and as weak as the test lets it be. A write is delayed in `pending` until
`Drain`; a work-item reads from `cache`, which follows memory only by `Refresh`. A release (an
operation or a fence) waits for the earlier writes of its work-item, and a releasing
write is seen at once; an acquire renews the cache. An operation whose
scope does not reach the other work-item orders nothing. That a releasing write is seen at
once is stronger than what an agent must do, so `GroupPasses` is about agents that do not
reorder a releasing write with a barrier, as the code's own comment on its fences assumes.
HB-W is always delayed and HB-R reads the cache: they are taken for relaxed whatever their
order is.

`HappensBefore` is what a test checks: who synchronised, saw the data. `SyncedAfterWrite` is what
makes that a check: the flag is not found by accident. `GroupPasses` says that
the tests of a wave and of a work-group cannot fail on such an agent. It does not hold between
groups (section 17). The three except elements that the write does not change
(`Unchanged`): a flag that is found without having been written proves nothing, and in
one case makes a conforming agent fail (`EmptyFlag`, `DataSeen` in section 17). `LoopAssumption`,
`TestsAssumption` and `IndexAssumption` say what the enumeration of `MModelTests` guarantees of the
parameters: grids of whole work-groups, operations `ShuffleOp` knows, indices too small to
reach the bits that `and` clears or the operand of `wrapinc`. `KernelEnds` is that the bounded loop and the order of the groups are enough.

## 7. The kernels of barriers, atomics and fences: `KernelExecution`

`core/BarrierTests.cpp`, `core/AtomicTests.cpp`, `core/MemoryFenceTests.cpp`, `core/ExecModelTests.cpp`,
and the tests of `core/MiscOperationsTests.cpp` that compare cuid, waveid and their maxima among work-items (also `WaitingKernels`).
The modules of kernels write what the emitter emits for one work-item in the
vocabulary of `KernelCode`: branches on identifiers are resolved, loops of a known count
unrolled. Each also has the host's side: `IsValid` and the expected results.
`KernelExecution` is the agent (*external*): work-items in every interleaving, a
barrier one step of its group, an operation on an fbarrier one step of a wavefront.

| variable | meaning |
|---|---|
| `case` | the test and its geometry |
| `pc`, `regs` | of each work-item |
| `mem` | variables and buffers; what nobody stored is `Undef` |
| `fbar` | of each group and fbarrier: whether it is initialised, its members, who arrived, who waits |
| `undef` | an operation on an fbarrier had no defined behaviour |

Memory is sequentially consistent: what orders and scopes leave to it is the
subject of `MModelKernel`. Each instruction of a work-item is a step of its own (`Load`, `Store`, `DoAtomic`,
`LeaveLoop`, and those of fbarriers). `NoRace` is the requirement that the memory model makes of the
tests themselves: no two work-items can at the same time access a location, one of them changing it
and one of them not atomically. The last wavefront of a fence test stores the same value from each of its
work-items, and again after another has set the flag; `NoRace` counts a store of what memory holds as no
change. `ResultsExpected` says that a conforming agent passes, `FbarriersDefined` that the tests keep to the rules of fbarriers,
`Ends` that no work-item waits for ever.

Left to the reader of the code: the geometries are of one dimension. In
`AtomicKernels`, and, or and xor on the group segment are there where the grid fits the width of
the value. The tests of flat atomics are made twice under one name, because
`mapFlat2Group` is ignored for other segments. An fbarrier test hard-codes 64 as
wavesize (`BarrierTests.cpp:1012`); a memory fence test on a grid smaller than a wavefront never ends.
The last wavefront of a fence test sets the flag on which all earlier ones spin, so it relies on
groups that progress although earlier ones do not end: the opposite order of the one
that `ExecModelTests.cpp:27-31` relies on. The model lets all groups be resident.

## 8. The objects of a test: `RuntimeObjects`

`hexl/hexl_hsaruntime/HsailRuntime.cpp`, with `Context` (`hexl/hexl_base/HexlContext.*`) and the
order of commands of `EmittedTest::Scenario`. A handle is its kind, the test that made it and
the handles that it needs; `heap` are those that exist, `context` and `keys` what
the test owns, newest last. Every command of a kernel with any resources (`Resources`) is
an action, and every call of the runtime may fail, at every call site: the code before it
is done, the code after it is not.

`GivenBackOnce`: no handle is freed twice or owned by two keys, none that is owned is gone,
and none is the runtime's queue. `UsersGoFirst`: what a handle was made from outlives it.
`LosesOneBlock`: a test that does not fail loses nothing; one that fails loses at
most one block. It may lose one: the memory of an image when `hsa_ext_image_create` is out of
resources (`HsailRuntime.cpp:608`), or the kernarg block when `DispatchCreate` fails.
`AssertionsHold`: every command finds the objects it looks up, and `QueueDestroy` the queue it
asserts, unless the last test failed: `Dispose` does fail its assertion if the restart
of the queue failed in the last test.

## 9. The emulator and the test generator

`libTestGen`. Expected results of generated tests come from an emulator of HSAIL,
written with C++ types. Its templates become operators of a type (bits, sign,
and the rank that decides whether C++ promotes it) or of a format (bits of
mantissa and exponent), so that TLC takes every value of small ones.

| module | source | compared with |
|---|---|---|
| `IntegerEmulator` | `HSAILTestGenEmulator.cpp`, integer operations | the exact result, cut to its low bits or to the range |
| `BitEmulator` | bit operations, packed values (`HSAILTestGenVal.cpp`) | bit by bit and element by element |
| `FpArithmetic` | `HSAILTestGenEmulatorTypes.*`: add, mul, fma with guard bits | the exact rational, rounded once |
| `FpEmulator` | `HSAILTestGenFpEmulator.cpp`: comparison, rint, conversions, flushing | the same |
| `Emulator` | how a destination's value is put together from these | packed and unpacked operations agree |
| `TestGeneration` | `TestGen`, `TestDataProvider`, `TestDataFactory` | the set of valid combinations, each once |
| `TestArrays` | `HSAILTestGenBackendEml.h`, `HexlTestGen.cpp` | disjoint, aligned places that fit into the segment |

Undefined C++ (an `int` that overflows, a `rint` of a negative number put into an
unsigned type) is the value `Undef` (a division that stops the machine is `Trap`), or is excluded by `HasNoOverflow`, which
leaves out the types for which the saturating operations of the code rely on it (`HSAILTestGenEmulator.cpp:601`).
On integers section 16 proves for every width what the run tries with four bits, and for the arrays of `TestArrays` for any
number of tests what it tries with up to three.

## 10. Values, arena, images

`Values` (`MObject.*`): bytes in memory, the halves, every method of comparison, and
the verdict on a buffer. A value passes against itself, no NaN or infinity passes for a
number, and ulps are steps from number to number *of one sign*: for two numbers of
opposite signs `AbsDiffUlps` counts the distance of the bit patterns, unlike what the
comment at `MObject.hpp:919-921` says. Limits apply to the actual value only, where
`MObject.hpp:945` says "expected and actual".

`Arena` (`Arena.cpp`): `Grow` takes `max(size, chunkSize)` without the header. A request beyond
`chunkSize - chunkReserved` that needs a new chunk gets a block that ends behind it (section 16). Blocks are not aligned; `Release` leaves `allocPos` as it
was; `Used` and `Size` have no caller.

`Images` (`EImageCalc` and `EImage` in `hexl/hexl_emitter/Emitter.cpp`, `Utils.cpp`, `image/`): layout of
texels, channels, formats that a geometry may have, coordinates, filters. `TexelsKept` is
that a store followed by a load is the identity, in all formats but two: 565 stores green one
bit higher (`Emitter.cpp:2727`) than it loads it, and the halves of a 32-bit RGBA
texel are swapped between `Pack` and `GetRawChannelData`. The tests do not see it, for they
store one value in all channels; the property says that too. Stores
truncate where the specification rounds. Mirrored addressing is wrong for fractions below -1, which no test
has. Array layers above 0 are never read. All texels of a test's image have one value.

`ImageLimits` (`image/ImageLimitsTests.cpp`): the largest image, and as many handles as an agent must
have. The agent may lack one thing, and the property tells which lacks the
test sees: with read-only and read-write images only the last image's load is in the
result; write-only images are never read back; the combined test compares channel 0 only.

## 11. Work-items, branches, functions, limits, linkage

`Grids` (`Grid.*`) has the host's identifiers and iterators. `Branches` has `ECondition`, the emitter's calls and
an interpreter of the labels and branches they leave; `WorkItemTests` the tests of identifiers and
cross-lane operations. `WorkItemsFound` compares each with the place of the work-item; for the identifiers and the iterator section 16 proves it for every geometry.
`Point(workgroupflatid, workitemflatid)` is wrong in two and three dimensions and has no caller, nor
has `WorkgroupIterator`. Loops over a `uint16_t` end only for grids below 65536; the boundary test
underflows for grids below 128; the group memory test needs a grid of at least a group.

`EmittedTests` has the containers of `EmittedTest`: what each member declares in the module, the kernel or the
function, adds to the scenario, and passes at the dispatch. `ArgumentsFound` is that the runtime's
count of bytes agrees with the finalizer's (`HsailRuntime.cpp:846`), that commands find
what they look up, and that every buffer of results is validated. `FunctionTests`, `LinkageTests` and
`LimitsTests` run the emitted code against the expected results (`KernelsReturn`). Of limits, the
property is that a test *fails* an agent that lacks something, except where the code
compares nothing: 128-bit registers (the `q` test), and live registers.

Modelled as it is, and worth knowing: the flags of `FunctionArguments` for vector
instructions reach no instruction (`FunctionsTests.cpp:35-58`); `FunctionLinkageVariableTest` calls the
second function before it stores; `IsValidAt` looks at `location`, not at `RealLocation`, so variables that
are global by default are never valid; the data of variables are released at the first `SetupDispatch`; the
container of a module gets no `ScenarioInit`; a buffer of module or kernel type adds a dispatch argument
that it does not declare; two separate queues would have one name; kernarg variables
without data pass nothing.

## 12. Configurations, addresses, queues, directives

`CoreConfig` (`core/CoreConfig.cpp`): the sets of geometries for each size of wavefronts, and
the atomic operations. `TestsConfigured` is that a set suits the tests that
rely on it (one group, even wavefronts, identifiers beyond 24 bits) and that every operation is tested. `AddressTests` and
`UserModeQueueTests` (`core/AddressTests.cpp`, `core/UserModeQueueTests.cpp`): kernels against an agent
that maps segments anywhere, and a queue that starts at any index. Only loads tell where indices begin: comparisons
`>= 0` of unsigned values always hold. One store test writes 1 over the first eight bytes of
the queue object and checks its own register. A private address is checked for identity only, and all
work-items store one datum, so an agent that shares private memory is not told.

`DirectiveTests` (`core/DirectiveTests.cpp`, `EmittedTest::Module` and what it calls) has the module of a
test with one kernel as the sequence of the calls that write it, and the emitter's state while it does: the next
register of each kind, which `StartBody` resets, and the registers it keeps (`WorkitemFlatAbsId`,
`EBuffer::Address`). `KernelsReturn` is that the module parses, calls and names what is defined before, has its directive
where the test says, reads no register that its body has not written, and still returns what the
host expects. It takes every test of the directory on the default geometry, and runs the first work-item and the last two of
its 525: the boundary test stores from the last alone.

## 13. Runs

| run | bounds | shows |
|---|---|---|
| `queue_safety` | ring of 2, 3 tests of up to 2 dispatches, 2 signals, 2 kernarg blocks | the safety properties of section 3, the inductive invariant `Inv`, and `RunEnds` |
| `scenario_safety` | all scenario shapes, every failure, racing lookups may miss, `FairSpec` | `VerdictIsEarned` (refinement), `JoinedWhenJudged`, `SignalOutlivesUsers`, `Inv`, `TestEnds`, `ConformingPasses` |
| `run_report` | up to 4 specs, 2 paths or none, every status, with and without `-verbose` | `SummaryMatchesLog`, `OwnOutput` |
| `kernel` | one wave of 2 with every operation; 3 waves of 1 in a group; 2 groups of 2 with flags in the group segment; 3 groups of 1, two of them resident; `MaxLoop` 2 | `HappensBefore`, `SyncedAfterWrite`, `GroupPasses`, `KernelEnds` |
| `objects` | 2 tests with a buffer, an image and its import, a sampler, a signal, a queue; 3 lists of regions; both profiles | section 8 |
| `kernels` | up to 8 work-items in wavefronts of 1 to 4 and up to 3 groups; `ITERATION_NUMBER`, `LOOP_COUNT`, `DATA_ITEM_COUNT` 2; flags start as `Undef` | section 7 |
| `algorithms` | below | sections 5 and 9 to 12 |
| `queue_NotedErrorRestarts`, `kernel_LastAttempt`, `kernel_DataSeen`, `kernels_Overtaken`, `algorithms_TestValuesConverted` | as above; 2 tests in the first | the disagreements of section 17 |

`algorithms` takes one input in each behaviour. Integers have 4 bits (6 for products of packed elements,
which have 3), floats 2 bits of mantissa and 3 of exponent in a carrier of 9 (the format that plays
float to these halves: 7 and 4, in 30), compared values 2 and 2; instructions have 2 or 3
properties of 2 or 3 values, tests 3 operands of up to 2 values, groups up to 3 by
3; chunks of the arena hold 8 bytes, of which 2 are the header, and take up to 4 requests;
channels of 8, 16, 24 and 32 bits are 3, 4, 6 and 10 wide, images up to 3 texels a side;
grids have up to 12 points and waves 2 or 4 lanes; containers hold up to 4 things;
wavesizes are the powers of 2 up to 256. `HOST_BRANCHES` (16 in the code) is 4,
`WORD_BITS` (64) is 2, `LIMIT` (128 or 64 images, 16 samplers) is 6 or 4, `limitValue` (100) is 5.
The tree of names has names that begin alike, a section in two suites and slashes at each level.

Why the bounds are enough. A ring of 2 wraps at the third packet and is full at the
second; two dispatches of one test hold two signals and two blocks at the same
time, and the next test must reuse handles. Three tests are one that leaves something
behind, one that meets it, and one after the repair. More would repeat these: the
host holds one packet at a time, and the proofs of section 16 do not depend on any bound.
The scenarios are the shapes the emitter produces, and no test starts more than one
thread. Four specs are two groups that alternate. The grids of `kernel` are
scaled down with the kind of each test kept (`WavesPerGroup`, 4 in the code, is 3 and
values have 2 bits): work-items only deal with one other each, two attempts are
one that may fail and one more, and three groups are one that waits for nobody, one that waits, and one
that may not have been started while the others run. The same holds of `kernels`: a
second iteration is the first one that meets what an earlier one left, and its
grids have one wavefront, several, several groups and a partial group, as `CoreConfig` has. In `objects`
the second test meets what the first one left, and the six resources
include one of each kind that takes another. The small formats of `algorithms` have
subnormals, ties, numbers that round up to the next exponent, infinities and
both kinds of NaN; the operations of the code depend on widths only through their parameters, and the
words are wide enough for each shift and mask of the code to cut something off.

## 14. Fairness

`RunEnds` has two parts, each with the fairness that it needs, and the specification of the
run has none. The first assumes only `HostRuns`, that the host thread is scheduled
(`WF_vars(Host)`, which includes the timeout): the loop of `DispatchExecute` is active, so the
host's processor time advances and the timeout comes. Kernels and callbacks are not fair. For
the second it is the other way round (`AgentKeepsUp`): the agent finishes packets
and delivers callbacks, as `hsa.h` promises of a working agent, and the timeout is *not*
fair, so that the wait on an intact queue must end without it.

`TestEnds` assumes that the operating system schedules the host threads; `Thread(t)`
includes the timeouts of `SignalWait` and `DispatchExecute`. `ConformingPasses` adds
that kernels take their steps, and is about the behaviours without failures (`conforms`): there, timeouts
do not expire while an agent makes progress (the model has no clock).

`KernelEnds` assumes that the agent starts a group when there is room for it, that each
group makes progress and that writes become visible. It assumes nothing of the
work-items of a group: one may run and keep the others waiting, which is why the code
bounds the loop (`MAX_LOOP`). `Ends` (`KernelExecution`) assumes only that some
work-item that can take a step does: a work-item that spins takes no step until the value it waits for is
there, so that `Ends` fails when all that are left spin or wait. That is freedom from
deadlock under a scheduler that lets every group progress, and what the fence tests need.

A process that has ended is `Terminated` or `Ended`, a stuttering step, so deadlock is
checked in the queue, scenario and memory model runs; the other models simply stop.

## 15. Hazards without a property

Section "hazards" of `PROJECT.json` lists what a test would hardly reach, each with the
properties about it. Some that are real have no place there, for they are out of the reach of these
models: the map of `HexlContext.hpp:77` is not locked (`ScenarioThreads` lets a racing lookup miss, but
a `std::map` may do worse); the clock of `SignalWait` starts before the program is finalized
(`HsailRuntime.cpp:942`); the exit code of `hexl` comes from statistics nobody increments
(`HexlRunner.cpp:213`); `TestPropFactory` hands out one shared object per operation, stale if two tests of an
operation were alive at once; `nextPrimarySet` loops without end if no first value is valid
(`FirstServes` is the precondition in `TestGeneration`).

## 16. Proofs

All proofs are of the specifications as checked, for every value of the constants
that the named assumptions allow: `SizeAssumption`, `HandleAssumption`,
`BoundAssumption` of `HsailQueue` (a ring of at least one packet, null handles
that are not handles, natural bounds), `ScriptAssumption` of
`ScenarioThreads` (thread 1 has commands only if thread 0 starts it, once), `ResourceAssumption` of
`RuntimeObjects` (commands that exist), its `KeysAssumption` (a kernel has the result buffer
`output`, and an image is created before it is imported), `BoundAssumption` and `PathAssumption` of `TestRun`, `ArenaAssumption` of `Arena`,
`LoopAssumption`, `TestsAssumption` and `IndexAssumption` of `MModelKernel` (section 6), `CasesAssumption` of `KernelExecution`
(groups, work-items and wavefronts are at least one, and the last group is not larger than the others), `NumbersAssumption` of `BarrierKernels` (the constants of the
classes that count iterations are at least one), `NoResultAssumption` of
`IntegerEmulator` (what stands for an undefined result or a trap is no number).

`HsailQueue_proofs`. None of the properties of section 3 is inductive: that a completion
signal at 0 is the own kernel's depends on the ring containing no other valid packet with
the same signal, which depends on how far the processor is. `Inv` adds what
the host holds (`HeldDispatch`), that the processor is at the packet the host holds or has
caught up (`InStep`), and that only that packet is valid and that its signal tells
its progress (`RingClean`), the last two under `Intact`. `Invariance` proves
`Spec => []Inv`, with one lemma for each action; the other theorems follow from `Inv`:
`TypeCorrect`, `PacketPointers`, `Backlog`, `LaunchedInTime`, `Completion`, `Errors`,
`Arguments`, `OwnershipHolds`; `DoorbellMoves` is the action property, from `Inv` as well.

`ScenarioThreads_proofs`. `Inv` says where the threads are (`InStep`), that a thread that has
ended tells whether it executed all of its commands (`Told`), and what the main
thread has collected in each phase (`Collected`). `Invariance` proves it,
`NoThreadLeft` follows. `Refinement` proves `Spec => Verdict!Spec`: initial states map to
initial states, and under `Inv` each step maps to `Succeed`, `Decide` or a stutter.
`SignalLives` is `SignalOutlivesUsers` for every set of scenarios in which
the signal is created before the thread is started; its own invariant extends `Inv`.

`RuntimeObjects_proofs`. `GivenBackOnce` is not inductive: a handle is not freed twice
because no id is used twice and no handle is in two places, which `Data` says of a
context, a heap, a queue and the next id. `Data` is a predicate of values, not of
variables, so that its lemmas (`Placed`, `Requeued`, `GivenBack`, `Forgotten`, `NewHandles`) serve the middle of
an action that does several things, such as a restart inside `DispatchCreate`. `Inv` adds
that a test that still runs commands has not failed, `LosesOneBlock` itself, and that what nothing owns
was made from nothing. `GivenBackOnceHolds` and
`LosesOneBlockHolds` are for every kernel, list of regions and number of tests.

`UsersGoFirstHolds` and `AssertionsHoldHolds` need the order of the commands. `ScenarioIs` says what
the command of each number is, for every list of resources (that the arguments of
`DispatchArg` are keys of resources is by induction, `ArgumentsAre`), and `ScenarioOrder` what follows: a command gets only
what was made before; what an object is made from is not made again; `ExecutableLoadCode` and
`DispatchArg` add to the object made last. With it `Order` is inductive together with `Inv`: each handle that a part of
an object was made from is a later part of the same object, or a part of an object whose key
comes earlier in `keys` for good (`After`) and that no command still to come replaces (`Coming`). Deleting the last
key then frees nothing that another object uses (`OrderedGivenBack`, `OrderedForgotten`).
The assertion of `QueueDestroy` holds because a test that ends well has passed `DispatchCreate`,
which leaves a queue.

`TestRun_proofs`. `OwnOutputHolds` for every list of specs: `StreamInv` says what the shared stream holds
in each phase, `Owns` is `OwnOutput` of any log, and two logs that have it have it when they are
joined (lemma `Joined`). `SummaryMatchesLogHolds`: `Tally` says that under every path the log has as many
verdicts as the lines under it count and, if it is the path of the current group, the group's
statistics do, that the last entry of the summary heads that group, and that a run either has paths
or has none (`Grouped`; this needs `PathAssumption`, that the empty path is none of the others). Sums over
the summary are a recursive function; that one more line adds what it says (`SumOfLonger`) is
by induction (`ByInduction`, from the least number principle of `WellFoundedInduction`).

`MModelKernel_proofs`. `HappensBefore`, `SyncedAfterWrite` and `GroupPasses` for every test that `IsValid` accepts:
any grid, work-group, operation, order, scope and segment, any number of resident groups, any
`MaxLoop`. None is inductive. `Inv` follows an element from its writer to its reader: a write
is delayed only where the fences let it be (`PendingInv`, `MayPend`); what is in memory is the initial
or the expected value, by how far the writer is and whether its write is delayed (`MemInv`); what
a reader sees is one of the two, and the second only if it was written (`CacheInv`); who found the
flag after an acquire sees the data (`SyncInv`); and in a group nobody is behind the last barrier while another is before it
(`LastInv`). `GroupsBegin` makes the arrays of the group segment settled before one is read. Arithmetic
enters twice: a work-item reads from one of its own group (`ReadItemType`, from `SameGroup`), and each
operation turns the initial value of an element into the expected one (`NewValues`); every action has its lemma
`...Keeps`. The proof led to `EmptyFlag`: without it `SyncInv` is not inductive, and the
counterexample is a defect of the tests.

`KernelExecution_proofs`. A program is data in `KernelExecution`, so each of these proofs begins with what the program is: the list of
its instructions (`ArrayProgram`, `FenceProgram`, `CompoundProgram`, `BarrierProgram`, from `Code3` to `Code6`, which say that
instructions put together one by one are their list), and what each of them does to `pc`, `regs` and `mem` (`Loads`, `Stores`, `Fetches`,
`LeavesLoop`, `Gathers` of a barrier). The invariant `TestsInv` has a part for each test.

*Fences.* `FencesExpected` and `FencesRaceFree` are `ResultsExpected` and `NoRace` of the three tests of memory fences, in every
geometry and pair of segments in which `IsValid` makes them, if no flag starts with a value that is
waited for (`FlagIsAwaited`; without it both are false, section 17). `FenceInv` and `CompoundInv`: once one work-item of the last
wavefront is past its store, memory holds its value for good, because the others store the same; the flag is 1 only
then; so who has left the loop loads that value. `ArrayInv`: a work-item is past its loop only if its
opposite one has stored data and flag.

*Barriers.* `BarrierCounts` and `BarrierRaceFree`: `BarrierTest` with add, sub, max, min, wrapinc and wrapdec, for one full
work-group of any number of work-items and wavefronts, or several where the variable is in the group segment (`BarrierIsFull`: the geometries of
`CoreConfig` have one full group, and a variable in the group segment needs a work-item 1). The programs differ in
length, since one work-item stores the first value: `Stage` is the place in the longest one. `BarrierInv`: the work-items of
a group are never on two sides of a barrier; between the barriers the variable has the value that `Counted` gives for the set of
work-items that are done, whatever their order. `CountsOn` is the step of that argument (one more work-item), `CountsAll`
its end: after all of them the value is what `ExpectedResult` computes.

*Fbarriers.* `FbarriersUsed`, `FbarriersRaceFree` and `FbarriersExpected` are the three invariants of the run for the tests in which every
wavefront takes the same part (`FBarrierBasicTest`, `LdfTest`, `FBarrierWaitRaceTest`, `FBarrierJoinLeaveTest`, `FBarrierJoinLeaveJoinTest`), with any number of
groups, work-items, wavefronts and iterations. Each program is one list of stages, `ListInStep`: the first
work-item's `initfbar` and `releasefbar` are stages that the others skip, and an unrolled loop is as many stages as it has
passes (`RepeatedIs`, by induction). Of each stage three things are known: in which part of the program it is (`Phase`), whether the wavefront is
a member (`Joined`), how often it has arrived (`Rounds`). `InStepInv` relates them to the fbarrier of each group (`GroupIs`):
its work-items are in the same part; the fbarrier is initialised while the first work-item is between the two stages; members
are the wavefronts whose stage says so; all have arrived equally often, once more those that have arrived now; those wait
or stand at a barrier, and some member has not arrived. The last conjunct is what makes an arrival defined: nobody is left over from
a round that is complete. One lemma for each kind of step: `GroupRuns`, `GroupGathers` (a barrier), `GroupOnFbarrier`.

In `FBarrierBasicTest` an even wavefront overwrites what the next one has stored. `BasicInv`: once the
even one has stored both values, they stay, because the odd one is past its own store; `WaitedFor` draws that from
`GroupIs`: who is past its wait is in the second round, and so is everybody in the group. The geometry is `EvenWaves`, what `IsValid` and the assertion
in `Init` leave: only there has every even wavefront a next one in its group (`WaveAfter`).

`Algorithms_proofs`. First, where things lie, for every size. Three parts:

*Grids*, for every geometry whose unused dimensions have one work-item, as `Grid.cpp` makes them, with groups of any size, larger
than the grid or not dividing it too. The flat identifiers number a box of places without gaps in the order of z, y, x
(`FlatFound`, `FlatReached`, `FlatOrder`). So each work-item has a result of its own, which `Point` finds (`ResultsApart`);
the iterator visits each once and in order (`VisitsAllHolds`, of any list that follows `Advance`; that `GridPoints`, a fold, is
one stays with TLC); the identifier in a group, partial or not, counts the work-items before it (`RankIs`, by a
bijection, from what `PlaceInGroup` says of one dimension); and indices of
wavefronts are unique and below the length of the arrays they index (`WavesDistinctHolds`, which is `WavesDistinctOn` for
every size of wavefronts). That the last rests on `MaxWaveNumInWorkgroup` being rounded up shows in the lemma `RoundedUp`.

*Arrays of the test generator*, for every load, store and atomic, and any number of tests and work-items. A bundle is a
multiple of twice the alignment (`LoadIs`, the one place where types and alignments are tried one by one), so every test has
memory of its own inside the array, aligned as asked and not better (`BundlesFitHolds`), which the kernel fills with and empties to
what the host has, byte by byte (`ValuesFoundHolds`): together `ArraysFitHolds`. `LimitHolds`: the tests `getMaxTotalTestNum` allows fit into the
segment of any agent. For the group segment this is tight: the bytes in front of the first bundle are at
most the 256 of `getMaxSegmentOverhead`. For the private one a single test per work-item is the worst case, as the comment in the code
says (`HSAILTestGenBackendEml.h:1367`), and the only one that needs a case of its own. Sizes are integers in the
proof and 32 bits in the code.

*The arena*. `MallocKeepsApart`: for every size of chunks and every request that
fits in a chunk, the blocks stay inside their chunks and apart. `LargeRequestsOverrun`: a request
of the size of a chunk or more ends behind its chunk by the size of the header. The run `algorithms`
checks the same on sequences of requests.

Then the integers of the emulator. What `algorithms` tries with all values of types of four bits, for types
of every width, the 8 to 64 bits of the emulator among them: `ExactHolds` (sum and carry, difference and borrow, the halves of a
product, quotient and remainder, shifts), `SaturatesHolds`, `Mad24Holds`. They rest on three facts: a power
of two doubles with its exponent (`TwoDoubles`; the library says how many subsets a set of `n` elements has, and `2^n` is that number);
quotient and remainder are the only ones (`RemainderIs`, `SumsWrap`); `Val` changes a number by a
multiple of `2^bits` and puts it into the type (`ValWraps`). Three places of the code needed
an argument that a test with chosen values does not give: that a product divided back by one factor gives the other only if
nothing was lost, with the one exception the code names (`DividesBackExactly`: a negative factor and the least value); that the carry
for which `mul64hi` keeps a flag of three values never happens, so that adding the halves loses nothing (`ProductOfHalves`); that a quotient leaves the type only
for the least value and -1, so that `undef_div_rem` is complete (`DivisionHolds`). `HalvesHold` takes an even number of bits where the
product is made of halves (64 in the code), `SaturatesHolds` the types of `HasNoOverflow` (section 9).

Only model-checked: liveness (`RunEnds`, `TestEnds`, `ConformingPasses`, `KernelEnds`, `Ends`), which is
out of the prover's reach; everything
in `algorithms` but the arena, the integers, the grids and the arrays, mostly operators that are recursive or folds, or use `Bitwise`;
of `KernelExecution`, the tests of fbarriers in which wavefronts take different parts (the three examples and the pairs of
operations), the tests of atomicity, of the execution model and of identities, and
`BarrierTest` with and, or and xor, whose words are sums over sets of bits. Each of the former needs
a list of its program and an inductive invariant of its own, which are not written.

## 17. Where the code and what it says disagree

Shown by a run (the comment that is quoted is in "findings" of `PROJECT.json`):

- `NotedErrorRestarts`: an error is noted for the restart in `DispatchCreate`
  (`HsailRuntime.cpp:1080`), but one that is noted while `QueueNoError` runs, by a kernel
  that was given up on, is cleared without a restart.
- `LastAttemptSucceeds`: "Last attempt to synchronize (should always succeed)" (`MModelTests.cpp:1201`). In
  tests of the agent kind the loop ends when the counter of the previous group is full, and
  that counter is relaxed: it may overtake a relaxed SYNC-W, and a conforming agent fails the test.
- `DataSeen`: HB-W "should happen-before HB-R" (`MModelTests.cpp:196`). The flags that sub and cas write have
  an element 0 that they do not change (`MModelTests.cpp:374`, `:474`). When only the flags are in the group
  segment, each work-group has such an element while the index of its data is not 0 in the groups after
  the first: its reader finds the flag at once, may read the data too early, and has
  used up its one result. A conforming agent fails. (Found while proving `HappensBefore`, which excepts these flags by `EmptyFlag`.)
- `kernels_Overtaken`: each work-item of an atomicity test clears its own result first (`AtomicTests.cpp:1003`). With
  three groups another may have set a flag there before, and a conforming agent fails.
- `TestValuesConverted`: the delta that rounds a float to an integer is added with
  rounding (`HSAILTestGenFpEmulator.cpp:251`); values that the generator tests come out one too small.

Met on the way, without a run:

- The flags of the fence tests have no initial value (`MemoryFenceTests.cpp:188`); the item that
  waits for 0 does not wait if memory starts with zeros. `ZeroedCases` of `MCKernelExecution` are the cases
  that violate `ResultsExpected`.
- "Wait for kernel completion" (`HsailRuntime.cpp:881`): a timed-out execution leaves its packet in the
  queue while its signal is destroyed; when the next signal gets the same handle, the old
  kernel completes the new dispatch. `CompletionIsOwn` has the condition `Intact` for it.
- "Value not found" is asserted not to happen (`HexlContext.hpp:93`), but thread 1
  looks up in a map into which thread 0 inserts, without a lock.
- `-tests` is documented as a prefix of the tests to run; a prefix that ends inside the
  name of a suite, chapter or section selects nothing.
- `ShuffleLdScope` (`MModelTests.cpp:683`) lacks `break`s, so that the scope of HB-R is always that of a
  wavefront; and no test has a store as SYNC-W, because `IsValidAtomic` refuses a store that
  returns a value, contrary to the header comment of the file.
- The documentation (`docs/HsaPrmConformance.md:493-499`, `:580-600`, `:620`) names other sets of geometries for
  fence tests, branch tests and cross-lane tests than the code uses; the fence tests take scopes from wavefront to system
  with several groups, and `IsValid` does not look at the scope.
- 128-bit values: `MObject.cpp:555` and `:591` take the halves in opposite orders, both
  "// little endian".
- The comment on XOR in `BarrierTests.cpp:258-273` describes other values than the code has.
- Latent, reached by no test: `DecrementMantAdjustExp` of 1.000, an overflow to infinity in every rounding mode
  (`toProps`).
- In the emitter: `EmitStoreData(src, flat)` passes `flat` as an offset; `EmitInitializer` pushes the four bytes
  of a float for an f16, and for an image reads the first element of a list it never fills;
  `EmitStore` of a directive passes the alignment as equivalence class (`BrigEmitter.cpp:556`);
  `WorkitemFlatAbsId` and `EBuffer::Address` cache a register across bodies, each of which numbers them anew
  (`BrigEmitter.cpp:1605-1612`, `Emitter.cpp:800-815`; no test asks in two); `EmitBarrier` ignores its width.
- `CallCollatz` and `CallIncrement` branch with the width "all" on a condition that differs
  among work-items; the live buffer of the `sdq` test is aligned to 4 while its loads claim 8 and 16.
- `GeometryDirectivesLocationTest` gives `requirenopartialworkgroups` to a grid of 35 by 5 by 3 in groups of 9 by 4 by
  2, which is partial (`DirectiveTests.cpp:448-467`); the tests of dispatch packets leave such grids out
  (`DispatchPacketTests.cpp:73`). An annotation at the module's end is written after `endProgram` (`DirectiveTests.cpp:137-140`).

## 18. Not modelled

- The encoding of instructions in BRIG (registers, operands, directives), a
  sequential translation; the modules model what the emitted code does.
- Tests of miscellaneous operations, but those of the group segment's base with dynamic memory, the identity of cuid and waveid, and
  lane ids; tests of system architecture; image
  query and initializer tests; tests that are commented out in the source (variadic sums, immediate
  calls, enqueueing kernels).
- sRGB (the curve is applied to alpha on a store but not on a load), the rounding of
  normalized coordinates, the native functions of the emulator (sin, log and their like).
- Two and three dimensions, weak memory and types of 32 and 64 bits apart in `KernelExecution`; sets with sides of 2^31 and more; the
  small machine model; the base profile's double precision in `CoreConfig`.
- Texts, dumps, options, files: pure input and output. The `hexl` program, which is not the one
  that runs these tests.
- The HSA runtime and the agent are external and modelled as `HsailRuntime.cpp` and the
  kernels use them. Failing outcomes stand for exhausted resources.
