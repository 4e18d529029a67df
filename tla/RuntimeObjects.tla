--------------------------- MODULE RuntimeObjects ---------------------------
(***************************************************************************)
(* The objects of the HSA runtime that a test makes, owns through its      *)
(* context and destroys when it ends (HsailRuntimeContextState), and the   *)
(* start and the end of the runtime itself (HsailRuntimeContext::Init and  *)
(* Dispose).                                                               *)
(*                                                                         *)
(* Every call of the runtime may fail, at every call site.  What is created*)
(* is a handle: its kind, the test that made it and the handles it was made*)
(* from, which must outlive it.  A handle leaves `heap' when the code      *)
(* destroys it.  The packets themselves are the matter of HsailQueue.      *)
(***************************************************************************)
EXTENDS Integers, Sequences, SequencesExt, FiniteSetsExt

CONSTANTS
    Resources,   \* what the kernel declares: a sequence of [op, key, arg]
    RegionLists, \* the memory regions an agent may have, in its order
    MaxTests     \* bound: tests of the run

ASSUME ResourceAssumption ==
    /\ Resources \in Seq([op : {"BufferCreate", "ImageCreate", "SamplerCreate",
                                "SignalCreate", "QueueCreate", "ImageImport"},
                          key : STRING, arg : BOOLEAN])
    /\ MaxTests \in Nat

\* Every test has a result buffer; an image is created before it is imported.
ASSUME KeysAssumption ==
    /\ \E r \in ToSet(Resources) : r.op = "BufferCreate" /\ r.key = "output"
    /\ \A i \in DOMAIN Resources : Resources[i].op = "ImageImport" =>
          \E j \in 1..(i - 1) : Resources[j].op = "ImageCreate" /\ Resources[j].key = Resources[i].key

VARIABLES
    pc,         \* init, idle, test, destroy, disposed, dead
    fault,      \* the assertion that failed, if one did
    tests,      \* tests started
    step,       \* the command of the scenario that is next
    ok, na,     \* result of the commands so far; TEST_STATUS_KEY holds NA
    failed,     \* the tests one of whose commands failed
    context,    \* Context: the objects of the test, by key
    keys,       \* HsailRuntimeContextState::keys
    heap,       \* the handles that exist
    next,       \* the next handle
    queue,      \* HsailRuntimeContext::queue, a set of at most one handle
    queueError, \* HsailRuntimeContext::queueError
    profile,    \* HsailRuntimeContext::profile
    regions     \* the memory regions of the agent

testVars == <<tests, step, ok, na, failed>>
agentVars == <<profile, regions>>
vars == <<pc, fault, testVars, context, keys, heap, next, queue, queueError,
          agentVars>>

Kinds == {"program", "code", "executable", "block", "registration", "memory",
          "image", "sampler", "signal", "queue"}

Handle(id, kind, of) == [id |-> id, kind |-> kind, of |-> of, test |-> tests]

-----------------------------------------------------------------------------
(* The commands of a test, in the order EmittedTest::Scenario appends them: *)
(* the resources of the kernel, the program, its code and executable, the   *)
(* dispatch with one argument for each resource, and the validation.        *)
Command(op, key, from) == [op |-> op, key |-> key, from |-> from]

ScenarioInit ==
    [i \in DOMAIN Resources |->
        LET r == Resources[i]
        IN  Command(r.op, r.key, IF r.op = "ImageImport" THEN {r.key} ELSE {})]

ScenarioProgram ==
    << Command("ProgramCreate", "program", {}),
       Command("ProgramAddModule", "program", {"program"}),
       Command("ProgramFinalize", "code", {"program"}),
       Command("ExecutableCreate", "executable", {}),
       Command("ExecutableLoadCode", "executable", {"executable", "code"}),
       Command("ExecutableFreeze", "executable", {"executable"}) >>

\* The arguments of the kernel among its first n resources.
Arguments[n \in 0..Len(Resources)] ==
    IF n = 0 THEN <<>>
    ELSE IF Resources[n].arg THEN Append(Arguments[n - 1], Resources[n].key)
    ELSE Arguments[n - 1]

SetupDispatch ==
    LET args == Arguments[Len(Resources)]
    IN  << Command("DispatchCreate", "dispatch", {"executable"}) >>
        \o [i \in DOMAIN args |->
               Command("DispatchArg", "dispatch", {"dispatch", args[i]})]

ScenarioDispatch ==
    << Command("DispatchExecute", "dispatch", {"dispatch"}),
       Command("BufferValidate", "output", {"output"}) >>

Scenario == ScenarioInit \o ScenarioProgram \o SetupDispatch \o ScenarioDispatch

cmd == Scenario[step]
-----------------------------------------------------------------------------
(* The regions the runtime allocates from: the first one that matches.      *)
RegionMatchKernarg(r) == r.kernarg /\ r.allocAllowed /\ r.maxSize >= 256
RegionMatchSystem(r) ==
    r.fineGrained /\ r.segment = "global" /\ r.allocAllowed /\ r.maxSize >= 256
ImageRegionMatch(r) == r.segment = "global" /\ r.aligned

FoundRegion(Match(_)) == \E i \in DOMAIN regions : Match(regions[i])

(* HsailRuntimeContext::Init.  Steps fail before the queue is created, when *)
(* it is, or after it: the caller then exits and disposes of nothing.       *)
InitFails ==
    /\ pc = "init"
    /\ pc' = "disposed"
    /\ \/ UNCHANGED <<heap, next, queue>>
       \/ /\ heap' = {Handle(next, "queue", {})}
          /\ queue' = heap' /\ next' = next + 1
    /\ UNCHANGED <<fault, testVars, context, keys, queueError, agentVars>>

InitRuntime ==
    /\ pc = "init"
    /\ FoundRegion(RegionMatchKernarg) /\ FoundRegion(RegionMatchSystem)
    /\ pc' = "idle"
    /\ heap' = {Handle(next, "queue", {})}
    /\ queue' = heap' /\ next' = next + 1
    /\ UNCHANGED <<fault, testVars, context, keys, queueError, agentVars>>

(* Dispose: QueueDestroy asserts that there is a queue.                     *)
Dispose ==
    /\ pc = "idle"
    /\ IF queue = {}
         THEN pc' = "dead" /\ fault' = "no queue" /\ UNCHANGED <<heap, queue>>
         ELSE pc' = "disposed" /\ heap' = heap \ queue /\ queue' = {}
              /\ UNCHANGED fault
    /\ UNCHANGED <<testVars, context, keys, next, queueError, agentVars>>

NewState ==
    /\ pc = "idle" /\ tests < MaxTests
    /\ tests' = tests + 1
    /\ step' = 1 /\ ok' = TRUE /\ na' = FALSE
    /\ pc' = "test"
    /\ UNCHANGED <<fault, failed, context, keys, heap, next, queue, queueError,
                   agentVars>>
-----------------------------------------------------------------------------
(* Context::Move replaces what the key held and destroys it; Put of the     *)
(* state also remembers the key.                                            *)
PutNothing(key, parts) == UNCHANGED <<context, keys>>       \* a variation

PutObject(key, parts) ==
    /\ context' = [k \in DOMAIN context \cup {key} |->
                      IF k = key THEN parts ELSE context[k]]
    /\ keys' = Append(keys, key)

Replaced(key) == IF key \in DOMAIN context THEN ToSet(context[key]) ELSE {}

Create(key, parts) ==
    /\ PutObject(key, parts)
    /\ heap' = (heap \ Replaced(key)) \cup ToSet(parts)
    /\ next' = next + Len(parts)

IdsOf(handles) == {h.id : h \in handles}
From == IdsOf(UNION {ToSet(context[k]) : k \in cmd.from \ {cmd.key}})

(* A command of the scenario runs when every key it gets is in the context; *)
(* the next one follows if it succeeds, and nothing does if it fails.       *)
Runs(op) ==
    /\ pc = "test" /\ step <= Len(Scenario)
    /\ cmd.op = op
    /\ cmd.from \subseteq DOMAIN context

Succeeds == step' = step + 1 /\ UNCHANGED <<pc, tests, ok, na, failed, fault>>
Ignored(isNA) == Succeeds                                   \* a variation
FailsWith(isNA) ==
    /\ pc' = "destroy" /\ ok' = FALSE /\ na' = isNA
    /\ failed' = failed \cup {tests}
    /\ UNCHANGED <<tests, step, fault>>

Keep == UNCHANGED <<context, keys, heap, next>>
KeepQueue == UNCHANGED <<queue, queueError>>

(* Commands that create one handle, or fail and create nothing.             *)
CreateOne(op, kind) ==
    /\ Runs(op)
    /\ \/ Succeeds /\ Create(cmd.key, <<Handle(next, kind, From)>>)
       \/ FailsWith(FALSE) /\ Keep
    /\ KeepQueue /\ UNCHANGED agentVars

ProgramCreate == CreateOne("ProgramCreate", "program")
ProgramFinalize == CreateOne("ProgramFinalize", "code")
ExecutableCreate == CreateOne("ExecutableCreate", "executable")
SamplerCreate == CreateOne("SamplerCreate", "sampler")
SignalCreate == CreateOne("SignalCreate", "signal")
ShareQueue ==                                               \* a variation
    /\ Runs("QueueCreate")
    /\ Succeeds /\ PutObject(cmd.key, SetToSeq(queue))
    /\ UNCHANGED <<heap, next, agentVars>> /\ KeepQueue
QueueCreate == CreateOne("QueueCreate", "queue")

(* Commands that only call the runtime.                                     *)
CallOnly(op) ==
    /\ Runs(op)
    /\ Succeeds \/ FailsWith(FALSE)
    /\ Keep /\ KeepQueue /\ UNCHANGED agentVars

ProgramAddModule == CallOnly("ProgramAddModule")
ExecutableFreeze == CallOnly("ExecutableFreeze")
BufferValidate == CallOnly("BufferValidate")
ImageImport == CallOnly("ImageImport")   \* ImageInitialize and ImageWrite

(* After it, the handles of `key' stand for what `From' stands for too.     *)
StandsFor(h, ids) ==
    [id |-> h.id, kind |-> h.kind, of |-> h.of \cup ids, test |-> h.test]

DependsOnMore(key) ==
    LET old == ToSet(context[key])
    IN  /\ key \in cmd.from      \* the command gets the object it changes
        /\ context' = [context EXCEPT ![key] =
                          [i \in DOMAIN @ |-> StandsFor(@[i], From)]]
        /\ heap' = (heap \ old) \cup {StandsFor(h, From) : h \in old}
        /\ UNCHANGED <<keys, next>>

ExecutableLoadCode ==
    /\ Runs("ExecutableLoadCode")
    /\ \/ Succeeds /\ DependsOnMore(cmd.key)
       \/ FailsWith(FALSE) /\ Keep
    /\ KeepQueue /\ UNCHANGED agentVars

(* BufferCreate: the FULL profile registers a block of the host, the BASE   *)
(* profile allocates from the system region.  The parts of an object are    *)
(* listed in the order in which its destructor gives them back.             *)
BufferParts ==
    IF profile = "FULL"
      THEN << Handle(next, "registration", {next + 1}), Handle(next + 1, "block", {}) >>
      ELSE << Handle(next, "memory", {}) >>

BufferCreate ==
    /\ Runs("BufferCreate")
    /\ \/ Succeeds /\ Create(cmd.key, BufferParts)
       \/ FailsWith(FALSE) /\ Keep
    /\ KeepQueue /\ UNCHANGED agentVars
-----------------------------------------------------------------------------
(* ImageCreate.  The format or the size may not be supported (NA), no region*)
(* may fit, the memory may not be allocated; then hsa_ext_image_create may  *)
(* be out of resources (NA), and the memory is not freed, or fail, and it   *)
(* is.                                                                      *)
ImageParts == << Handle(next, "image", {next + 1}), Handle(next + 1, "memory", {}) >>

LoseMemory(handle) ==
    /\ heap' = heap \cup {handle} /\ next' = next + 1
    /\ UNCHANGED <<context, keys>>

ImageCreate ==
    /\ Runs("ImageCreate")
    /\ \/ /\ FailsWith(TRUE) /\ Keep
       \/ /\ FailsWith(FALSE) /\ Keep
       \/ /\ FoundRegion(ImageRegionMatch)
          /\ FailsWith(TRUE) /\ LoseMemory(Handle(next, "memory", {}))
       \/ /\ FoundRegion(ImageRegionMatch)
          /\ Succeeds /\ Create(cmd.key, ImageParts)
    /\ KeepQueue /\ UNCHANGED agentVars
-----------------------------------------------------------------------------
(* DispatchCreate: the queue is checked (QueueNoError) once the kernel was  *)
(* found; a null queue fails the command.  Later calls fail before the      *)
(* kernarg block is allocated, after it (the block is not freed), or not at *)
(* all: then the dispatch owns the block, if it has one, and the signal.    *)
DispatchParts(kernarg) ==
    IF kernarg
      THEN << Handle(next, "memory", From), Handle(next + 1, "signal", From) >>
      ELSE << Handle(next, "signal", From) >>

NewQueue == Handle(next + 2, "queue", {})

\* QueueNoError ends with a queue: the one there was, or a new one.
QueueNoError(stale, q) ==
    \/ ~stale /\ queue # {} /\ q = queue
    \/ (stale \/ queue = {}) /\ q \in {{}, {NewQueue}}

DispatchCreateFails ==
    /\ Runs("DispatchCreate")
    /\ FailsWith(FALSE) /\ Keep
    /\ KeepQueue /\ UNCHANGED agentVars

DispatchCreateQueued ==
    /\ Runs("DispatchCreate")
    /\ \E q \in {queue, {}, {NewQueue}} :
         /\ QueueNoError(queueError, q)
         /\ queue' = q /\ queueError' = FALSE
         /\ LET others == (heap \ queue) \cup q IN
            \/ /\ FailsWith(FALSE)
               /\ heap' = others
               /\ next' = next + 3 /\ UNCHANGED <<context, keys>>
            \/ /\ q # {} /\ FailsWith(FALSE)
               /\ heap' = others \cup {Handle(next, "memory", {})}
               /\ next' = next + 3 /\ UNCHANGED <<context, keys>>
            \/ /\ q # {} /\ Succeeds
               /\ \E kernarg \in BOOLEAN :
                    /\ PutObject(cmd.key, DispatchParts(kernarg))
                    /\ heap' = (others \ Replaced(cmd.key)) \cup ToSet(DispatchParts(kernarg))
               /\ next' = next + 3
    /\ UNCHANGED agentVars

(* DispatchArg writes the handle of a resource into the kernarg block.      *)
DispatchArg ==
    /\ Runs("DispatchArg")
    /\ Succeeds /\ DependsOnMore(cmd.key)
    /\ KeepQueue /\ UNCHANGED agentVars

(* DispatchExecute succeeds unless it times out or a queue error is noted.  *)
DispatchExecute ==
    /\ Runs("DispatchExecute")
    /\ \/ ~queueError /\ Succeeds
       \/ FailsWith(FALSE)
    /\ Keep /\ KeepQueue /\ UNCHANGED agentVars

(* Every queue, one that the test created too, was given the runtime as the *)
(* data of its error callback, which notes the error in the one flag.       *)
HsaQueueErrorCallback ==
    /\ pc = "test" /\ ~queueError
    /\ \E h \in heap : h.kind = "queue"
    /\ queueError' = TRUE
    /\ UNCHANGED <<pc, fault, testVars, context, keys, heap, next, queue,
                   agentVars>>
-----------------------------------------------------------------------------
(* The scenario is over, or it stopped: the state is destroyed.             *)
EndScenario ==
    /\ pc = "test" /\ step > Len(Scenario)
    /\ pc' = "destroy"
    /\ UNCHANGED <<fault, testVars, context, keys, heap, next, queue,
                   queueError, agentVars>>

FirstKey == keys[1]                                         \* a variation
DeletedKey == keys[Len(keys)]

(* ~HsailRuntimeContextState deletes the keys, the last one first; a deleted*)
(* object gives back its parts one after the other.                         *)
DeleteKey ==
    /\ pc = "destroy" /\ keys # <<>>
    /\ LET key == DeletedKey IN
       \/ /\ key \in DOMAIN context /\ context[key] # <<>>
          /\ heap' = heap \ {Head(context[key])}
          /\ context' = [context EXCEPT ![key] = Tail(@)]
          /\ UNCHANGED keys
       \/ /\ key \in DOMAIN context => context[key] = <<>>
          /\ context' = [k \in DOMAIN context \ {key} |-> context[k]]
          /\ keys' = Front(keys)
          /\ UNCHANGED heap
    /\ UNCHANGED <<pc, fault, testVars, next, queue, queueError, agentVars>>

StateDestroyed ==
    /\ pc = "destroy" /\ keys = <<>>
    /\ pc' = "idle"
    /\ UNCHANGED <<fault, testVars, context, keys, heap, next, queue,
                   queueError, agentVars>>
-----------------------------------------------------------------------------
Init ==
    /\ pc = "init" /\ fault = "none"
    /\ tests = 0 /\ step = 1 /\ ok = TRUE /\ na = FALSE /\ failed = {}
    /\ context = [k \in {} |-> <<>>] /\ keys = <<>>
    /\ heap = {} /\ next = 1 /\ queue = {} /\ queueError = FALSE
    /\ profile \in {"FULL", "BASE"} /\ regions \in RegionLists

Commands ==
    \/ BufferCreate \/ ImageCreate \/ ImageImport \/ SamplerCreate \/ SignalCreate
    \/ QueueCreate \/ ProgramCreate \/ ProgramAddModule \/ ProgramFinalize
    \/ ExecutableCreate \/ ExecutableLoadCode \/ ExecutableFreeze
    \/ DispatchCreateFails \/ DispatchCreateQueued \/ DispatchArg
    \/ DispatchExecute \/ BufferValidate

Next ==
    \/ InitFails \/ InitRuntime \/ NewState \/ Commands
    \/ HsaQueueErrorCallback
    \/ EndScenario \/ DeleteKey \/ StateDestroyed \/ Dispose

Spec == Init /\ [][Next]_vars
-----------------------------------------------------------------------------
Owned == UNION {ToSet(context[k]) : k \in DOMAIN context}
Lost == heap \ (Owned \cup queue)

Handles == [id : Nat, kind : Kinds, of : SUBSET Nat, test : Nat]

TypeOK ==
    /\ pc \in {"init", "idle", "test", "destroy", "disposed", "dead"}
    /\ fault \in {"none", "no queue"}
    /\ tests \in 0..MaxTests /\ failed \subseteq 1..tests
    /\ step \in 1..(Len(Scenario) + 1)
    /\ ok \in BOOLEAN /\ na \in BOOLEAN /\ queueError \in BOOLEAN
    /\ keys \in Seq(STRING)
    /\ DOMAIN context \subseteq ToSet(keys)
    /\ \A k \in DOMAIN context : context[k] \in Seq(Handles)
    /\ next \in Nat /\ heap \subseteq Handles /\ queue \subseteq heap
    /\ profile \in {"FULL", "BASE"} /\ regions \in RegionLists

(* An object of the context names only handles that exist, and no handle    *)
(* belongs to two objects: each is given back exactly once (the destructors *)
(* of HsailProgram, HsailCode, HsailBuffer, HsailImage, ...).               *)
GivenBackOnce ==
    /\ Owned \subseteq heap /\ Owned \cap queue = {}
    /\ \A k, l \in DOMAIN context :
         \A i \in DOMAIN context[k], j \in DOMAIN context[l] :
            context[k][i].id = context[l][j].id => <<k, i>> = <<l, j>>

(* What a handle was made from outlives it: a dispatch goes before its      *)
(* executable and its arguments, an executable before the code it loaded, an*)
(* image before its memory, a registration before its block.  This rests on *)
(* the order of the commands and on the keys being deleted in reverse.      *)
UsersGoFirst == \A h \in heap : h.of \subseteq IdsOf(heap)

(* Whatever call fails, a test loses at most one handle: the memory of an   *)
(* image or the kernarg block of a dispatch, of a test that did not pass.   *)
LosesOneBlock ==
    \A h \in Lost :
        /\ h.kind = "memory" /\ h.test \in failed
        /\ \A g \in Lost : g.test = h.test => g = h

(* Every command finds the keys it gets, and QueueDestroy finds the queue   *)
(* it asserts unless the last test failed.                                  *)
AssertionsHold ==
    /\ pc = "test" /\ step <= Len(Scenario) => cmd.from \subseteq DOMAIN context
    /\ fault = "no queue" => ~ok
=============================================================================
