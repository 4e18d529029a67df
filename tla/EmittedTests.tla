---------------------------- MODULE EmittedTests ----------------------------
(***************************************************************************)
(* A test that is written with the emitter (EmittedTest) puts what it uses *)
(* into containers, whose members declare themselves in the code and add   *)
(* commands to the scenario: buffers, variables, images, samplers, signals *)
(* and queues.  The kernel finds an argument where its declarations put    *)
(* it; the runtime writes it where its own count of bytes has come to.     *)
(* The model is the large one: addresses and handles have 8 bytes.         *)
(***************************************************************************)
EXTENDS Integers, Sequences, SequencesExt, FiniteSetsExt

\* What a container holds.
EBuffer(id, type) == [kind |-> "buffer", id |-> id, type |-> type, data |-> 0]
EVariable(id, segment, location, size, dim, data) ==
    [kind |-> "variable", id |-> id, segment |-> segment, location |-> location,
     size |-> size, dim |-> dim, output |-> FALSE, data |-> data]
Parameter(id, size, dim, output) ==
    [EVariable(id, "arg", "auto", size, dim, 0) EXCEPT !.output = output]
EImage(id, type, segment) ==
    [kind |-> "image", id |-> id, type |-> type, segment |-> segment, location |-> "auto", output |-> FALSE, data |-> 0]
ESampler(id, segment) ==
    [kind |-> "sampler", id |-> id, segment |-> segment, location |-> "auto", output |-> FALSE, data |-> 0]
ESignal(id) == [kind |-> "signal", id |-> id, data |-> 0]
EUserModeQueue(id, type) == [kind |-> "queue", id |-> id, type |-> type, data |-> 0]

Located(e) == e.kind \in {"variable", "image", "sampler"}
HostImage(e) == e.kind = "image" /\ e.type \in {"host input", "host output"}
HostSignal(e) == e.kind = "signal"
HostQueue(e) == e.kind = "queue" /\ e.type = "separate"
HostBuffer(e) == e.kind = "buffer" /\ e.type \in {"host input", "host result"}

RealLocation(e) ==
    CASE e.location # "auto" -> e.location
      [] e.segment \in {"private", "spill", "group", "kernarg"} -> "kernel"
      [] e.segment = "arg" -> "function"
      [] e.segment = "global" -> "module"
      [] e.segment = "readonly" -> "module"

\* Where each of them declares itself.
ModuleVariables(e) == Located(e) /\ RealLocation(e) = "module" /\ ~HostImage(e)
KernelVariables(e) == Located(e) /\ RealLocation(e) = "kernel" /\ e.segment # "kernarg"
FunctionVariables(e) == Located(e) /\ RealLocation(e) = "function" /\ e.segment # "arg" /\ ~HostImage(e)
FunctionFormalOutputArguments(e) ==
    /\ Located(e) /\ RealLocation(e) = "function" /\ e.segment = "arg" /\ e.output
    /\ ~HostImage(e)
FunctionFormalInputArguments(e) ==
    /\ Located(e) /\ RealLocation(e) = "function" /\ e.segment = "arg" /\ ~e.output
    /\ e.kind = "image" => e.type = "host input"
KernelArguments(e) ==
    \/ HostBuffer(e)
    \/ Located(e) /\ e.segment = "kernarg" /\ RealLocation(e) = "kernel" /\ (e.kind = "image" => HostImage(e))
    \/ HostSignal(e)
    \/ HostQueue(e)
\* A variable of a specification that a test accepts is declared once.
IsValidAt(e) ==
    /\ e.location = "module" => e.segment \notin {"arg", "kernarg", "spill"}
    /\ e.location # "module" => e.segment \notin {"global", "readonly"}
    /\ e.location = "function" => e.segment # "kernarg"
Declarations(e) ==
    Cardinality({p \in {"module", "kernel", "function", "output", "input", "argument"} :
        CASE p = "module" -> ModuleVariables(e)
          [] p = "kernel" -> KernelVariables(e)
          [] p = "function" -> FunctionVariables(e)
          [] p = "output" -> FunctionFormalOutputArguments(e)
          [] p = "input" -> FunctionFormalInputArguments(e)
          [] p = "argument" -> KernelArguments(e)})

ValueSize(e) == IF e.kind = "variable" THEN e.size ELSE 8
ElementsIn(dim) == Max({dim, 1})
RoundUp(offset, size) == ((offset + size - 1) \div size) * size

\* The arguments of the kernel, each at a multiple of its alignment.
Place(args, e) ==
    LET count == IF e.kind = "variable" THEN ElementsIn(e.dim) ELSE 1
        start == IF args = <<>> THEN 0 ELSE Last(args).offset + Last(args).bytes
    IN  Append(args, [id |-> e.id, offset |-> RoundUp(start, ValueSize(e)), bytes |-> count * ValueSize(e)])
KernargSegment(es) == FoldLeft(Place, <<>>, SelectSeq(es, KernelArguments))
-----------------------------------------------------------------------------
(* Commands of the scenario: the objects that the runtime looks up, and the *)
(* one that is put into the context.                                        *)
Command(op, id, needs, creates) == [op |-> op, id |-> id, needs |-> needs, creates |-> creates]
Brig(m) == <<m, "brig">>
Data(id) == <<id, "data">>
Params(id) == <<id, "params">>

ProgramCreate == Command("program_create", "program", {}, {"program"})
ModuleCreateFromBrig(m) == Command("module_create_from_brig", m, {Brig(m)}, {m})
ProgramAddModule(m) == Command("program_add_module", m, {"program", m}, {})
ProgramFinalize == Command("program_finalize", "code", {"program"}, {"code"})
ExecutableCreate == Command("executable_create", "executable", {}, {"executable"})
ExecutableLoadCode == Command("executable_load_code", "executable", {"executable", "code"}, {})
ExecutableFreeze == Command("executable_freeze", "executable", {"executable"}, {})
BufferCreate(e) == Command("buffer_create", e.id, IF e.type = "host input" THEN {Data(e.id)} ELSE {}, {e.id})
BufferValidate(e) == Command("buffer_validate", e.id, {e.id, Data(e.id)}, {})
ImageCreate(e) == Command("image_create", e.id, {Params(e.id)}, {e.id})
ImageInitialize(e) == Command("image_initialize", e.id, {e.id, Params(e.id), Data(e.id)}, {})
SamplerCreate(e) == Command("sampler_create", e.id, {Params(e.id)}, {e.id})
SignalCreate(e) == Command("signal_create", e.id, {}, {e.id})
QueueCreate(e) == Command("queue_create", e.id, {}, {e.id})
DispatchCreate(d) == Command("dispatch_create", d, {"executable"}, {d})
DispatchArg(d, e) == Command("dispatch_arg", e.id, {d, e.id}, {}) @@ [dispatch |-> d, size |-> 8, count |-> 1]
DispatchValuesArg(d, e) ==
    Command("dispatch_arg", e.id, {d}, {}) @@ [dispatch |-> d, size |-> e.size, count |-> e.data]
DispatchExecute(d) == Command("dispatch_execute", d, {d}, {})

\* What members of the kernel's container add to the scenario.
ScenarioInit(e) ==
    CASE e.kind = "buffer" -> <<BufferCreate(e)>>
      [] HostSignal(e) -> <<SignalCreate(e)>>
      [] e.kind = "sampler" -> <<SamplerCreate(e)>>
      [] e.kind = "image" /\ e.type = "host output" -> <<ImageCreate(e)>>
      [] e.kind = "image" /\ e.type \in {"host input", "host image"} ->
            IF e.data > 0 THEN <<ImageCreate(e), ImageInitialize(e)>> ELSE <<ImageCreate(e)>>
      [] HostQueue(e) -> <<QueueCreate(e)>>
      [] OTHER -> <<>>
SetupDispatch(d, e) ==
    CASE e.kind \in {"buffer", "signal"} -> <<DispatchArg(d, e)>>
      [] e.kind = "variable" -> IF e.segment = "kernarg" /\ e.data > 0 THEN <<DispatchValuesArg(d, e)>> ELSE <<>>
      [] e.kind = "sampler" -> IF e.segment = "kernarg" THEN <<DispatchArg(d, e)>> ELSE <<>>
      [] e.kind = "image" -> IF HostImage(e) THEN <<DispatchArg(d, e)>> ELSE <<>>
      [] e.kind = "queue" -> IF HostQueue(e) THEN <<DispatchArg(d, e)>> ELSE <<>>
ScenarioValidation(e) ==
    IF e.kind = "buffer" /\ e.type = "host result" THEN <<BufferValidate(e)>> ELSE <<>>
\* What is moved into the context while the test is emitted.
InitialContext(e) ==
    CASE HostBuffer(e) -> {Data(e.id)}
      [] e.kind = "sampler" -> {Params(e.id)}
      [] e.kind = "image" -> {Params(e.id)} \cup (IF e.data > 0 THEN {Data(e.id)} ELSE {})
      [] OTHER -> {}

Each(Op(_), es) == FlattenSeq([i \in DOMAIN es |-> Op(es[i])])
ScenarioProgram(modules) ==
    Each(LAMBDA m : <<ModuleCreateFromBrig(m), ProgramAddModule(m)>>, modules)
        \o <<ProgramFinalize, ExecutableCreate, ExecutableLoadCode, ExecutableFreeze>>
\* A dispatch [id, es] passes the members of its kernel.
ScenarioDispatch(d) ==
    <<DispatchCreate(d.id)>> \o Each(LAMBDA e : SetupDispatch(d.id, e), d.es) \o <<DispatchExecute(d.id)>>
Scenario(modules, dispatches, es) ==
    Each(ScenarioInit, es) \o <<ProgramCreate>> \o ScenarioProgram(modules)
        \o Each(ScenarioDispatch, dispatches) \o Each(ScenarioValidation, es)
-----------------------------------------------------------------------------
WriteUnaligned(args, c) ==
    LET start == IF args = <<>> THEN 0 ELSE Last(args).offset + Last(args).bytes
    IN  Append(args, [id |-> c.id, offset |-> start, bytes |-> c.count * c.size])
\* The runtime's place for the next argument: a multiple of the value's size.
Write(args, c) ==
    LET start == IF args = <<>> THEN 0 ELSE Last(args).offset + Last(args).bytes
    IN  Append(args, [id |-> c.id, offset |-> RoundUp(start, c.size), bytes |-> c.count * c.size])

Beginning(objects) == [objects |-> objects, args |-> <<>>, ran |-> <<>>, checked |-> {}, ok |-> TRUE]
\* The commands one after the other, up to the first that fails.
ExecuteCommand(st, c) ==
    IF ~(st.ok /\ c.needs \subseteq st.objects) THEN [st EXCEPT !.ok = FALSE]
    ELSE CASE c.op = "dispatch_create" -> [st EXCEPT !.objects = @ \cup c.creates, !.args = <<>>]
           [] c.op = "dispatch_arg" -> [st EXCEPT !.args = Write(@, c)]
           [] c.op = "dispatch_execute" -> [st EXCEPT !.ran = Append(@, st.args)]
           [] c.op = "buffer_validate" -> [st EXCEPT !.checked = @ \cup {<<c.id, Len(st.ran)>>}]
           [] OTHER -> [st EXCEPT !.objects = @ \cup c.creates]
CommandSequenceExecute(commands, objects) == FoldLeft(ExecuteCommand, Beginning(objects), commands)
-----------------------------------------------------------------------------
(* Data in memory, by the number of the element.                           *)
\* The first registers and the numbers of registers of the instructions.
Chunks(n, vector) ==
    IF vector /\ n > 1 THEN [k \in 1..((n + 3) \div 4) |-> [first |-> 4 * (k - 1), length |-> Min({4, n - 4 * (k - 1)})]]
    ELSE [k \in 1..n |-> [first |-> k - 1, length |-> 1]]
EmitStore(mem, base, regs, vector) ==
    FoldLeft(LAMBDA m, c : [a \in DOMAIN m \cup {base + c.first + j : j \in 0..(c.length - 1)} |->
                 IF a - base - c.first \in 0..(c.length - 1) THEN regs[a - base + 1] ELSE m[a]],
             mem, Chunks(Len(regs), vector))
EmitLoad(mem, base, n, vector) ==
    FoldLeft(LAMBDA regs, c : regs \o [j \in 1..c.length |-> mem[base + c.first + j - 1]],
             <<>>, Chunks(n, vector))
\* An element of the buffer of a work-item, in registers of a test's type.
DataAddress(index, count, factor) == index * count * factor
EmitStoreData(mem, wi, regs) == EmitStore(mem, DataAddress(wi, Len(regs), 1), regs, TRUE)
EmitLoadData(mem, wi, n) == EmitLoad(mem, DataAddress(wi, n, 1), n, TRUE)

\* A call: the outputs of the function come first among its formals.
Formals(f) == f.outputs \o f.inputs
RegList2Args(f, n, out) == [i \in 1..n |-> Formals(f)[IF out THEN i ELSE Len(f.outputs) + i]]
\* The memory of the actual arguments when the function is entered, and the
\* registers that are loaded from its results.
EmitCallSeq(f, inRegs, vector) ==
    LET ins == RegList2Args(f, Len(inRegs), FALSE)
    IN  [i \in DOMAIN ins |-> EmitStore(<<>>, 0, SubSeq(inRegs[i], 1, ElementsIn(ins[i].dim)), vector)]
Returned(f, results, vector) ==
    [i \in DOMAIN results |-> EmitLoad(results[i], 0, ElementsIn(RegList2Args(f, Len(results), TRUE)[i].dim), vector)]
OutputBufferSize(gridSize, dim) == gridSize * ElementsIn(dim)
\* Expected results of the work-items, each a sequence of the elements.
ExpectedResults(expected) == FlattenSeq(expected)
-----------------------------------------------------------------------------

(* What the scenario of a test must do (Emitter.cpp, HsailRuntime.cpp).    *)

(* Every command finds what it needs; a kernel is run with its arguments    *)
(* where its formals are declared, whatever they are; and every buffer of   *)
(* results is compared, after the kernel has run.                           *)
ArgumentsPlacedOn(es, objects) ==
    LET d == [id |-> "dispatch", es |-> es]
        st == CommandSequenceExecute(Scenario(<<"module">>, <<d>>, es), objects)
    IN  /\ st.ok
        /\ st.ran = <<KernargSegment(es)>>
        /\ st.checked = {<<e.id, 1>> : e \in {x \in ToSet(es) : x.kind = "buffer" /\ x.type = "host result"}}

(* A variable of a specification that a test accepts is declared once.      *)
DeclaredOnceOn(e) == IsValidAt(e) => Declarations(e) = 1
=============================================================================
