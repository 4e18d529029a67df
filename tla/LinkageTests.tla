---------------------------- MODULE LinkageTests ----------------------------
(***************************************************************************)
(* Tests of linkage (LibrariesTests.cpp): the same names are defined in    *)
(* several modules, kernels, functions and argument scopes.  A test is the *)
(* sequence of its calls to the emitter, which keeps the scope it is in;   *)
(* the code names the variable that a test's object emitted last.  Values  *)
(* are 1 (the one that is expected) to 4.                                  *)
(***************************************************************************)
EXTENDS Integers, Sequences, SequencesExt, FiniteSetsExt

CONSTANT Lost   \* what is in memory that nothing has written

VALUE == 1
SECOND_VALUE == 2
THIRD_VALUE == 3
FOURTH_VALUE == 4
-----------------------------------------------------------------------------
(* The emitter.  An object is known by its linkage, the place this linkage *)
(* confines it to, and its name.                                           *)
StartEmitter ==
    [scope |-> "module", module |-> "", executable |-> <<>>, argScopes |-> 0, names |-> <<>>,
     refs |-> <<>>, directives |-> <<>>, code |-> <<>>]

GetVariableNameHere(st, name) == IF st.scope = "module" THEN <<"&", name>> ELSE <<"%", name>>
GetVariableLinkageHere(st) ==
    CASE st.scope = "module" -> "program"
      [] st.scope \in {"local", "funcarg"} -> "function"
      [] st.scope = "arg" -> "arg"
\* A name that was given before gets a number.
AddName(st, name) == <<name, Len(SelectSeq(st.names, LAMBDA n : n = name))>>
Object(st, linkage, name) ==
    [linkage |-> linkage, name |-> name,
     place |-> CASE linkage = "program" -> <<>>
                 [] linkage = "module" -> <<st.module>>
                 [] linkage = "function" -> <<st.module>> \o st.executable
                 [] linkage = "arg" -> Append(<<st.module>> \o st.executable, st.argScopes)]
Directive(st, id, object, definition, data) ==
    [st EXCEPT !.refs = [i \in DOMAIN @ \cup {id} |-> IF i = id THEN object ELSE @[i]],
               !.directives = Append(@, [object |-> object, definition |-> definition, data |-> data,
                                         formal |-> st.scope = "funcarg"])]

StartModule(st, c) == [st EXCEPT !.module = c.name]
StartModuleScope(st) == [st EXCEPT !.scope = "module"]
StartArgScope(st) == [st EXCEPT !.scope = "arg", !.argScopes = @ + 1]
EndArgScope(st) == [st EXCEPT !.scope = "local"]
StartBody(st) == [st EXCEPT !.scope = "local"]
EndKernelStays(st) == st
EndExecutable(st) == [st EXCEPT !.scope = "module"]
\* A kernel or a function; a declaration takes no number for its name.
StartExecutable(st, c) ==
    LET name == IF c.definition THEN AddName(st, c.name) ELSE <<c.name, 0>>
        st1 == [st EXCEPT !.scope = "funcarg", !.executable = name,
                          !.names = IF c.definition THEN Append(@, c.name) ELSE @]
        st2 == Directive([st1 EXCEPT !.scope = "module"], c.name, Object(st1, c.linkage, name), c.definition, Lost)
    IN  [st2 EXCEPT !.scope = "funcarg"]
\* The linkage is the one of the scope unless the test sets it.
EmitVariableDefinition(st, c) ==
    Directive(st, c.id,
        Object(st, IF c.linkage = "here" THEN GetVariableLinkageHere(st) ELSE c.linkage, GetVariableNameHere(st, c.name)),
        c.definition, c.data)
Instruction(st, c) ==
    [st EXCEPT !.code = Append(@, [c EXCEPT !.on = st.refs[c.on]] @@ [in |-> st.refs[st.executable[1]]])]
EmitCallHere(st, c) ==
    CASE c.call = "module" -> StartModule(st, c)
      [] c.call = "module scope" -> StartModuleScope(st)
      [] c.call = "arg scope" -> StartArgScope(st)
      [] c.call = "end arg scope" -> EndArgScope(st)
      [] c.call = "executable" -> StartExecutable(st, c)
      [] c.call = "body" -> StartBody(st)
      [] c.call = "end" -> EndExecutable(st)
      [] c.call = "variable" -> EmitVariableDefinition(st, c)
      [] c.call = "instruction" -> Instruction(st, c)
EmittedCode(calls) == FoldLeft(EmitCallHere, StartEmitter, calls)
-----------------------------------------------------------------------------
(* The program: every object but the formals has one definition.  It runs  *)
(* for the work-items of one group, which do the same things.              *)
Linked(st) ==
    LET directives == {i \in DOMAIN st.directives : ~st.directives[i].formal}
    IN  \A i \in directives :
            Cardinality({j \in directives : /\ st.directives[j].object = st.directives[i].object
                                            /\ st.directives[j].definition}) = 1

Memory(st) ==
    [o \in {d.object : d \in ToSet(st.directives)} |->
        LET data == {d \in ToSet(st.directives) : d.object = o /\ d.data # Lost}
        IN  IF data = {} THEN Lost ELSE (CHOOSE d \in data : TRUE).data]
Code(st, executable) == SelectSeq(st.code, LAMBDA i : i.in = executable)
\* The formal of this name of a function.
Formal(st, function, name) ==
    (CHOOSE d \in ToSet(st.directives) :
        d.formal /\ SubSeq(d.object.place, 2, 3) = function.name /\ d.object.name = <<"%", name>>).object
\* What an fbarrier goes through, from one use to the next.
FBarrierStep(op) ==
    CASE op = "initfbar" -> <<"none", "initialized">>
      [] op = "joinfbar" -> <<"initialized", "joined">>
      [] op = "waitfbar" -> <<"joined", "joined">>
      [] op = "leavefbar" -> <<"joined", "left">>
      [] op = "releasefbar" -> <<"left", "none">>

Step(run, i) ==
    CASE i.op = "st" -> [run EXCEPT !.memory[i.on] = i.value]
      [] i.op = "ld" -> [run EXCEPT !.register = run.memory[i.on]]
      [] i.op = "ldf" -> [run EXCEPT !.address = i.on]
      [] i.op = "value" -> [run EXCEPT !.register = i.value]
      [] OTHER -> \* an fbarrier, or the one whose address was loaded
            LET fb == IF i.value = "address" THEN run.address ELSE i.on
            IN  [run EXCEPT !.ok = @ /\ run.fbarriers[fb] = FBarrierStep(i.op)[1],
                            !.fbarriers[fb] = FBarrierStep(i.op)[2]]
\* A function calls nothing; the caller loads what is in its formal output.
CallAndLoad(st, run, i) ==
    LET called == FoldLeft(Step, run, Code(st, i.on))
    IN  IF i.value = "" THEN called ELSE [called EXCEPT !.register = called.memory[Formal(st, i.on, i.value)]]
Execute(st, run, executable) ==
    FoldLeft(LAMBDA r, i : IF i.op = "call" THEN CallAndLoad(st, r, i) ELSE Step(r, i), run, Code(st, executable))
RunDispatches(st, dispatches) ==
    FoldLeft(LAMBDA run, d : Execute(st, run, d),
             [memory |-> Memory(st), fbarriers |-> [o \in DOMAIN Memory(st) |-> "none"],
              register |-> Lost, address |-> Lost, ok |-> TRUE], dispatches)
-----------------------------------------------------------------------------
(* Calls.                                                                  *)
Module(m) == <<[call |-> "module", name |-> m]>>
ModuleScope == <<[call |-> "module scope"]>>
ArgScope(calls) == <<[call |-> "arg scope"]>> \o calls \o <<[call |-> "end arg scope"]>>
Executable(name, definition, linkage) ==
    <<[call |-> "executable", name |-> name, definition |-> definition, linkage |-> linkage]>>
Body(calls) == <<[call |-> "body"]>> \o calls \o <<[call |-> "end"]>>
EmitDefinition(id, name, linkage, data) ==
    <<[call |-> "variable", id |-> id, name |-> name, linkage |-> linkage, definition |-> TRUE, data |-> data]>>
EmitDeclaration(id, name, linkage) ==
    <<[call |-> "variable", id |-> id, name |-> name, linkage |-> linkage, definition |-> FALSE, data |-> Lost]>>
Inst(op, on, value) == <<[call |-> "instruction", op |-> op, on |-> on, value |-> value]>>
St(on, value) == Inst("st", on, value)
Ld(on) == Inst("ld", on, Lost)
CallFunction(f, output) == Inst("call", f, output)
ReturnValue(kernel) == Inst("value", kernel, VALUE)
FBarrierUse(fb, ops) == FlattenSeq([i \in DOMAIN ops |-> Inst(ops[i], fb, "here")])
WholeUse == <<"initfbar", "joinfbar", "waitfbar", "leavefbar", "releasefbar">>
When(c, calls) == IF c THEN calls ELSE <<>>

\* The shape of a test: its module, with the directives that precede the
\* kernel, and those that the end of the module adds.
Kernel(variables, calls) == Executable("test_kernel", TRUE, "program") \o Body(variables \o calls)
TestModule(variables, executables, end) == Module("module") \o variables \o executables \o end

ModuleScopeVariableLinkageTest(linkage, segment) ==
    TestModule(EmitDeclaration("var", "var", linkage),
        Kernel(<<>>, When(segment # "readonly", St("var", VALUE)) \o Ld("var")),
        EmitDefinition("var", "var", linkage, IF segment = "readonly" THEN VALUE ELSE Lost))
ModuleScopeFunctionLinkageTest(linkage) ==
    TestModule(<<>>,
        Executable("func", FALSE, linkage) \o EmitDefinition("arg", "arg", "here", Lost) \o ModuleScope
            \o Kernel(<<>>, CallFunction("func", "arg")),
        Executable("func", TRUE, linkage) \o EmitDefinition("arg", "arg", "here", Lost) \o Body(St("arg", VALUE)))
ModuleScopeKernelLinkageTest(linkage) ==
    TestModule(Executable("test_kernel", FALSE, linkage) \o ModuleScope,
        Executable("test_kernel", TRUE, linkage) \o Body(ReturnValue("test_kernel")), <<>>)
ModuleScopeFBarrierLinkageTest(linkage) ==
    TestModule(EmitDeclaration("fbar", "fbar", linkage),
        Kernel(<<>>, FBarrierUse("fbar", WholeUse) \o ReturnValue("test_kernel")),
        EmitDefinition("fbar", "fbar", linkage, Lost))

\* Two functions and another kernel stand before the kernel of the test.
FunctionLinkageTest(formal1, body1, formal2, body2, secondKernelBody, kernelBody) ==
    TestModule(<<>>,
        Executable("first_function", TRUE, "program") \o formal1 \o Body(body1)
            \o Executable("second_function", TRUE, "program") \o formal2 \o Body(body2)
            \o Executable("second_kernel", TRUE, "program") \o Body(secondKernelBody)
            \o Executable("test_kernel", TRUE, "program") \o Body(kernelBody), <<>>)
FunctionLinkageVariableTest(segment) ==
    LET var(id, value) == EmitDefinition(id, "var", "function", IF segment = "readonly" THEN value ELSE Lost)
        store(id, value) == When(segment # "readonly", St(id, value))
        body(id, value) == var(id, value) \o store(id, value)
    IN  FunctionLinkageTest(<<>>, body("firstFunctionVar", THIRD_VALUE), <<>>, body("secondFunctionVar", FOURTH_VALUE),
            body("secondKernelVar", SECOND_VALUE),
            var("firstKernelVar", VALUE) \o CallFunction("second_function", "") \o store("firstKernelVar", VALUE) \o Ld("firstKernelVar"))
FunctionLinkageKernargTest ==
    LET arg(id, value) == EmitDefinition(id, "arg", "function", value)
    IN  FunctionLinkageTest(<<>>, <<>>, <<>>, <<>>,
            arg("secondKernelArg", SECOND_VALUE) \o Ld("secondKernelArg"),
            arg("firstKernelArg", VALUE) \o Ld("firstKernelArg"))
FunctionLinkageArgTest ==
    FunctionLinkageTest(EmitDefinition("firstOut", "out", "function", Lost), St("firstOut", VALUE),
        EmitDefinition("secondOut", "out", "function", Lost), St("secondOut", SECOND_VALUE),
        <<>>, CallFunction("first_function", "out"))
FunctionLinkageFBarrierTest ==
    LET fbar(id) == EmitDefinition(id, "fbar", "function", Lost)
    IN  FunctionLinkageTest(
            <<>>, fbar("first") \o FBarrierUse("first", SubSeq(WholeUse, 1, 3)) \o Inst("ldf", "first", "here"),
            <<>>, fbar("second") \o FBarrierUse("second", WholeUse) \o Inst("ldf", "second", "here"),
            <<>>, CallFunction("first_function", "") \o Inst("leavefbar", "test_kernel", "address")
                      \o Inst("releasefbar", "test_kernel", "address") \o ReturnValue("test_kernel"))

\* Two argument scopes of the kernel define var, as the function does.
ArgLinkageTest ==
    TestModule(<<>>,
        Executable("function", TRUE, "program") \o EmitDefinition("input", "input", "here", Lost)
            \o Body(EmitDefinition("functionVar", "var", "here", THIRD_VALUE))
            \o Kernel(<<>>,
                ArgScope(EmitDefinition("firstVar", "var", "arg", Lost) \o St("firstVar", VALUE) \o Ld("firstVar") \o CallFunction("function", ""))
                \o ArgScope(EmitDefinition("secondVar", "var", "arg", Lost) \o St("secondVar", SECOND_VALUE) \o CallFunction("function", ""))),
        <<>>)
\* Arguments of two signatures.
NoneLinkageTest ==
    LET signature(name, id) == Executable(name, TRUE, "program") \o EmitDefinition(id, "arg", "here", Lost)
    IN  TestModule(<<>>, signature("first_sig", "firstArg") \o signature("second_sig", "secondArg") \o ModuleScope
            \o Kernel(<<>>, ReturnValue("test_kernel")), <<>>)

\* Two modules.
DoubleModuleVariableTest(segment) ==
    TestModule(EmitDeclaration("var", "var", "program"),
        Kernel(<<>>, When(segment \notin {"global", "readonly"}, St("var", VALUE)) \o Ld("var")), <<>>)
    \o Module("second")
    \o EmitDefinition("var", "var", "program", IF segment \in {"global", "readonly"} THEN VALUE ELSE Lost)
DoubleKernelTest ==
    TestModule(EmitDeclaration("var", "var", "program"), Kernel(<<>>, Ld("var")), <<>>)
    \o Module("second_module") \o EmitDefinition("var", "var", "program", Lost)
    \o Executable("first_kernel", TRUE, "program") \o Body(St("var", VALUE))

LinkageTests ==
    [of : {"module variable"}, linkage : {"program", "module"}, segment : {"global", "group", "private", "readonly"}]
    \cup [of : {"module function", "module kernel", "module fbarrier"}, linkage : {"program", "module"}, segment : {"none"}]
    \cup [of : {"function variable"}, linkage : {"function"}, segment : {"global", "group", "private", "spill", "readonly"}]
    \cup [of : {"function kernarg", "function arg", "function fbarrier", "arg", "none", "double kernel"},
          linkage : {"function"}, segment : {"none"}]
    \cup [of : {"double variable"}, linkage : {"program"}, segment : {"global", "group", "private", "readonly"}]
CallsOf(t) ==
    CASE t.of = "module variable" -> ModuleScopeVariableLinkageTest(t.linkage, t.segment)
      [] t.of = "module function" -> ModuleScopeFunctionLinkageTest(t.linkage)
      [] t.of = "module kernel" -> ModuleScopeKernelLinkageTest(t.linkage)
      [] t.of = "module fbarrier" -> ModuleScopeFBarrierLinkageTest(t.linkage)
      [] t.of = "function variable" -> FunctionLinkageVariableTest(t.segment)
      [] t.of = "function kernarg" -> FunctionLinkageKernargTest
      [] t.of = "function arg" -> FunctionLinkageArgTest
      [] t.of = "function fbarrier" -> FunctionLinkageFBarrierTest
      [] t.of = "arg" -> ArgLinkageTest
      [] t.of = "none" -> NoneLinkageTest
      [] t.of = "double variable" -> DoubleModuleVariableTest(t.segment)
      [] t.of = "double kernel" -> DoubleKernelTest
\* A kernel of module linkage is found with the name of its module only.
Dispatched(t, name) ==
    [linkage |-> IF t.of = "module kernel" /\ t.linkage = "module" THEN "module" ELSE "program", name |-> <<name, 0>>,
     place |-> IF t.of = "module kernel" /\ t.linkage = "module" THEN <<"module">> ELSE <<>>]
DispatchesOf(t) ==
    When(t.of = "double kernel", <<Dispatched(t, "first_kernel")>>) \o <<Dispatched(t, "test_kernel")>>
-----------------------------------------------------------------------------

(* The objects of a test link, and its kernel returns the value that its    *)
(* own variable, function or kernel gave; fbarriers are used as they may be *)
(* and released at the end (LibrariesTests.cpp).                            *)
LinkageResolvedOn(st, dispatches) ==
    LET run == RunDispatches(st, dispatches)
    IN  /\ Linked(st)
        /\ \A i \in DOMAIN dispatches : \E d \in ToSet(st.directives) : d.definition /\ d.object = dispatches[i]
        /\ run.ok /\ run.register = VALUE
        /\ \A o \in DOMAIN run.fbarriers : run.fbarriers[o] = "none"
=============================================================================
