--------------------------- MODULE DirectiveTests ---------------------------
(***************************************************************************)
(* The module that a test with one kernel writes (EmittedTest::Program),   *)
(* and the tests that put directives into it (DirectiveTests.cpp).  A test *)
(* is the sequence of its calls to the emitter, which numbers registers    *)
(* anew in each body and keeps the ones it has made: the identifier of the *)
(* work-item and the address of the buffer are loaded when they are first  *)
(* asked for, and not again.                                               *)
(***************************************************************************)
EXTENDS WorkItemTests

DefaultGeometry == Geometry(3, <<35, 5, 3>>, <<9, 4, 2>>)
RESULT_VALUE == 1
Provided(condition, calls) == IF condition THEN calls ELSE <<>>

\* Calls: text without registers, a new register, an instruction, the start of a body.
Say(op, what) == [call |-> "text", op |-> op, what |-> what]
AddTReg(id, type) == [call |-> "register", id |-> id, type |-> type]
EmitInst(op, to, from, what) == [call |-> "instruction", op |-> op, to |-> to, from |-> from, what |-> what]
EmitWorkitemFlatAbsId == [call |-> "cached", op |-> "workitemflatabsid", id |-> "workitem"]
Address == [call |-> "cached", op |-> "ld_kernarg", id |-> "address"]
StartKernelBody == [call |-> "body", op |-> "body"]

\* registers[id] is the register that the object id of the test stands for.
NewEmitter == [code |-> <<>>, next |-> [t \in {"c", "s", "d"} |-> 0], registers |-> <<>>]
NewRegister(e, id, type) ==
    [e EXCEPT !.registers = [r \in DOMAIN @ \cup {id} |-> IF r = id THEN <<type, e.next[type]>> ELSE @[r]],
              !.next[type] = @ + 1]
Append2Code(e, op, to, from, what) ==
    [e EXCEPT !.code = Append(@, [op |-> op, to |-> to, from |-> from, what |-> what])]
Perform(e, c) ==
    CASE c.call = "text" -> Append2Code(e, c.op, {}, <<>>, c.what)
      [] c.call = "register" -> NewRegister(e, c.id, c.type)
      [] c.call = "instruction" ->
            Append2Code(e, c.op, {e.registers[r] : r \in c.to}, [i \in DOMAIN c.from |-> e.registers[c.from[i]]], c.what)
      [] c.call = "cached" ->
            IF c.id \in DOMAIN e.registers THEN e
            ELSE LET n == NewRegister(e, c.id, "d") IN Append2Code(n, c.op, {n.registers[c.id]}, <<>>, 0)
      [] c.call = "body" ->
            Append2Code([e EXCEPT !.next = [t \in DOMAIN @ |-> 0]], "body", {}, <<>>, 0)
EmittedBy(calls) == FoldLeft(Perform, NewEmitter, calls).code
-----------------------------------------------------------------------------
(* Tests of annotations, of which a test has one, at one of its locations.  *)
ArgBlock == {"start_arg_block", "middle_of_arg_block", "end_arg_block"}
AnnotationLocations ==
    {"before_version", "after_version", "end_module", "before_module_variable", "after_module_variable",
     "start_kernel", "end_kernel", "middle_of_kernel", "start_function", "end_function", "middle_of_function"}
    \cup ArgBlock
NeedsArgBlock(at) == at \in ArgBlock
CodeLocation(at) == IF at \in {"start_function", "end_function", "middle_of_function"} THEN "function" ELSE "kernel"
At(t, places) == Provided(t.of = "annotation" /\ t.at \in places, <<Say("annotation", "")>>)

SkipResult == <<AddTReg("result", "s"), EmitInst("mov", {"result"}, <<>>, RESULT_VALUE)>>
EmitArgBlock(t) ==
    <<Say("arg scope", "")>> \o At(t, {"start_arg_block"})
    \o <<AddTReg("tmp", "s"), EmitInst("mul", {"tmp"}, <<"result">>, 123456789), Say("nop", "")>>
    \o At(t, {"middle_of_arg_block"})
    \o <<EmitInst("add", {"tmp"}, <<"tmp", "result">>, 0), EmitInst("sub", {"tmp"}, <<"tmp", "tmp">>, 0),
         EmitInst("add", {"result"}, <<"result", "tmp">>, 0), Say("call", "empty_function")>>
    \o At(t, {"end_arg_block"}) \o <<Say("end arg scope", "")>>
AnnotationResult(t) ==
    SkipResult \o Provided(NeedsArgBlock(t.at), EmitArgBlock(t)) \o At(t, {"middle_of_kernel", "middle_of_function"})

\* A pragma of three operands: variables by their names, numbers and strings as they are generated.
PragmaOperandTypes == {"identifier", "integer", "string"}
GenerateIdentified(i) == <<"identifier", i>>
InitializeOperand(types, i) ==
    IF types[i] = "identifier" THEN GenerateIdentified(i)
    ELSE <<types[i], Cardinality({j \in 1..i : types[j] = types[i]})>>
PragmaResult(t) ==
    <<Say("pragma", [i \in 1..3 |-> InitializeOperand(t.types, i)])>> \o SkipResult

\* Control directives, and extensions.
ValidExtensions == {"IMAGE", "CORE", ""}
ExceptionDirectives == {"break", "detect"}
ValidExceptionNumbers == 0..31
EmitControlDirective(t) ==
    CASE t.directive \in ExceptionDirectives -> t.number
      [] t.directive \in GeometryDirectives -> EmitControlDirectiveGeometry(DefaultGeometry, t.directive)
      [] t.directive = "dynamic group size" -> 0
ControlDirectives(t, location) ==
    Provided(t.of = "control" /\ t.location = location, <<Say("control", [directive |-> t.directive, value |-> EmitControlDirective(t)])>>)

DirectiveTests ==
    [of : {"annotation"}, at : AnnotationLocations]
    \cup [of : {"pragma"}, types : [1..3 -> PragmaOperandTypes]]
    \cup [of : {"control"}, location : {"kernel", "function"}, directive : GeometryDirectives \cup {"dynamic group size"}]
    \cup [of : {"control"}, location : {"kernel", "function"}, directive : ExceptionDirectives, number : {31}]
    \cup [of : {"control"}, location : {"kernel"}, directive : ExceptionDirectives, number : ValidExceptionNumbers]
    \cup [of : {"extension"}, names : {<<n>> : n \in ValidExtensions} \cup {<<m, n>> : m, n \in ValidExtensions \ {"CORE"}}]
LocationOf(t) ==
    CASE t.of = "annotation" -> CodeLocation(t.at)
      [] t.of = "control" -> t.location
      [] OTHER -> "kernel"
-----------------------------------------------------------------------------
(* The module.                                                              *)
AnnotatedResult(t) ==
    CASE t.of = "annotation" -> AnnotationResult(t)
      [] t.of = "pragma" -> PragmaResult(t)
      [] OTHER -> SkipResult

StartAnnotated(t) == At(t, {"before_version"}) \o <<Say("module", "")>> \o At(t, {"after_version"})
ModuleDirectives(t) == Provided(t.of = "extension", [i \in DOMAIN t.names |-> Say("extension", t.names[i])])
AnnotatedVariables(t) ==
    Provided(t.of = "annotation",
         At(t, {"before_module_variable"}) \o <<Say("variable", "var1")>> \o At(t, {"after_module_variable"})
         \o <<Say("variable", "var2")>>)
EndModule(t) == At(t, {"end_module"})

Function(t) ==
    <<Say("function", "test_function"), Say("formal", "result"), StartKernelBody>> \o At(t, {"start_function"})
    \o ControlDirectives(t, "function")
    \o AnnotatedResult(t) \o <<EmitInst("st_arg", {}, <<"result">>, 0)>>
    \o At(t, {"end_function"}) \o <<Say("end", "")>>

StartKernel(t) ==
    Provided(t.of = "annotation" /\ NeedsArgBlock(t.at), <<Say("function", "empty_function"), StartKernelBody, Say("end", "")>>)
    \o <<Say("kernel", "test_kernel")>>
PragmaVariables(t) == Provided(t.of = "pragma", [i \in 1..3 |-> Say("variable", GenerateIdentified(i))])
KernelResult(t) ==
    IF LocationOf(t) = "kernel" THEN AnnotatedResult(t)
    ELSE <<AddTReg("functionResult", "s"), Say("arg scope", ""), Say("arg", "output"), Say("call", "test_function"),
           EmitInst("ld_arg", {"functionResult"}, <<>>, 0), Say("end arg scope", "")>>
EmitStoreResult(src, index) ==
    <<Address, AddTReg("full", "d"), EmitInst("mad", {"full"}, <<index, "address">>, 1), EmitInst("st", {}, <<"full", src>>, 0)>>
\* Of a grid of any size, the last work-item stores.
Boundary == GridSize(DefaultGeometry) - 1
KernelCode(t) ==
    <<EmitWorkitemFlatAbsId, AddTReg("condition", "c"), EmitInst("cmp_ge", {"condition"}, <<"workitem">>, Boundary),
      EmitInst("cbr", {}, <<"condition">>, "@then"), EmitInst("br", {}, <<>>, "@endif"), Say("label", "@then"),
      AddTReg("index", "d"), EmitInst("sub_imm", {"index"}, <<"workitem">>, Boundary)>>
    \o KernelResult(t)
    \o EmitStoreResult(IF LocationOf(t) = "kernel" THEN "result" ELSE "functionResult", "index")
    \o <<Say("label", "@endif")>>
AnnotatedKernel(t) ==
    StartKernel(t) \o <<Say("formal", "output"), StartKernelBody>> \o At(t, {"start_kernel"})
    \o ControlDirectives(t, "kernel") \o PragmaVariables(t) \o KernelCode(t)
    \o At(t, {"end_kernel"}) \o <<Say("end", "")>>
Executables(t) == Provided(LocationOf(t) = "function", Function(t)) \o AnnotatedKernel(t)

AnnotatedModule(t) == StartAnnotated(t) \o ModuleDirectives(t) \o AnnotatedVariables(t) \o Executables(t) \o EndModule(t)
-----------------------------------------------------------------------------
(* The grammar of a module, as the parts in which a text may stand and the  *)
(* part that comes after it.  Annotations may stand in all but signatures.  *)
Instructions == {"mov", "mul", "add", "sub", "sub_imm", "cmp_ge", "cbr", "br", "mad", "st", "nop", "label",
                 "workitemflatabsid", "ld_kernarg"}
Keep(parts) == [p \in parts |-> p]
To(parts, part) == [p \in parts |-> part]
BlockParts == {"block directives", "block definitions", "block"}
ArgParts == {"arg definitions", "arg block"}
Grammar(op) ==
    CASE op = "module" -> To({"start"}, "extensions")
      [] op = "extension" -> Keep({"extensions"})
      [] op = "variable" -> To({"extensions", "module"}, "module") @@ To({"block directives", "block definitions"}, "block definitions")
      [] op \in {"kernel", "function"} -> To({"extensions", "module"}, "signature")
      [] op = "formal" -> Keep({"signature"})
      [] op = "body" -> To({"signature"}, "block directives")
      [] op = "control" -> Keep({"block directives"})
      [] op \in Instructions -> To(BlockParts, "block") @@ To(ArgParts, "arg block")
      [] op = "arg scope" -> To(BlockParts, "arg definitions")
      [] op = "arg" -> Keep({"arg definitions"})
      [] op \in {"call", "ld_arg"} -> To(ArgParts, "arg block")
      [] op = "st_arg" -> To(BlockParts, "block")
      [] op = "end arg scope" -> To(ArgParts, "block")
      [] op = "end" -> To(BlockParts, "module")
      [] op \in {"annotation", "pragma"} -> Keep({"start", "extensions", "module"} \cup BlockParts \cup ArgParts)
Parts(code) ==
    FoldLeft(LAMBDA parts, k : Append(parts, IF Last(parts) \in DOMAIN Grammar(k.op) THEN Grammar(k.op)[Last(parts)] ELSE "error"),
             <<"start">>, code)

\* The instructions of an executable, and what they do for work-item i.
BodyOf(code, name) ==
    LET from == CHOOSE j \in DOMAIN code : code[j].op \in {"kernel", "function"} /\ code[j].what = name
    IN  SubSeq(code, from, Min({j \in DOMAIN code : j > from /\ code[j].op = "end"}))
Computed(k, v, i, arg) ==
    CASE k.op = "mov" -> k.what
      [] k.op = "workitemflatabsid" -> i
      [] k.op = "ld_kernarg" -> 0
      [] k.op = "ld_arg" -> arg
      [] k.op = "mul" -> v[1] * k.what
      [] k.op = "add" -> v[1] + v[2]
      [] k.op = "sub" -> v[1] - v[2]
      [] k.op = "sub_imm" -> v[1] - k.what
      [] k.op = "cmp_ge" -> v[1] >= k.what
      [] k.op = "mad" -> v[1] * k.what + v[2]
StepCode(s, k, i, returned) ==
    IF ~s.ok THEN s
    ELSE IF s.goto # "" THEN (IF k.op = "label" /\ k.what = s.goto THEN [s EXCEPT !.goto = ""] ELSE s)
    ELSE IF ~(ToSet(k.from) \subseteq DOMAIN s.registers) THEN [s EXCEPT !.ok = FALSE]
    ELSE LET v == [j \in DOMAIN k.from |-> s.registers[k.from[j]]] IN
         CASE k.to # {} ->
                [s EXCEPT !.registers = [r \in DOMAIN @ \cup k.to |-> IF r \in k.to THEN Computed(k, v, i, s.arg) ELSE @[r]]]
           [] k.op = "br" \/ (k.op = "cbr" /\ v[1]) -> [s EXCEPT !.goto = k.what]
           [] k.op = "call" /\ k.what = "test_function" -> [s EXCEPT !.arg = returned]
           [] k.op = "st_arg" -> [s EXCEPT !.arg = v[1]]
           [] k.op = "st" -> [s EXCEPT !.stored = Append(@, <<v[1], v[2]>>)]
           [] OTHER -> s
RunBody(code, name, i, returned) ==
    FoldLeft(LAMBDA s, k : StepCode(s, k, i, returned),
             [ok |-> TRUE, goto |-> "", registers |-> <<>>, arg |-> 0, stored |-> <<>>], BodyOf(code, name))
-----------------------------------------------------------------------------

(* The annotation of a test stands once, in the part that its name says.    *)
AnnotatedOn(t, code, parts) ==
    LET Here == {k \in DOMAIN code : code[k].op = "annotation"}
        Header(k) == LET h == {j \in 1..k : code[j].op \in {"kernel", "function"}} IN IF h = {} THEN "" ELSE code[Max(h)].what
        Before(k) == IF k = 1 THEN "" ELSE code[k - 1].op
        After(k) == IF k = Len(code) THEN "" ELSE code[k + 1].op
        Var(k, n) == k \in DOMAIN code /\ code[k].op = "variable" /\ code[k].what = n
        In(k) == CASE t.at = "before_version" -> k = 1
                   [] t.at = "after_version" -> Before(k) = "module"
                   [] t.at = "end_module" -> k = Len(code)
                   [] t.at = "before_module_variable" -> Var(k + 1, "var1")
                   [] t.at = "after_module_variable" -> Var(k - 1, "var1")
                   [] t.at \in {"start_kernel", "start_function"} -> Before(k) = "body"
                   [] t.at \in {"end_kernel", "end_function"} -> After(k) = "end"
                   [] t.at \in {"middle_of_kernel", "middle_of_function"} -> parts[k] = "block" /\ After(k) # "end"
                   [] t.at = "start_arg_block" -> Before(k) = "arg scope"
                   [] t.at = "end_arg_block" -> After(k) = "end arg scope"
                   [] t.at = "middle_of_arg_block" -> parts[k] = "arg block" /\ After(k) # "end arg scope"
    IN  \E k \in Here : /\ Here = {k} /\ In(k)
                        /\ parts[k] \in BlockParts \cup ArgParts =>
                              Header(k) = (IF CodeLocation(t.at) = "function" THEN "test_function" ELSE "test_kernel")

(* A test's module parses; it calls and names what is defined before; its   *)
(* extensions may stand together; no instruction reads a register that its  *)
(* own body has not written; and the last work-item alone stores, once, the *)
(* value that the host expects.                                             *)
ModuleEmittedOn(t) ==
    LET code == EmittedBy(AnnotatedModule(t))
        parts == Parts(code)
        last == GridSize(DefaultGeometry) - 1
        extensions == {code[k].what : k \in {j \in DOMAIN code : code[j].op = "extension"}}
    IN  /\ Last(parts) \in {"extensions", "module"}
        /\ \A k \in DOMAIN code : code[k].op = "call" =>
              \E j \in 1..(k - 1) : code[j].op = "function" /\ code[j].what = code[k].what
        /\ \A k \in DOMAIN code : code[k].op = "pragma" => \A i \in 1..3 :
              /\ code[k].what[i][1] = t.types[i]
              /\ t.types[i] = "identifier" => \E j \in 1..(k - 1) : code[j].op = "variable" /\ code[j].what = code[k].what[i]
        /\ "CORE" \in extensions => extensions = {"CORE"}
        /\ t.of = "annotation" => AnnotatedOn(t, code, parts)
        /\ t.of = "control" =>
              \E k \in DOMAIN BodyOf(code, IF t.location = "function" THEN "test_function" ELSE "test_kernel") :
                 BodyOf(code, IF t.location = "function" THEN "test_function" ELSE "test_kernel")[k].op = "control"
        /\ \A i \in {0, last - 1, last} :
              LET called == IF LocationOf(t) = "function" THEN RunBody(code, "test_function", i, 0).arg ELSE 0
                  run == RunBody(code, "test_kernel", i, called)
              IN  /\ LocationOf(t) = "function" => RunBody(code, "test_function", i, 0).ok
                  /\ run.ok
                  /\ run.stored = IF i = last THEN <<<<0, RESULT_VALUE>>>> ELSE <<>>
=============================================================================
