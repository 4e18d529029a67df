------------------------------ MODULE Branches ------------------------------
(***************************************************************************)
(* Conditions, the code that is emitted for them (ECondition), and the     *)
(* tests of branches.  A test is a list of calls of the emitter, which     *)
(* keeps the labels of every condition and appends instructions; its       *)
(* kernel is run for each work-item, and the result is compared with the   *)
(* one that the test works out on the host.                                *)
(***************************************************************************)
EXTENDS Grids

\* The branches of a switch on an input of the host: 16 in the code.
HOST_BRANCHES == 4

\* Widths that are not numbers.
WIDTH_WAVESIZE == -1
WIDTH_ALL == -2
Condition(type, input, width) == [type |-> type, input |-> input, width |-> width]

EffectiveWidth(c, g, wavesize) ==
    Min({IF c.width = WIDTH_WAVESIZE THEN wavesize ELSE IF c.width = WIDTH_ALL THEN WorkgroupSize(g) ELSE c.width,
         WorkgroupSize(g)})
SwitchBranchCount(c, wavesize) ==
    CASE c.input = "host" -> HOST_BRANCHES
      [] c.input = "path0" -> 2
      [] c.input = "path1" -> 3
      [] c.input = "wavesize" -> wavesize + 1
InputValue(c, wi, g, wavesize) ==
    (wi \div EffectiveWidth(c, g, wavesize)) % (IF c.type = "binary" THEN 2 ELSE SwitchBranchCount(c, wavesize))
IsTrueFor(c, wi, g, wavesize) ==
    CASE c.input = "host" -> InputValue(c, wi, g, wavesize) # 0
      [] c.input = "path0" -> FALSE
      [] OTHER -> TRUE
ExpectedSwitchPath(c, wi, g, wavesize) ==
    CASE c.input = "host" -> InputValue(c, wi, g, wavesize) + 1
      [] c.input = "path0" -> 1
      [] c.input = "path1" -> 2
      [] c.input = "wavesize" -> wavesize + 1

\* The operands of cbr and sbr: an element of the input buffer, or a constant.
CondOperand(c, wi, g, wavesize) ==
    CASE c.input = "host" -> InputValue(c, wi, g, wavesize) # 0
      [] c.input = "path0" -> FALSE
      [] c.input \in {"path1", "wavesize"} -> TRUE
SwitchOperand(c, wi, g, wavesize) ==
    CASE c.input = "host" -> InputValue(c, wi, g, wavesize)
      [] c.input = "path0" -> 0
      [] c.input = "path1" -> 1
      [] c.input = "wavesize" -> wavesize
-----------------------------------------------------------------------------
(* Emission: the code, how many labels were added, and the labels of the   *)
(* conditions, which are numbered.                                         *)
Conds == 1..3
NoCode == [code |-> <<>>, added |-> 0, lThen |-> [k \in Conds |-> 0], lElse |-> [k \in Conds |-> 0],
           lEnd |-> [k \in Conds |-> 0], labels |-> [k \in Conds |-> <<>>]]

Mov(v) == [op |-> "mov", value |-> v]
Br(to) == [op |-> "br", to |-> to]
Cbr(k, to) == [op |-> "cbr", cond |-> k, to |-> to]
Sbr(k, to) == [op |-> "sbr", cond |-> k, to |-> to]
Label(name) == [op |-> "label", name |-> name]
Emitted(e, instructions) == [e EXCEPT !.code = @ \o instructions]

EmitIfThenStart(e, k) ==
    Emitted([e EXCEPT !.added = @ + 2, !.lThen[k] = e.added + 1, !.lEnd[k] = e.added + 2],
            <<Cbr(k, e.added + 1), Br(e.added + 2), Label(e.added + 1)>>)
EmitIfThenStartSand(e, k, outer) ==
    Emitted([e EXCEPT !.added = @ + 1, !.lThen[k] = e.added + 1],
            <<Cbr(k, e.added + 1), Br(e.lEnd[outer]), Label(e.added + 1)>>)
EmitIfThenStartSor(e, k) ==
    Emitted([e EXCEPT !.added = @ + 1, !.lThen[k] = e.added + 1], <<Cbr(k, e.added + 1)>>)
EmitIfThenStartSorOf(e, k, first) ==
    Emitted([e EXCEPT !.added = @ + 1, !.lEnd[k] = e.added + 1],
            <<Cbr(k, e.lThen[first]), Br(e.added + 1), Label(e.lThen[first])>>)
EmitIfThenEnd(e, k) == Emitted(e, <<Label(e.lEnd[k])>>)

EmitIfThenElseStart(e, k) ==
    Emitted([e EXCEPT !.added = @ + 3, !.lThen[k] = e.added + 1, !.lElse[k] = e.added + 2, !.lEnd[k] = e.added + 3],
            <<Cbr(k, e.added + 1), Br(e.added + 2), Label(e.added + 1)>>)
EmitIfThenElseOtherwise(e, k) == Emitted(e, <<Br(e.lEnd[k]), Label(e.lElse[k])>>)
EmitIfThenElseEnd(e, k) == Emitted(e, <<Label(e.lEnd[k])>>)

EmitSwitchStart(e, k, count) ==
    LET new == e.labels[k] \o [i \in 1..count |-> e.added + i]
    IN  Emitted([e EXCEPT !.added = @ + count + 1, !.labels[k] = new, !.lEnd[k] = e.added + count + 1],
                <<Sbr(k, new)>>)
EmitSwitchBranchStart(e, k, i) == Emitted(e, <<Br(e.lEnd[k]), Label(e.labels[k][i])>>)
\* A mutation: the labels of a switch are not cleared for the next one.
LabelsKept(e, k) == Emitted(e, <<Label(e.lEnd[k])>>)
EmitSwitchEnd(e, k) == Emitted([e EXCEPT !.labels[k] = <<>>], <<Label(e.lEnd[k])>>)
-----------------------------------------------------------------------------
(* The calls of a test.                                                     *)
Call(name, k) == [op |-> name, cond |-> k]
If(k) == Call("if", k)
EndIf(k) == Call("end if", k)
IfElse(k) == Call("if else", k)
Else(k) == Call("else", k)
EndIfElse(k) == Call("end if else", k)

Emit(e, call) ==
    CASE call.op = "mov" -> Emitted(e, <<call>>)
      [] call.op = "if" -> EmitIfThenStart(e, call.cond)
      [] call.op = "sand" -> EmitIfThenStartSand(e, call.cond, call.with)
      [] call.op = "sor" -> EmitIfThenStartSor(e, call.cond)
      [] call.op = "sor of" -> EmitIfThenStartSorOf(e, call.cond, call.with)
      [] call.op = "end if" -> EmitIfThenEnd(e, call.cond)
      [] call.op = "if else" -> EmitIfThenElseStart(e, call.cond)
      [] call.op = "else" -> EmitIfThenElseOtherwise(e, call.cond)
      [] call.op = "end if else" -> EmitIfThenElseEnd(e, call.cond)
      [] call.op = "switch" -> EmitSwitchStart(e, call.cond, call.count)
      [] call.op = "branch" -> EmitSwitchBranchStart(e, call.cond, call.of)
      [] call.op = "end switch" -> EmitSwitchEnd(e, call.cond)

CbrBasicTest == <<Mov(2), If(1), Mov(1), EndIf(1)>>
CbrIfThenElseTest == <<Mov(3), IfElse(1), Mov(1), Else(1), Mov(2), EndIfElse(1)>>
CbrNestedTest == <<Mov(3), If(1), Mov(2), If(2), Mov(1), EndIf(2), EndIf(1)>>
CbrIfThenElseNestedInThenTest ==
    <<Mov(4), IfElse(1), IfElse(2), Mov(1), Else(2), Mov(2), EndIfElse(2), Else(1), Mov(3), EndIfElse(1)>>
CbrIfThenElseNestedInElseTest ==
    <<Mov(4), IfElse(1), Mov(1), Else(1), IfElse(2), Mov(2), Else(2), Mov(3), EndIfElse(2), EndIfElse(1)>>
CbrIfThenElseNestedTest ==
    <<Mov(5), IfElse(1), IfElse(2), Mov(1), Else(2), Mov(2), EndIfElse(2), Else(1),
      IfElse(3), Mov(3), Else(3), Mov(4), EndIfElse(3), EndIfElse(1)>>
CbrSandTest ==
    <<Mov(3), If(1), Mov(2), [op |-> "sand", cond |-> 2, with |-> 1], Mov(1), EndIf(1)>>
CbrSorTest ==
    <<Mov(3), Call("sor", 1), Mov(2), [op |-> "sor of", cond |-> 2, with |-> 1], Mov(1), EndIf(2)>>

Switch(k, count, inBranch) ==
    <<[op |-> "switch", cond |-> k, count |-> count], Mov(count + 2)>>
    \o FlattenSeq([i \in 1..count |-> <<[op |-> "branch", cond |-> k, of |-> i], Mov(i)>> \o inBranch[i]])
    \o <<Call("end switch", k)>>
SbrBasicTest(count) == <<Mov(count + 1)>> \o Switch(1, count, [i \in 1..count |-> <<>>])
\* With the wavesize as its input only the last branch has a switch in it.
SbrNestedTest(c, count) ==
    LET inner == Switch(2, count, [i \in 1..count |-> <<>>])
    IN  <<Mov(count + 1)>> \o Switch(1, count,
            [i \in 1..count |-> IF c.input = "wavesize" /\ i # count THEN <<>> ELSE inner])
\* Two conditions are made for the same parameters.
IsValidNested(c, c2) == c = c2

Calls(test, conds, wavesize) ==
    CASE test = "cbr" -> CbrBasicTest
      [] test = "ifthenelse" -> CbrIfThenElseTest
      [] test = "nested" -> CbrNestedTest
      [] test = "inthen" -> CbrIfThenElseNestedInThenTest
      [] test = "inelse" -> CbrIfThenElseNestedInElseTest
      [] test = "inboth" -> CbrIfThenElseNestedTest
      [] test = "sand" -> CbrSandTest
      [] test = "sor" -> CbrSorTest
      [] test = "sbr" -> SbrBasicTest(SwitchBranchCount(conds[1], wavesize))
      [] test = "sbr nested" -> SbrNestedTest(conds[1], SwitchBranchCount(conds[1], wavesize))

\* then: for each condition, whether the host expects the path of then.
ExpectedResult(test, then, path) ==
    CASE test \in {"cbr", "ifthenelse"} -> IF then[1] THEN 1 ELSE 2
      [] test \in {"nested", "inthen", "sand"} -> IF ~then[1] THEN 3 ELSE IF then[2] THEN 1 ELSE 2
      [] test = "inelse" -> IF then[1] THEN 1 ELSE IF then[2] THEN 2 ELSE 3
      [] test = "inboth" -> IF then[1] THEN (IF then[2] THEN 1 ELSE 2) ELSE IF then[3] THEN 3 ELSE 4
      [] test = "sor" -> IF then[1] \/ then[2] THEN 1 ELSE 2
      [] test \in {"sbr", "sbr nested"} -> path
-----------------------------------------------------------------------------
(* The agent (external).  Branches go forward, so a work-item that jumps    *)
(* skips what comes before the label.                                       *)
Executed(s, i, taken, case) ==
    IF s.to # 0 THEN IF i.op = "label" /\ i.name = s.to THEN [s EXCEPT !.to = 0] ELSE s
    ELSE CASE i.op = "mov" -> [s EXCEPT !.result = i.value]
           [] i.op = "br" -> [s EXCEPT !.to = i.to]
           [] i.op = "cbr" -> IF taken[i.cond] THEN [s EXCEPT !.to = i.to] ELSE s
           [] i.op = "sbr" -> [s EXCEPT !.to = i.to[case[i.cond] + 1]]
           [] i.op = "label" -> s
Run(code, taken, case) ==
    FoldLeft(LAMBDA s, i : Executed(s, i, taken, case), [result |-> 0, to |-> 0], code)
SeveralWaves(wavesize) == Geometry(1, <<wavesize * 4, 1, 1>>, <<wavesize, 1, 1>>)

\* The work-items of a group that a branch of this width promises to take alike.
WidthGroup(c, wi, g, wavesize) ==
    LET width == IF c.width = WIDTH_WAVESIZE THEN wavesize ELSE IF c.width = WIDTH_ALL THEN WorkgroupSize(g) ELSE c.width
    IN  {w \in 0..(GridSize(g) - 1) :
            /\ w \div WorkgroupSize(g) = wi \div WorkgroupSize(g)
            /\ (w % WorkgroupSize(g)) \div width = (wi % WorkgroupSize(g)) \div width}
-----------------------------------------------------------------------------
(* Every label is placed once, after the branches to it.                    *)
LabelsPlacedOn(code) ==
    LET Targets(i) == IF i.op = "sbr" THEN ToSet(i.to) ELSE IF i.op \in {"br", "cbr"} THEN {i.to} ELSE {}
        Places(name) == {j \in 1..Len(code) : code[j].op = "label" /\ code[j].name = name}
    IN  /\ \A i \in 1..Len(code) : \A name \in Targets(code[i]) : \E j \in Places(name) : j > i
        /\ \A i \in 1..Len(code) : code[i].op = "label" => Places(code[i].name) = {i}

(* A work-item ends with the result that is expected of it.                 *)
ResultTakenOn(code, test, conds, wi, g, wavesize) ==
    LET n == Len(conds)
        isSwitch == conds[1].type = "switch"
        s == Run(code,
                 [k \in 1..n |-> ~isSwitch /\ CondOperand(conds[k], wi, g, wavesize)],
                 [k \in 1..n |-> IF isSwitch THEN SwitchOperand(conds[k], wi, g, wavesize) ELSE 0])
    IN  s = [result |-> ExpectedResult(test, [k \in 1..n |-> ~isSwitch /\ IsTrueFor(conds[k], wi, g, wavesize)],
                            IF isSwitch THEN ExpectedSwitchPath(conds[1], wi, g, wavesize) ELSE 0),
             to |-> 0]

(* The work-items that a branch has to take alike have the same input.      *)
UniformOn(c, wi, g, wavesize) ==
    \A w \in WidthGroup(c, wi, g, wavesize) :
        InputValue(c, w, g, wavesize) = InputValue(c, wi, g, wavesize)

\* All of these for one test, on the grid of several waves.
CodeOf(test, conds, wavesize) == FoldLeft(Emit, NoCode, Calls(test, conds, wavesize)).code
BranchHoldsOn(code, test, conds, g, wavesize) ==
    /\ LabelsPlacedOn(code)
    /\ \A wi \in 0..(GridSize(g) - 1) :
        /\ ResultTakenOn(code, test, conds, wi, g, wavesize)
        /\ \A k \in DOMAIN conds : UniformOn(conds[k], wi, g, wavesize)
BranchesOn(test, conds, wavesize) ==
    BranchHoldsOn(CodeOf(test, conds, wavesize), test, conds, SeveralWaves(wavesize), wavesize)
=============================================================================
