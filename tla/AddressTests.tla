---------------------------- MODULE AddressTests ----------------------------
(***************************************************************************)
(* Tests of conversions between addresses of a segment and flat addresses  *)
(* (AddressTests.cpp), with the instructions that the emitter makes for    *)
(* them.  A kernel is a sequence of instructions on named registers; the   *)
(* agent that runs it maps each segment somewhere into the flat ones, and  *)
(* has null addresses of its own.                                          *)
(***************************************************************************)
EXTENDS CoreConfig

CONSTANT Unstored          \* what memory holds that nothing was stored to
Datum == "datum"        \* BrigEmitter::GenerateTestValue

-----------------------------------------------------------------------------
(* BrigEmitter.  A pointer register has the segment that its address is of. *)
AddAReg(id, segment) == [id |-> id, segment |-> segment]
AddressInst(op, segment, nonull, dst, src) ==
    << [op |-> op, segment |-> segment, nonull |-> nonull, dst |-> dst, src |-> src] >>
EmitNullPtr(dst) == AddressInst("nullptr", dst.segment, FALSE, dst.id, dst.id)
EmitStof(dst, src, nonull) == AddressInst("stof", src.segment, nonull, dst.id, src.id)
EmitFtos(dst, src, nonull) == AddressInst("ftos", dst.segment, nonull, dst.id, src.id)
EmitSegmentp(dst, src, segment, nonull) == AddressInst("segmentp", segment, nonull, dst, src.id)
EmitLda(dst) == AddressInst("lda", dst.segment, FALSE, dst.id, dst.id)
EmitStoreAt(data, addr) == AddressInst("st", addr.segment, FALSE, addr.id, data)
EmitLoadAt(data, addr) == AddressInst("ld", addr.segment, FALSE, data, addr.id)
EmitCmpEq(dst, x, y) == AddressInst("eq", "none", FALSE, dst, <<x.id, y.id>>)
-----------------------------------------------------------------------------
(* The agent (external).  Its flat addresses are those of memory, of which  *)
(* each segment has a part; a conforming one converts nulls into nulls.     *)
VariableAddress == 4
SegmentSize == 16
Agent(base, null, converts) == [base |-> base, null |-> null, converts |-> converts]
FlatOf(agent, s, a, nonull) ==
    IF agent.converts /\ ~nonull /\ a = agent.null[s] THEN agent.null.flat ELSE agent.base[s] + a
SegmentOf(agent, s, f, nonull) ==
    IF agent.converts /\ ~nonull /\ f = agent.null.flat THEN agent.null[s] ELSE f - agent.base[s]
InSegment(agent, s, f, nonull) ==
    \/ agent.converts /\ ~nonull /\ f = agent.null.flat
    \/ f \in agent.base[s]..(agent.base[s] + SegmentSize - 1)
ExecuteAddress(agent, state, i) ==
    LET r == state.regs
        memory(reg) == state.place[i.segment] + r[reg]
        set(v) == [state EXCEPT !.regs[i.dst] = v]
    IN  CASE i.op = "nullptr"  -> set(agent.null[i.segment])
          [] i.op = "stof"     -> set(FlatOf(agent, i.segment, r[i.src], i.nonull))
          [] i.op = "ftos"     -> set(SegmentOf(agent, i.segment, r[i.src], i.nonull))
          [] i.op = "segmentp" -> set(IF InSegment(agent, i.segment, r[i.src], i.nonull) THEN 1 ELSE 0)
          [] i.op = "eq"       -> set(IF r[i.src[1]] = r[i.src[2]] THEN 1 ELSE 0)
          [] i.op = "lda"      -> set(VariableAddress)
          [] i.op = "ld"       -> set(state.memory[memory(i.src)])
          [] i.op = "st"       -> [state EXCEPT !.memory[memory(i.dst)] = r[i.src]]
\* Segments are really at `place', where a conforming agent says they are.
RunOn(agent, place, code) ==
    FoldLeft(LAMBDA state, i : ExecuteAddress(agent, state, i),
             [regs |-> [r \in {"a", "b", "c", "result", "data"} |-> IF r = "data" THEN Datum ELSE 0],
              memory |-> [x \in 0..(8 * SegmentSize) |-> Unstored], place |-> place],
             code).regs
-----------------------------------------------------------------------------
(* The tests.  Those of nulls return whether two addresses are equal, or    *)
(* one is of a segment; that of the variable returns what it loads.         *)
HasNullTest(segment) == segment # "flat" /\ HasNullptr(segment)
HasSegmentpTest(segment) == segment # "flat" /\ HasFlatAddress(segment)
HasIdentityTest(segment) == segment # "flat" /\ CanStore(segment) /\ HasFlatAddress(segment)
IdentitySegments == {"private"}                     \* Variables().ByTypeAlign
Case4(test, segment, store, nonull) ==
    [test |-> test, segment |-> segment, segmentStore |-> store, nonull |-> nonull]
AddressTests ==
    {Case4(t, s, FALSE, FALSE) : t \in {"stof null", "ftos null"}, s \in {s \in Segments : HasNullTest(s)}}
    \cup {Case4("segmentp null", s, FALSE, FALSE) : s \in {s \in Segments : HasSegmentpTest(s)}}
    \cup {Case4("stof identity", s, st, n) : s \in {s \in IdentitySegments : HasIdentityTest(s)}, st, n \in BOOLEAN}

StofNull(s) ==
    EmitNullPtr(AddAReg("a", s)) \o EmitStof(AddAReg("b", "flat"), AddAReg("a", s), FALSE)
    \o EmitNullPtr(AddAReg("c", "flat")) \o EmitCmpEq("result", AddAReg("b", "flat"), AddAReg("c", "flat"))
FtosNull(s) ==
    EmitNullPtr(AddAReg("a", "flat")) \o EmitFtos(AddAReg("b", s), AddAReg("a", "flat"), FALSE)
    \o EmitNullPtr(AddAReg("c", s)) \o EmitCmpEq("result", AddAReg("b", s), AddAReg("c", s))
SegmentpNull(s) ==
    EmitNullPtr(AddAReg("a", "flat")) \o EmitSegmentp("result", AddAReg("a", "flat"), s, FALSE)
StofIdentity(s, segmentStore, nonull) ==
    LET seg == AddAReg("a", s)
        flat == AddAReg("b", "flat")
    IN  EmitLda(seg) \o EmitStof(flat, seg, nonull)
        \o (IF segmentStore THEN EmitStoreAt("data", seg) \o EmitLoadAt("result", flat)
            ELSE EmitStoreAt("data", flat) \o EmitLoadAt("result", seg))
AddressTestCode(t) ==
    CASE t.test = "stof null" -> StofNull(t.segment)
      [] t.test = "ftos null" -> FtosNull(t.segment)
      [] t.test = "segmentp null" -> SegmentpNull(t.segment)
      [] t.test = "stof identity" -> StofIdentity(t.segment, t.segmentStore, t.nonull)
AddressExpected(t) == IF t.test = "stof identity" THEN Datum ELSE 1
-----------------------------------------------------------------------------
(* A conforming agent passes, wherever it has its segments and whatever its *)
(* nulls are; one that takes a null for an address fails the tests of nulls *)
(* unless it is right by chance, and the test of a null in the global       *)
(* segment in any case passes; and one whose flat addresses lead elsewhere  *)
(* fails the test of a variable, whose address need not be known not null.  *)
Passes(t, agent, place) == RunOn(agent, place, AddressTestCode(t))["result"] = AddressExpected(t)
FlatBase(p, g) == [flat |-> 0, global |-> 0, private |-> p, group |-> g]
Nulls(n) == [flat |-> 0, global |-> 0, private |-> n, group |-> n]
ConvertedOn(t) ==
    /\ HasAddress(t.segment)
    /\ \A p \in {32, 64}, g \in {48, 96}, n \in {0, 15} :
        /\ Passes(t, Agent(FlatBase(p, g), Nulls(n), TRUE), FlatBase(p, g))
        /\ Passes(t, Agent(FlatBase(p, g), Nulls(n), FALSE), FlatBase(p, g))
              <=> t.test = "stof identity" \/ t.segment = "global"
        /\ Passes(t, Agent(FlatBase(p, g), Nulls(n), TRUE), FlatBase(p + 8, g)) <=> t.test # "stof identity"
=============================================================================
