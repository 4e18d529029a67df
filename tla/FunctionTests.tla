--------------------------- MODULE FunctionTests ---------------------------
(***************************************************************************)
(* The tests of function calls (FunctionsTests.cpp) and of initializers    *)
(* (InitializerTests.cpp): the code of the kernel and of its functions,    *)
(* run for the work-items, against the values that the host works out.     *)
(* A value is a number of a few bits, or a byte.                           *)
(***************************************************************************)
EXTENDS EmittedTests

\* FunctionArguments: an argument of dim elements is passed to a function,
\* which returns it.  The flags of the test (vector or scalar instructions for
\* formals and actuals) reach no instruction: vectors are used wherever there
\* are several elements.
IsValidArguments(dim, forFormals, forActuals) == dim > 0 \/ ~(forFormals \/ forActuals)
ArgumentsInput(gridSize, dim) == [k \in 0..(OutputBufferSize(gridSize, dim) - 1) |-> k]
Copy(dim) == [outputs |-> <<Parameter("result", 1, dim, TRUE)>>, inputs |-> <<Parameter("in", 1, dim, FALSE)>>]
FunctionArgumentsCall(mem, f, wi, dim) ==
    LET actuals == EmitCallSeq(f, <<EmitLoadData(mem, wi, ElementsIn(dim))>>, TRUE)
        in == EmitLoad(actuals[1], 0, ElementsIn(dim), TRUE)
    IN  Returned(f, <<EmitStore(<<>>, 0, in, TRUE)>>, TRUE)[1]
FunctionArguments(gridSize, dim) ==
    FoldLeft(LAMBDA out, wi : EmitStoreData(out, wi, FunctionArgumentsCall(ArgumentsInput(gridSize, dim), Copy(dim), wi, dim)),
             <<>>, [i \in 1..gridSize |-> i - 1])
ExpectedArguments(gridSize, dim) ==
    ExpectedResults([i \in 1..gridSize |-> [j \in 1..ElementsIn(dim) |-> (i - 1) * ElementsIn(dim) + j - 1]])
-----------------------------------------------------------------------------
(* Recursion.                                                              *)
FunctionInput(wi) == wi % 11
RecursiveFactorial(bits) ==
    LET f[n \in 0..10] == IF n = 0 THEN 1 ELSE (f[n - 1] * n) % 2^bits IN f
Factorial(n) == FoldLeft(LAMBDA f, i : f * i, 1, [i \in 1..n |-> i])
RecursiveFibonacci(bits) ==
    LET f[n \in 0..10] == IF n <= 1 THEN 1 ELSE (f[n - 1] + f[n - 2]) % 2^bits IN f
Fibonacci(n) == FoldLeft(LAMBDA s, i : [f |-> s.f + s.f1, f1 |-> s.f], [f |-> 1, f1 |-> 0], [i \in 1..n |-> i]).f

\* sbr and scall take the last of n targets for every index that is beyond.
Selected(index, n) == Min({index, n - 1})
SwitchCall(index) == IF Selected(index, 2) = 0 THEN "first" ELSE "second"

CollatzCall[c \in {"base", "first", "second"} \X Nat] ==
    LET n == c[2]
    IN  CASE c[1] = "base" -> IF n = 1 THEN 0 ELSE CollatzCall[<<SwitchCall(n % 2), n>>]
          [] c[1] = "first" -> CollatzCall[<<"base", n \div 2>>] + 1
          [] c[1] = "second" -> CollatzCall[<<"first", n * 3 + 1>>] + 1
CollatzSteps[n \in Nat] ==
    IF n = 1 THEN 0 ELSE 1 + CollatzSteps[IF n % 2 = 1 THEN 3 * n + 1 ELSE n \div 2]
CollatzRecursiveTest(wi) == CollatzCall[<<"base", wi + 1>>]

\* The limit is 100 in the code.  A comparison gives 0 or all ones.
limitValue == 5
Compared(c, bits) == IF c THEN 2^bits - 1 ELSE 0
LowestBit(cmp) == cmp % 2
IncrementCall[c \in {"base", "first", "second"} \X Nat] ==
    LET n == c[2]
    IN  CASE c[1] = "base" -> IncrementCall[<<SwitchCall(LowestBit(Compared(n >= limitValue, 8))), n>>]
          [] c[1] = "first" -> IncrementCall[<<"base", n + 1>>]
          [] c[1] = "second" -> n
IncrementRecursiveTest(wi) == IncrementCall[<<"base", wi>>]
IncrementExpected(wi) == IF wi >= limitValue THEN wi ELSE limitValue
-----------------------------------------------------------------------------
(* scall: function i returns i, and the work-items call them in turn.      *)
ScallIndex(wi, functionsNumber) == wi % functionsNumber
ScallBasicTest(wi, functionsNumber) ==
    [i \in 1..functionsNumber |-> i - 1][Selected(ScallIndex(wi, functionsNumber), functionsNumber) + 1]
ScallExpected(wi, functionsNumber) == wi % functionsNumber
\* The last ones are the first function again.
callFunctions(functionsNumber, numberRepeating) ==
    [i \in 1..functionsNumber |-> IF i <= functionsNumber - numberRepeating THEN i - 1 ELSE 0]
ScallRepeatingFunctions(wi, functionsNumber, numberRepeating) ==
    callFunctions(functionsNumber, numberRepeating)[Selected(ScallIndex(wi, functionsNumber), functionsNumber) + 1]
FunctionResult(number, functionsNumber, numberRepeating) ==
    IF number < functionsNumber - numberRepeating THEN number ELSE 0
-----------------------------------------------------------------------------
(* Initializers: values of consecutive bytes, two for an element of 128    *)
(* bits.  The code of the kernel copies the variable byte by byte.         *)
Byte(k) == k % 256
generateVector(current, size) == [bytes |-> [i \in 1..size |-> Byte(current + i)], current |-> current + size]
DataSize(dim) == ElementsIn(dim)
\* The values that are given to the variable, which hold 8 bytes at most.
PushInitial(data, typeSize) ==
    Append(data, generateVector(IF data = <<>> THEN 0 ELSE Last(data).current, Min({typeSize, 8})))
InitialData(dim, typeSize) ==
    FoldLeft(LAMBDA data, k : PushInitial(data, typeSize), <<>>,
             [k \in 1..(DataSize(dim) * (IF typeSize = 16 THEN 2 ELSE 1)) |-> k])
EmitInitializer(data) == FlattenSeq([k \in DOMAIN data |-> data[k].bytes])
ResultDim(dim, typeSize) == DataSize(dim) * typeSize

InitializerCode(variable, gridSize, dim, typeSize) ==
    LET places == {<<wi, forEach, byte>> : wi \in 0..(gridSize - 1), forEach \in 0..(DataSize(dim) - 1), byte \in 0..(typeSize - 1)}
        At(p) == p[1] * ResultDim(dim, typeSize) + p[2] * typeSize + p[3]
    IN  [a \in {At(p) : p \in places} |-> variable[(CHOOSE p \in places : At(p) = a)[2] * typeSize
                                                  + (CHOOSE p \in places : At(p) = a)[3] + 1]]
\* The bytes of the values, in the order of the host or of the agent.
PushResult(value, sameEndian) == IF sameEndian THEN value.bytes ELSE Reverse(value.bytes)
ExpectedBytes(data, gridSize, sameEndian) ==
    FlattenSeq([wi \in 1..gridSize |-> FlattenSeq([k \in DOMAIN data |-> PushResult(data[k], sameEndian)])])
-----------------------------------------------------------------------------
(* Signals that are null: each element is stored at the work-item's chunk. *)
NullSignalCode(gridSize, dim, size) ==
    {wi * (DataSize(dim) * size) + forEach * size : wi \in 0..(gridSize - 1), forEach \in 0..(DataSize(dim) - 1)}
NullSignalResults(gridSize, dim, size) == {k * size : k \in 0..(DataSize(dim) * gridSize - 1)}
-----------------------------------------------------------------------------

(* What functions return is what the host expects (FunctionsTests.cpp),     *)
(* and so for initializers (InitializerTests.cpp).                          *)
CallsReturnOn(wi, bits, functionsNumber) ==
    LET n == FunctionInput(wi)
    IN  /\ RecursiveFactorial(bits)[n] = Factorial(n) % 2^bits
        /\ RecursiveFibonacci(bits)[n] = Fibonacci(n) % 2^bits
        /\ CollatzRecursiveTest(wi) = CollatzSteps[wi + 1]
        /\ IncrementRecursiveTest(wi) = IncrementExpected(wi)
        /\ ScallBasicTest(wi, functionsNumber) = ScallExpected(wi, functionsNumber)
        /\ \A repeating \in 1..(functionsNumber - 1) :
              ScallRepeatingFunctions(wi, functionsNumber, repeating)
                  = FunctionResult(ScallExpected(wi, functionsNumber), functionsNumber, repeating)
ArgumentsReturnOn(out, expected) == out = [a \in 0..(Len(expected) - 1) |-> expected[a + 1]]
InitializersFoundOn(gridSize, dim, typeSize) ==
    LET data == InitialData(dim, typeSize)
    IN  /\ ArgumentsReturnOn(InitializerCode(EmitInitializer(data), gridSize, dim, typeSize),
                             ExpectedBytes(data, gridSize, TRUE))
        /\ NullSignalCode(gridSize, dim, typeSize) = NullSignalResults(gridSize, dim, typeSize)
=============================================================================
