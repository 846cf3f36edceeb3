------------------------------ MODULE Timeslot ------------------------------
(***************************************************************************)
(* The timeslot table of a capture program: the code that drives the       *)
(* sensor's analog frontend, and what the driver finds and rewrites in it. *)
(* A table is a sequence of bytes; positions in it count from 0. A walk    *)
(* over it is the set of positions it comes to: it only goes forward. An   *)
(* operator that may not find what it looks for returns a set, too.        *)
(***************************************************************************)
EXTENDS Integers, Sequences, FiniteSets

Byte == 0..255
At(b, pc) == b[pc + 1]

\* decode_insn: a prefix code. The bytes that begin a family of instructions,
\* their opcode and their size.
Families ==
    {[bytes |-> {k}, op |-> k, size |-> 1] : k \in 0..4}
    \cup {[bytes |-> {k}, op |-> k, size |-> 2] : k \in 5..7}
    \cup {[bytes |-> 8..9, op |-> 8, size |-> 2],
          [bytes |-> 10..11, op |-> 9, size |-> 2],
          [bytes |-> 12..15, op |-> 10, size |-> 1],
          [bytes |-> 16..23, op |-> 11, size |-> 3],
          [bytes |-> 32..63, op |-> 12, size |-> 1],
          [bytes |-> 64..127, op |-> 13, size |-> 3],
          [bytes |-> 128..191, op |-> 14, size |-> 1],
          [bytes |-> (24..31) \cup (192..255), op |-> 15, size |-> 2]}
FamilyOf == [b0 \in Byte |-> CHOOSE f \in Families : b0 \in f.bytes]

Op(b, pc) == FamilyOf[At(b, pc)].op
Size(b, pc) == FamilyOf[At(b, pc)].size
Truncated(b, pc) == pc + Size(b, pc) > Len(b)

EnableRx == 6
Call == 11
RegisterWrite == 13
Ends == {1, 2, 4}
Calibration == 15 * 4       \* REG_CALIBRATION, off the base of the registers
CalibrationAlt == 63 * 4    \* REG_CALIBRATION_ALT

Target(b, pc) == 4 * At(b, pc + 1)
Repeat(b, pc) == IF At(b, pc + 2) = 0 THEN 256 ELSE At(b, pc + 2)
Writes(b, pc, register) ==
    Op(b, pc) = RegisterWrite /\ 4 * (At(b, pc) % 64) = register

\* Where the instructions begin, one after another, from a position on.
Starts(b, from) ==
    LET starts[pc \in Nat] == IF pc >= Len(b) THEN {} ELSE {pc} \cup starts[pc + Size(b, pc)]
    IN starts[from]

\* Those up to an instruction that ends a routine.
Routine(b, from) ==
    LET starts == Starts(b, from)
        ends == {pc \in starts : Op(b, pc) \in Ends}
    IN {pc \in starts : \A end \in ends : pc < end}

\* A walk that meets neither an end nor a whole instruction is an error.
Broken(b, from) == \E pc \in Routine(b, from) : Truncated(b, pc)

\* find_nth_insn, find_nth_regwrite: the nth of the hits.
Nth(b, hits, n) ==
    {pc \in hits : Cardinality({hit \in hits : hit <= pc}) = n /\ ~Truncated(b, pc)}
\* A bug: the first is taken for the nth.
FindFirstInsn(b, opcode, n) == Nth(b, {pc \in Starts(b, 0) : Op(b, pc) = opcode}, 1)
FindNthInsn(b, opcode, n) == Nth(b, {pc \in Starts(b, 0) : Op(b, pc) = opcode}, n)
FindNthRegwrite(b, register, n) == Nth(b, {pc \in Starts(b, 0) : Writes(b, pc, register)}, n)

\* The calls patch_timeslot_table scales: those before the first instruction
\* it does not know. "Reproduced from the driver verbatim, including its early
\* exit on any unrecognised opcode".
SamplingCalls(b) ==
    LET starts == Starts(b, 0)
        exits == {pc \in starts : Op(b, pc) \notin {0, 7, Call} \/ pc + 3 >= Len(b)}
        known == {pc \in starts : \A exit \in exits : pc < exit}
    IN {pc \in known : Op(b, pc) = Call /\ At(b, pc + 2) > 1}

\* patch_timeslot_table: repeats times the multiplier, in a byte; addresses
\* one word on.
\* A bug: the multiplier of one sensor for all.
Doubled(repeats, mult) == (repeats * 2) % 256
Scale(repeats, mult) == (repeats * mult) % 256
PatchTimeslotTable(b, mult) ==
    LET calls == SamplingCalls(b)
    IN [k \in 1..Len(b) |->
            IF k - 3 \in calls THEN Scale(b[k], mult)
            ELSE IF k - 2 \in calls THEN (b[k] + 1) % 256
            ELSE b[k]]

\* patch_timeslot_again: the last call of the first routine, and the last
\* write of the calibration register in what it calls.
LastOf(hits) == {pc \in hits : \A hit \in hits : hit <= pc}
LastCall(b) == LastOf({pc \in Routine(b, 0) : Op(b, pc) = Call})
TrimmedWrite(b) ==
    UNION {LastOf({pc \in Routine(b, Target(b, call)) : Writes(b, pc, Calibration)}) :
               call \in LastCall(b)}

\* Its operand becomes the trim value; a table with no such write stays.
\* A bug: the high byte of the value in place of the low one.
HighByte(write) == write + 2
TrimOperand(write) == write + 1
PatchTimeslotAgain(b, trim) ==
    [k \in 1..Len(b) |-> IF \E w \in TrimmedWrite(b) : k = TrimOperand(w) + 1 THEN trim ELSE b[k]]
=============================================================================
