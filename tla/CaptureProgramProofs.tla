------------------------ MODULE CaptureProgramProofs ------------------------
(***************************************************************************)
(* What is sent to capture a finger: a whole calibration of the sensor     *)
(* that is in the machine, for any sensors whose geometry is like that of  *)
(* the two there are, any pixels, and any cut of the file that keeps it;   *)
(* and a program that still is the one of the table, for any table that is *)
(* what the driver takes it for.                                           *)
(*                                                                         *)
(* The file says neither whose it is nor how many captures it was made     *)
(* from: load goes by its length. That this is enough rests on what probe  *)
(* knows of the sensors, and is stated as GeometryAssumption. What the     *)
(* driver takes a table for, without a look, is TableAssumption.           *)
(***************************************************************************)
EXTENDS CaptureProgram, SequenceTheorems, FiniteSetTheorems, WellFoundedInduction, TLAPS

-----------------------------------------------------------------------------
(* The inductive invariant.                                                *)

Whole(data, folds) == data.folds = folds /\ data.length = IF folds = 0 THEN 0 ELSE CalibrationSize

\* What has been captured so far has the size of one calibration.
Progress ==
    /\ pc \in {"down", "ready"} => iteration = 0
    /\ pc \in {"calibrating", "reading"} => Whole(calib_data, iteration)
    /\ pc = "reading" => iteration < sensor.calibration_iterations
    /\ pc = "ready" => Whole(calib_data, sensor.calibration_iterations)

\* What the cache holds came of a calibration that was complete, and may be cut.
CacheOrigin ==
    cache # None =>
        \/ cache.length = 0
        \/ \E s \in Sensors : /\ s.calibration_iterations > 0
                              /\ cache.folds = s.calibration_iterations
                              /\ cache.length <= SizeOf(s)

\* A command was made from the calibration there is, and nothing is left of it
\* when the driver is down.
SentNow == sent # None => pc \in {"reading", "ready"} /\ sent.from = calib_data

IInv == TypeOK /\ Progress /\ CacheOrigin /\ SentNow

-----------------------------------------------------------------------------
(* Calibration data.                                                       *)

\* average's lines and columns come to one calibration, interleaved or not.
LEMMA AveragedSize == ASSUME sensor \in Sensors PROVE Averaged = CalibrationSize /\ CalibrationSize > 0
<1> DEFINE rows == sensor.lines_per_calibration_data
           width == sensor.bytes_per_line
           fold == LinesPerLine
<1>1. /\ rows \in Nat \ {0} /\ width \in Nat \ {0}
      /\ LinesPerFrame \in Nat \ {0} /\ LinesPerFrame % rows = 0
  BY CaptureAssumption, GeometryAssumption DEF CaptureAssumption, GeometryAssumption, LinesPerFrame
<1>2. LinesPerFrame = rows * fold /\ fold \in Nat
  <2> HIDE DEF rows
  <2>1. \A a \in Nat, b \in Nat \ {0} : a % b = 0 => a = b * (a \div b) /\ a \div b \in Nat
    OBVIOUS
  <2>2. fold = LinesPerFrame \div rows
    BY DEF LinesPerLine, rows
  <2> QED
    BY <1>1, <2>1, <2>2
<1>3. fold > 0
  <2> HIDE DEF rows, fold
  <2>1. fold # 0
    BY <1>1, <1>2
  <2> QED
    BY <1>2, <2>1
<1>4. FrameSize = fold * (rows * width)
  <2> HIDE DEF rows, fold
  <2>1. FrameSize = (rows * fold) * width
    BY <1>2 DEF FrameSize
  <2> QED
    BY <1>1, <1>2, <2>1
<1>5. rows * width \in Nat \ {0}
  <2> HIDE DEF rows, width
  <2> QED
    BY <1>1
<1>6. CalibrationSize = rows * width
  BY DEF CalibrationSize, SizeOf
<1>7. CASE fold > 1
  <2> HIDE DEF rows, width, fold
  <2>1. \A k \in Nat \ {0}, x \in Nat : (k * x) \div k = x
    OBVIOUS
  <2>2. FrameSize \div fold = rows * width
    BY <1>2, <1>3, <1>4, <1>5, <2>1
  <2> QED
    BY <1>5, <1>6, <1>7, <2>2 DEF Averaged, fold
<1>8. CASE fold = 1
  <2> HIDE DEF rows, width
  <2> QED
    BY <1>4, <1>5, <1>6, <1>8 DEF Averaged
<1> QED
  <2> HIDE DEF fold
  <2> QED
    BY <1>2, <1>3, <1>7, <1>8

\* A file of this sensor's size was made by a calibration of this sensor.
LEMMA UsableIsWhole ==
    ASSUME IInv, Usable(cache)
    PROVE  Whole(cache, sensor.calibration_iterations)
<1>1. cache # None /\ cache.length = CalibrationSize /\ CalibrationSize > 0 /\ CalibrationSize = SizeOf(sensor)
  BY AveragedSize DEF Usable, CalibrationSize, IInv, TypeOK
<1>2. PICK s \in Sensors : /\ s.calibration_iterations > 0
                           /\ cache.folds = s.calibration_iterations
                           /\ SizeOf(sensor) <= SizeOf(s)
  BY <1>1 DEF IInv, CacheOrigin
<1>3. sensor.calibration_iterations = s.calibration_iterations
  BY <1>2, GeometryAssumption DEF GeometryAssumption, IInv, TypeOK
<1>4. sensor.calibration_iterations # 0
  <2>1. s.calibration_iterations \in Nat
    BY CaptureAssumption DEF CaptureAssumption
  <2> QED
    BY <1>2, <1>3, <2>1
<1> QED
  BY <1>1, <1>2, <1>3, <1>4 DEF Whole

-----------------------------------------------------------------------------
(* Walks over a table. They are recursive from the end of it back, and so  *)
(* is what is shown of them.                                               *)

\* A set of natural numbers that is not empty has a least element.
LEMMA LeastOf ==
    ASSUME NEW D, D \subseteq Nat, D # {} PROVE \E x \in D : \A y \in D : x <= y
<1> DEFINE R == OpToRel(<, Nat)
<1>1. IsWellFoundedOn(R, Nat)
  BY NatLessThanWellFounded
<1>2. \A x, y \in Nat : y < x => <<y, x>> \in R
  BY DEF OpToRel
<1> HIDE DEF R
<1>3. PICK x \in D : \A y \in D : ~(<<y, x>> \in R)
  BY <1>1, WFMin
<1>4. x \in Nat /\ \A y \in D : y \in Nat /\ ~(y < x)
  BY <1>2, <1>3
<1> QED
  BY <1>4

\* What holds of 0, and of each number when of the one before, holds.
LEMMA Upward ==
    ASSUME NEW T, 0 \in T, \A k \in Nat : k \in T => k + 1 \in T PROVE Nat \subseteq T
<1> SUFFICES ASSUME Nat \ T # {} PROVE FALSE
  OBVIOUS
<1>1. PICK x \in Nat \ T : \A y \in Nat \ T : x <= y
  BY LeastOf
<1>2. x # 0 /\ x - 1 \in Nat /\ ~(x <= x - 1) /\ (x - 1) + 1 = x
  BY <1>1
<1>3. x - 1 \in T
  BY <1>1, <1>2
<1> QED
  BY <1>1, <1>2, <1>3

\* What holds from n on, and of a number when it holds of all above, holds.
LEMMA Backward ==
    ASSUME NEW n \in Nat, NEW T, \A k \in Nat : k >= n => k \in T,
           \A k \in Nat : (\A i \in Nat : i > k => i \in T) => k \in T
    PROVE  Nat \subseteq T
<1> DEFINE D == {n - k : k \in {i \in 0..n : i \notin T}}
<1> SUFFICES ASSUME NEW m \in Nat, m \notin T PROVE FALSE
  OBVIOUS
<1>1. m < n /\ n - m \in D
  <2>1. m < n
    OBVIOUS
  <2> QED
    BY <2>1
<1>2. D \subseteq Nat
  OBVIOUS
<1>3. PICK d \in D : \A e \in D : d <= e
  <2> HIDE DEF D
  <2> QED
    BY <1>1, <1>2, LeastOf
<1>4. PICK k \in 0..n : k \notin T /\ d = n - k
  OBVIOUS
<1>5. \A i \in Nat : i > k => i \in T
  <2> SUFFICES ASSUME NEW i \in Nat, i > k, i \notin T PROVE FALSE
    OBVIOUS
  <2>1. i < n
    OBVIOUS
  <2>2. n - i \in D
    BY <2>1
  <2>3. n - k <= n - i
    BY <1>3, <1>4, <2>2
  <2> HIDE DEF D
  <2> QED
    BY <1>4, <2>3
<1> QED
  BY <1>4, <1>5

\* decode_insn: a byte begins one family, of one to three bytes.
LEMMA Decoded ==
    ASSUME NEW k \in Byte
    PROVE  /\ FamilyOf[k].size \in 1..3
           /\ FamilyOf[k].op \in {Call, RegisterWrite} => FamilyOf[k].size = 3
<1>1. \A f \in Families : f.size \in 1..3 /\ (f.op \in {11, 13} => f.size = 3)
  BY DEF Families
<1>2. \E f \in Families : k \in f.bytes
  <2>1. CASE k \in 0..4
    <3>1. [bytes |-> {k}, op |-> k, size |-> 1] \in Families
      BY <2>1 DEF Families
    <3> QED
      BY <3>1
  <2>2. CASE k \in 5..7
    <3>1. [bytes |-> {k}, op |-> k, size |-> 2] \in Families
      BY <2>2 DEF Families
    <3> QED
      BY <3>1
  <2>3. CASE k \in 8..255
    <3> DEFINE F == {[bytes |-> 8..9, op |-> 8, size |-> 2],
                     [bytes |-> 10..11, op |-> 9, size |-> 2],
                     [bytes |-> 12..15, op |-> 10, size |-> 1],
                     [bytes |-> 16..23, op |-> 11, size |-> 3],
                     [bytes |-> 32..63, op |-> 12, size |-> 1],
                     [bytes |-> 64..127, op |-> 13, size |-> 3],
                     [bytes |-> 128..191, op |-> 14, size |-> 1],
                     [bytes |-> (24..31) \cup (192..255), op |-> 15, size |-> 2]}
    <3>1. F \subseteq Families
      BY DEF Families
    <3>2. \/ k \in 8..9 \/ k \in 10..11 \/ k \in 12..15 \/ k \in 16..23
          \/ k \in 32..63 \/ k \in 64..127 \/ k \in 128..191
          \/ k \in (24..31) \cup (192..255)
      BY <2>3
    <3>3. \E f \in F : k \in f.bytes
      BY <3>2
    <3> HIDE DEF F
    <3> QED
      BY <3>1, <3>3
  <2> QED
    BY <2>1, <2>2, <2>3 DEF Byte
<1>3. FamilyOf[k] = CHOOSE f \in Families : k \in f.bytes
  BY DEF FamilyOf
<1>4. FamilyOf[k] \in Families
  <2> HIDE DEF Families
  <2> QED
    BY <1>2, <1>3
<1> QED
  BY <1>1, <1>4 DEF Call, RegisterWrite

\* Every instruction has one to three bytes; a call and a write of a register
\* have three.
LEMMA InsnSize ==
    ASSUME NEW b \in Seq(Byte), NEW p \in Nat, p < Len(b)
    PROVE  /\ At(b, p) \in Byte /\ Size(b, p) \in 1..3
           /\ Op(b, p) \in {Call, RegisterWrite} => Size(b, p) = 3
<1>1. Len(b) \in Nat /\ p + 1 \in 1..Len(b)
  BY LenProperties
<1>2. At(b, p) \in Byte
  BY <1>1, ElementOfSeq DEF At
<1> QED
  BY <1>2, Decoded DEF Size, Op

\* A function of the positions that is the walk from each, and one that is from
\* some position on.
Step(b, f, p) == IF p >= Len(b) THEN {} ELSE {p} \cup f[p + Size(b, p)]
Walk(b, f) == f = [p \in Nat |-> Step(b, f, p)]
WalkFrom(b, k, f) == f = [p \in Nat |-> f[p]] /\ \A p \in Nat : p >= k => f[p] = Step(b, f, p)

\* There is such a function: it is built from the end of the table back.
LEMMA WalkExists == ASSUME NEW b \in Seq(Byte) PROVE \E f : Walk(b, f)
<1> DEFINE T == {k \in Nat : \E f : WalkFrom(b, k, f)}
<1>1. Len(b) \in Nat
  BY LenProperties
<1>2. \A k \in Nat : k >= Len(b) => k \in T
  <2> DEFINE g == [p \in Nat |-> {}]
  <2>1. g = [p \in Nat |-> g[p]] /\ \A p \in Nat : p >= Len(b) => g[p] = Step(b, g, p)
    BY DEF Step
  <2>2. \A k \in Nat : k >= Len(b) => WalkFrom(b, k, g)
    <3> HIDE DEF g
    <3> QED
      BY <1>1, <2>1 DEF WalkFrom
  <2> QED
    BY <2>2
<1>3. ASSUME NEW k \in Nat, \A i \in Nat : i > k => i \in T PROVE k \in T
  <2>1. CASE k >= Len(b)
    BY <1>2, <2>1
  <2>2. CASE k < Len(b)
    <3>1. Size(b, k) \in 1..3
      BY <2>2, InsnSize
    <3>2. PICK g : WalkFrom(b, k + 1, g)
      <4>1. k + 1 \in T
        BY <1>3
      <4> QED
        BY <4>1
    <3> DEFINE h == [p \in Nat |-> IF p = k THEN {k} \cup g[k + Size(b, k)] ELSE g[p]]
    <3>3. ASSUME NEW p \in Nat, p >= k PROVE h[p] = Step(b, h, p)
      <4>1. CASE p = k
        <5>1. k + Size(b, k) \in Nat /\ k + Size(b, k) # k
          BY <3>1
        <5>2. h[k] = {k} \cup g[k + Size(b, k)] /\ h[k + Size(b, k)] = g[k + Size(b, k)]
          BY <5>1
        <5> HIDE DEF h
        <5> QED
          BY <1>1, <2>2, <4>1, <5>2 DEF Step
      <4>2. CASE p >= k + 1
        <5>1. g[p] = Step(b, g, p) /\ h[p] = g[p]
          BY <3>2, <4>2 DEF WalkFrom
        <5>2. CASE p >= Len(b)
          BY <5>1, <5>2 DEF Step
        <5>3. CASE p < Len(b)
          <6>1. Size(b, p) \in 1..3
            BY <5>3, InsnSize
          <6>2. h[p + Size(b, p)] = g[p + Size(b, p)]
            BY <4>2, <6>1
          <6> HIDE DEF h
          <6> QED
            BY <5>1, <6>2 DEF Step
        <5> QED
          BY <1>1, <5>2, <5>3
      <4> QED
        BY <3>3, <4>1, <4>2
    <3>4. h = [p \in Nat |-> h[p]]
      OBVIOUS
    <3> HIDE DEF h
    <3>5. WalkFrom(b, k, h)
      BY <3>3, <3>4 DEF WalkFrom
    <3> QED
      BY <3>5
  <2> QED
    BY <1>1, <2>1, <2>2
<1>4. 0 \in T
  <2> HIDE DEF T
  <2> QED
    BY <1>1, <1>2, <1>3, Backward
<1>5. PICK f : WalkFrom(b, 0, f)
  BY <1>4
<1>6. \A p \in Nat : f[p] = Step(b, f, p)
  BY <1>5 DEF WalkFrom
<1>7. f = [p \in Nat |-> f[p]]
  BY <1>5 DEF WalkFrom
<1> QED
  BY <1>6, <1>7 DEF Walk

\* A walk begins where it begins, and goes on behind the first instruction.
LEMMA StartsStep ==
    ASSUME NEW b \in Seq(Byte), NEW from \in Nat
    PROVE  Starts(b, from) = IF from >= Len(b) THEN {}
                             ELSE {from} \cup Starts(b, from + Size(b, from))
<1> DEFINE f == CHOOSE g : Walk(b, g)
<1>1. Walk(b, f)
  BY WalkExists
<1>2. Starts(b, from) = f[from] /\ Starts(b, from + Size(b, from)) = f[from + Size(b, from)]
  BY DEF Starts, Walk, Step
<1> HIDE DEF f
<1>3. f[from] = Step(b, f, from)
  BY <1>1 DEF Walk
<1> QED
  BY <1>2, <1>3 DEF Step

\* It stays in the table, and does not go back.
LEMMA StartsRange ==
    ASSUME NEW b \in Seq(Byte), NEW from \in Nat
    PROVE  \A p \in Starts(b, from) : p \in Nat /\ from <= p /\ p < Len(b)
<1> DEFINE T == {k \in Nat : \A p \in Starts(b, k) : p \in Nat /\ k <= p /\ p < Len(b)}
<1>1. Len(b) \in Nat
  BY LenProperties
<1>2. \A k \in Nat : k >= Len(b) => k \in T
  BY StartsStep
<1>3. ASSUME NEW k \in Nat, \A i \in Nat : i > k => i \in T PROVE k \in T
  <2>1. CASE k < Len(b)
    <3>1. Size(b, k) \in 1..3
      BY <2>1, InsnSize
    <3>2. Starts(b, k) = {k} \cup Starts(b, k + Size(b, k))
      BY <1>1, <2>1, StartsStep
    <3>3. k + Size(b, k) \in T
      BY <1>3, <3>1
    <3>4. ASSUME NEW p \in Starts(b, k) PROVE p \in Nat /\ k <= p /\ p < Len(b)
      BY <2>1, <3>1, <3>2, <3>3
    <3> QED
      BY <3>4
  <2> QED
    BY <1>1, <1>2, <2>1
<1> HIDE DEF T
<1>4. from \in T
  BY <1>1, <1>2, <1>3, Backward
<1> QED
  BY <1>4 DEF T

\* From where it comes to, a walk is the rest of the walk.
LEMMA StartsRest ==
    ASSUME NEW b \in Seq(Byte), NEW from \in Nat, NEW p \in Starts(b, from)
    PROVE  Starts(b, p) = {q \in Starts(b, from) : p <= q}
<1> DEFINE T == {k \in Nat : \A i \in Starts(b, k) : Starts(b, i) = {q \in Starts(b, k) : i <= q}}
<1>1. Len(b) \in Nat
  BY LenProperties
<1>2. \A k \in Nat : k >= Len(b) => k \in T
  BY StartsStep
<1>3. ASSUME NEW k \in Nat, \A i \in Nat : i > k => i \in T PROVE k \in T
  <2>1. CASE k < Len(b)
    <3> DEFINE next == k + Size(b, k)
    <3>1. next \in Nat /\ next > k
      BY <2>1, InsnSize
    <3>2. Starts(b, k) = {k} \cup Starts(b, next)
      BY <1>1, <2>1, StartsStep
    <3> HIDE DEF next
    <3>3. next \in T
      BY <1>3, <3>1
    <3>4. \A q \in Starts(b, next) : q \in Nat /\ next <= q
      BY <3>1, StartsRange
    <3>5. ASSUME NEW i \in Starts(b, k) PROVE Starts(b, i) = {q \in Starts(b, k) : i <= q}
      <4>1. CASE i = k
        <5>1. \A q \in Starts(b, k) : k <= q
          BY <3>1, <3>2, <3>4
        <5> QED
          BY <4>1, <5>1
      <4>2. CASE i \in Starts(b, next)
        <5>1. Starts(b, i) = {q \in Starts(b, next) : i <= q}
          BY <3>3, <4>2
        <5>2. ~(i <= k)
          BY <3>1, <3>4, <4>2
        <5> QED
          BY <3>2, <5>1, <5>2
      <4> QED
        BY <3>2, <4>1, <4>2
    <3> QED
      BY <3>5
  <2> QED
    BY <1>1, <1>2, <2>1
<1> HIDE DEF T
<1>4. from \in T
  BY <1>1, <1>2, <1>3, Backward
<1> QED
  BY <1>4 DEF T

\* No instruction begins within another.
LEMMA NoneWithin ==
    ASSUME NEW b \in Seq(Byte), NEW from \in Nat,
           NEW p \in Starts(b, from), NEW q \in Starts(b, from), p < q
    PROVE  p + Size(b, p) <= q
<1>1. p \in Nat /\ q \in Nat /\ p < Len(b) /\ Len(b) \in Nat
  BY StartsRange, LenProperties
<1>2. q \in Starts(b, p)
  BY <1>1, StartsRest
<1>3. Starts(b, p) = {p} \cup Starts(b, p + Size(b, p))
  BY <1>1, StartsStep
<1>4. p + Size(b, p) \in Nat
  BY <1>1, InsnSize
<1> QED
  BY <1>1, <1>2, <1>3, <1>4, StartsRange

\* A byte belongs to one instruction.
LEMMA OneInsn ==
    ASSUME NEW b \in Seq(Byte), NEW from \in Nat, NEW at \in Nat,
           NEW p \in Starts(b, from), NEW q \in Starts(b, from),
           p <= at, at < p + Size(b, p), q <= at, at < q + Size(b, q)
    PROVE  p = q
<1>1. p \in Nat /\ q \in Nat /\ Size(b, p) \in Nat /\ Size(b, q) \in Nat
  BY StartsRange, InsnSize
<1>2. p < q => p + Size(b, p) <= q
  BY NoneWithin
<1>3. q < p => q + Size(b, q) <= p
  BY NoneWithin
<1> QED
  BY <1>1, <1>2, <1>3

\* Two tables have the same code from a position on if in the places that the
\* one's instructions begin they have the same bytes.
SameCode(b, c, from) ==
    /\ b \in Seq(Byte) /\ c \in Seq(Byte) /\ Len(c) = Len(b)
    /\ \A p \in Starts(b, from) : At(c, p) = At(b, p)

\* Then the walks are the same.
LEMMA SameStarts ==
    ASSUME NEW b, NEW c, NEW from \in Nat, SameCode(b, c, from)
    PROVE  Starts(c, from) = Starts(b, from)
<1> DEFINE T == {k \in Nat : SameCode(b, c, k) => Starts(c, k) = Starts(b, k)}
<1>1. b \in Seq(Byte) /\ c \in Seq(Byte) /\ Len(c) = Len(b) /\ Len(b) \in Nat
  BY LenProperties DEF SameCode
<1>2. \A k \in Nat : k >= Len(b) => k \in T
  BY <1>1, StartsStep
<1>3. ASSUME NEW k \in Nat, \A i \in Nat : i > k => i \in T PROVE k \in T
  <2>1. CASE k < Len(b) /\ SameCode(b, c, k)
    <3> DEFINE next == k + Size(b, k)
    <3>1. next \in Nat /\ next > k
      BY <1>1, <2>1, InsnSize
    <3>2. Starts(b, k) = {k} \cup Starts(b, next)
      BY <1>1, <2>1, StartsStep
    <3>3. next = k + Size(c, k)
      <4>1. At(c, k) = At(b, k)
        BY <2>1, <3>2 DEF SameCode
      <4> QED
        BY <4>1 DEF Size
    <3>4. Starts(c, k) = {k} \cup Starts(c, next)
      BY <1>1, <2>1, <3>3, StartsStep
    <3> HIDE DEF next
    <3>5. SameCode(b, c, next)
      BY <2>1, <3>2 DEF SameCode
    <3>6. Starts(c, next) = Starts(b, next)
      BY <1>3, <3>1, <3>5
    <3> QED
      BY <3>2, <3>4, <3>6
  <2> QED
    BY <1>1, <1>2, <2>1
<1> HIDE DEF T
<1>4. from \in T
  BY <1>1, <1>2, <1>3, Backward
<1> QED
  BY <1>4 DEF T

\* So are the instructions, and the routines.
LEMMA SameInsns ==
    ASSUME NEW b, NEW c, NEW from \in Nat, SameCode(b, c, from), NEW p \in Starts(b, from)
    PROVE  /\ Op(c, p) = Op(b, p) /\ Size(c, p) = Size(b, p) /\ Truncated(c, p) = Truncated(b, p)
           /\ \A register : Writes(c, p, register) = Writes(b, p, register)
<1>1. At(c, p) = At(b, p) /\ Len(c) = Len(b)
  BY DEF SameCode
<1>2. Op(c, p) = Op(b, p) /\ Size(c, p) = Size(b, p)
  BY <1>1 DEF Op, Size
<1> QED
  BY <1>1, <1>2 DEF Truncated, Writes

\* So is a routine, up to its end.
LEMMA SameRoutine ==
    ASSUME NEW b, NEW c, NEW from \in Nat, SameCode(b, c, from)
    PROVE  Routine(c, from) = Routine(b, from) /\ Routine(b, from) \subseteq Starts(b, from)
<1>1. Starts(c, from) = Starts(b, from)
  BY SameStarts
<1>2. \A p \in Starts(b, from) : Op(c, p) = Op(b, p)
  BY SameInsns
<1>3. {p \in Starts(c, from) : Op(c, p) \in Ends} = {p \in Starts(b, from) : Op(b, p) \in Ends}
  BY <1>1, <1>2
<1> QED
  BY <1>1, <1>3 DEF Routine

\* The same code is the same from any instruction of it on.
LEMMA SameRest ==
    ASSUME NEW b, NEW c, NEW from \in Nat, SameCode(b, c, from), NEW p \in Starts(b, from)
    PROVE  p \in Nat /\ SameCode(b, c, p) /\ Starts(b, p) \subseteq Starts(b, from)
<1>1. b \in Seq(Byte)
  BY DEF SameCode
<1>2. p \in Nat /\ Starts(b, p) \subseteq Starts(b, from)
  BY <1>1, StartsRange, StartsRest
<1> QED
  BY <1>2 DEF SameCode

\* Code rewritten twice is the same if it is each time.
LEMMA SameCodeTransitive ==
    ASSUME NEW b, NEW c, NEW d, NEW from \in Nat, SameCode(b, c, from), SameCode(c, d, from)
    PROVE  SameCode(b, d, from)
<1>1. Starts(c, from) = Starts(b, from)
  BY SameStarts
<1> QED
  BY <1>1 DEF SameCode

-----------------------------------------------------------------------------
(* What is rewritten.                                                      *)

\* A function of the positions 1..n is a sequence.
LEMMA AnArray ==
    ASSUME NEW S, NEW n \in Nat, NEW f \in [1..n -> S]
    PROVE  f \in Seq(S) /\ Len(f) = n
BY SeqDef

\* patch_timeslot_table changes bytes for bytes, in place.
LEMMA TableKeepsLength ==
    ASSUME NEW b \in Seq(Byte), NEW mult \in Nat
    PROVE  PatchTimeslotTable(b, mult) \in Seq(Byte) /\ Len(PatchTimeslotTable(b, mult)) = Len(b)
<1> DEFINE patched == PatchTimeslotTable(b, mult)
<1>1. Len(b) \in Nat /\ \A k \in 1..Len(b) : b[k] \in Byte
  BY LenProperties, ElementOfSeq
<1>2. \A k \in 1..Len(b) : Scale(b[k], mult) \in Byte /\ (b[k] + 1) % 256 \in Byte
  <2>1. \A x \in Byte : (x * mult) % 256 \in 0..255 /\ (x + 1) % 256 \in 0..255
    BY DEF Byte
  <2> QED
    BY <1>1, <2>1 DEF Scale, Byte
<1>3. patched \in [1..Len(b) -> Byte]
  BY <1>1, <1>2 DEF PatchTimeslotTable
<1> QED
  BY <1>1, <1>3, AnArray

\* So does patch_timeslot_again, when there is a trim for the write it finds.
LEMMA TrimKeepsLength ==
    ASSUME NEW b \in Seq(Byte), NEW value, TrimmedWrite(b) # {} => value \in Byte
    PROVE  PatchTimeslotAgain(b, value) \in Seq(Byte) /\ Len(PatchTimeslotAgain(b, value)) = Len(b)
<1> DEFINE patched == PatchTimeslotAgain(b, value)
<1>1. Len(b) \in Nat /\ \A k \in 1..Len(b) : b[k] \in Byte
  BY LenProperties, ElementOfSeq
<1>2. patched \in [1..Len(b) -> Byte]
  BY <1>1 DEF PatchTimeslotAgain
<1> QED
  BY <1>1, <1>2, AnArray

\* What patch_timeslot_table scales are calls, whole and with a repeat.
LEMMA SamplingCallsAreCalls ==
    ASSUME NEW b \in Seq(Byte), NEW c \in SamplingCalls(b)
    PROVE  /\ c \in Starts(b, 0) /\ c \in Nat /\ c + 3 < Len(b)
           /\ Op(b, c) = Call /\ Size(b, c) = 3 /\ At(b, c + 2) > 1
<1>1. c \in Starts(b, 0) /\ Op(b, c) = Call /\ At(b, c + 2) > 1
  BY DEF SamplingCalls
<1>2. c \in Nat /\ c < Len(b) /\ Len(b) \in Nat
  BY <1>1, StartsRange, LenProperties
<1>3. ~(c + 3 >= Len(b))
  <2>1. ~(c < c)
    BY <1>2
  <2> QED
    BY <2>1 DEF SamplingCalls
<1> QED
  BY <1>1, <1>2, <1>3, InsnSize

\* What it does to a byte.
LEMMA ScaledByte ==
    ASSUME NEW b \in Seq(Byte), NEW mult, NEW at \in Nat, at < Len(b)
    PROVE  At(PatchTimeslotTable(b, mult), at) =
               IF at - 2 \in SamplingCalls(b) THEN Scale(At(b, at), mult)
               ELSE IF at - 1 \in SamplingCalls(b) THEN (At(b, at) + 1) % 256 ELSE At(b, at)
<1>1. at + 1 \in 1..Len(b) /\ (at + 1) - 3 = at - 2 /\ (at + 1) - 2 = at - 1
  BY LenProperties
<1> QED
  BY <1>1 DEF PatchTimeslotTable, At

\* Of what is rewritten by patch_timeslot_table, all is in calls that sample.
LEMMA ScaledIsInCall ==
    ASSUME NEW b \in Seq(Byte), NEW p \in Starts(b, 0), NEW at \in Nat,
           p <= at, at < p + Size(b, p),
           NEW c \in SamplingCalls(b), c <= at, at < c + 3
    PROVE  c = p
BY SamplingCallsAreCalls, OneInsn

\* What it does to an instruction: one that is a call that samples has its
\* address moved and its repeats scaled, any other stays.
LEMMA ScaledOperands ==
    ASSUME NEW b \in Seq(Byte), NEW mult \in Nat, NEW p \in Starts(b, 0), ~Truncated(b, p)
    PROVE  LET c == PatchTimeslotTable(b, mult)
               sampling == p \in SamplingCalls(b)
           IN /\ \A k \in 0..(Size(b, p) - 1) :
                    ~(sampling /\ k > 0) => At(c, p + k) = At(b, p + k)
              /\ sampling => /\ At(c, p + 1) = (At(b, p + 1) + 1) % 256
                             /\ At(c, p + 2) = Scale(At(b, p + 2), mult)
<1> DEFINE c == PatchTimeslotTable(b, mult)
           sampling == p \in SamplingCalls(b)
<1>1. p \in Nat /\ Size(b, p) \in 1..3 /\ Len(b) \in Nat /\ p + Size(b, p) <= Len(b)
  BY StartsRange, InsnSize, LenProperties DEF Truncated
<1>2. ASSUME NEW k \in 0..2, k < Size(b, p)
      PROVE  At(c, p + k) = IF sampling /\ k = 2 THEN Scale(At(b, p + k), mult)
                            ELSE IF sampling /\ k = 1 THEN (At(b, p + k) + 1) % 256
                            ELSE At(b, p + k)
  <2>1. p + k \in Nat /\ p + k < Len(b)
    BY <1>1, <1>2
  <2>2. (p + k) - 2 \in SamplingCalls(b) <=> sampling /\ k = 2
    <3>1. k = 2 => (p + k) - 2 = p
      BY <1>1
    <3>2. ASSUME NEW e \in SamplingCalls(b), e = (p + k) - 2 PROVE k = 2 /\ e = p
      <4>1. e \in Nat /\ e <= p + k /\ p + k < e + 3 /\ p <= p + k /\ p + k < p + Size(b, p)
        BY <1>1, <1>2, <3>2, SamplingCallsAreCalls
      <4>2. e = p
        BY <2>1, <4>1, ScaledIsInCall
      <4> QED
        BY <1>1, <3>2, <4>2
    <3> QED
      BY <3>1, <3>2
  <2>3. (p + k) - 1 \in SamplingCalls(b) <=> sampling /\ k = 1
    <3>1. k = 1 => (p + k) - 1 = p
      BY <1>1
    <3>2. ASSUME NEW e \in SamplingCalls(b), e = (p + k) - 1 PROVE k = 1 /\ e = p
      <4>1. e \in Nat /\ e <= p + k /\ p + k < e + 3 /\ p <= p + k /\ p + k < p + Size(b, p)
        BY <1>1, <1>2, <3>2, SamplingCallsAreCalls
      <4>2. e = p
        BY <2>1, <4>1, ScaledIsInCall
      <4> QED
        BY <1>1, <3>2, <4>2
    <3> QED
      BY <3>1, <3>2
  <2> HIDE DEF c, sampling
  <2>4. At(c, p + k) = IF (p + k) - 2 \in SamplingCalls(b) THEN Scale(At(b, p + k), mult)
                       ELSE IF (p + k) - 1 \in SamplingCalls(b) THEN (At(b, p + k) + 1) % 256
                       ELSE At(b, p + k)
    <3> DEFINE at == p + k
    <3>1. at \in Nat /\ at < Len(b)
      BY <2>1
    <3> HIDE DEF at
    <3>2. At(c, at) = IF at - 2 \in SamplingCalls(b) THEN Scale(At(b, at), mult)
                      ELSE IF at - 1 \in SamplingCalls(b) THEN (At(b, at) + 1) % 256
                      ELSE At(b, at)
      BY <3>1, ScaledByte DEF c
    <3> QED
      BY <3>2 DEF at
  <2> QED
    BY <2>2, <2>3, <2>4
<1>3. ASSUME NEW k \in 0..(Size(b, p) - 1), ~(sampling /\ k > 0) PROVE At(c, p + k) = At(b, p + k)
  <2> HIDE DEF c, sampling
  <2>1. k \in 0..2 /\ k < Size(b, p) /\ (k = 0 \/ k > 0) /\ (k = 2 => k > 0) /\ (k = 1 => k > 0)
    BY <1>1
  <2> QED
    BY <1>2, <1>3, <2>1
<1>4. ASSUME sampling PROVE At(c, p + 1) = (At(b, p + 1) + 1) % 256 /\ At(c, p + 2) = Scale(At(b, p + 2), mult)
  <2>1. Size(b, p) = 3
    BY <1>4, SamplingCallsAreCalls
  <2> HIDE DEF c, sampling
  <2>2. 1 \in 0..2 /\ 2 \in 0..2 /\ 1 < Size(b, p) /\ 2 < Size(b, p) /\ 1 # 2
    BY <2>1
  <2> QED
    BY <1>2, <1>4, <2>2
<1> QED
  BY <1>3, <1>4

\* patch_timeslot_table rewrites operands only.
LEMMA ScaledCode ==
    ASSUME NEW b \in Seq(Byte), NEW mult \in Nat
    PROVE  SameCode(b, PatchTimeslotTable(b, mult), 0)
<1> DEFINE c == PatchTimeslotTable(b, mult)
<1>1. c \in Seq(Byte) /\ Len(c) = Len(b)
  BY TableKeepsLength
<1>2. ASSUME NEW p \in Starts(b, 0) PROVE At(c, p) = At(b, p)
  <2>1. p \in Nat /\ p < Len(b) /\ Size(b, p) \in 1..3
    BY StartsRange, InsnSize
  <2>2. ASSUME NEW d \in 1..2, NEW e \in SamplingCalls(b), e = p - d PROVE FALSE
    <3>1. e \in Nat /\ e # p /\ e <= p /\ p < e + 3 /\ p < p + Size(b, p)
      BY <2>1, <2>2, SamplingCallsAreCalls
    <3> QED
      BY <2>1, <3>1, ScaledIsInCall
  <2>3. p - 2 \notin SamplingCalls(b) /\ p - 1 \notin SamplingCalls(b)
    BY <2>2
  <2> QED
    BY <2>1, <2>3, ScaledByte
<1> QED
  BY <1>1, <1>2 DEF SameCode

\* What patch_timeslot_again does to a byte.
LEMMA TrimmedByte ==
    ASSUME NEW b \in Seq(Byte), NEW value, NEW at \in Nat, at < Len(b), TrimmedWrite(b) \subseteq Nat
    PROVE  At(PatchTimeslotAgain(b, value), at) =
               IF at - 1 \in TrimmedWrite(b) THEN value ELSE At(b, at)
<1>1. at + 1 \in 1..Len(b)
  BY LenProperties
<1>2. At(PatchTimeslotAgain(b, value), at) =
        IF \E w \in TrimmedWrite(b) : at + 1 = w + 1 + 1 THEN value ELSE At(b, at)
  BY <1>1 DEF PatchTimeslotAgain, At, TrimOperand
<1>3. (\E w \in TrimmedWrite(b) : at + 1 = w + 1 + 1) <=> at - 1 \in TrimmedWrite(b)
  <2>1. \A w \in TrimmedWrite(b) : at + 1 = w + 1 + 1 <=> w = at - 1
    OBVIOUS
  <2> QED
    BY <2>1
<1> QED
  BY <1>2, <1>3

\* patch_timeslot_again rewrites an operand of one write of the register, if
\* that is one the walk from the head comes to.
LEMMA TrimmedOperands ==
    ASSUME NEW b \in Seq(Byte), NEW value, TrimmedWrite(b) # {} => value \in Byte,
           \A w \in TrimmedWrite(b) : w \in Starts(b, 0) /\ Op(b, w) = RegisterWrite,
           NEW p \in Starts(b, 0), ~Truncated(b, p), NEW k \in 0..(Size(b, p) - 1)
    PROVE  At(PatchTimeslotAgain(b, value), p + k) =
               IF k = 1 /\ p \in TrimmedWrite(b) THEN value ELSE At(b, p + k)
<1>1. /\ p \in Nat /\ Size(b, p) \in 1..3 /\ Len(b) \in Nat
      /\ p + k \in Nat /\ p + k < Len(b)
  BY StartsRange, InsnSize, LenProperties DEF Truncated
<1>2. TrimmedWrite(b) \subseteq Nat
  BY StartsRange
<1>3. (p + k) - 1 \in TrimmedWrite(b) <=> k = 1 /\ p \in TrimmedWrite(b)
  <2>1. k = 1 => (p + k) - 1 = p
    BY <1>1
  <2>2. ASSUME (p + k) - 1 \in TrimmedWrite(b) PROVE k = 1
    <3> DEFINE w == (p + k) - 1
    <3>1. w \in Starts(b, 0) /\ w \in Nat /\ Size(b, w) = 3
      BY <2>2, StartsRange, InsnSize
    <3>2. w = (p + k) - 1
      OBVIOUS
    <3> HIDE DEF w
    <3>3. w <= p + k /\ p + k < w + Size(b, w) /\ p <= p + k /\ p + k < p + Size(b, p)
      BY <1>1, <3>1, <3>2
    <3>4. w = p
      BY <1>1, <3>1, <3>3, OneInsn
    <3> QED
      BY <1>1, <3>2, <3>4
  <2> QED
    BY <2>1, <2>2
<1> QED
  BY <1>1, <1>2, <1>3, TrimmedByte

\* It rewrites an operand only.
LEMMA TrimmedCode ==
    ASSUME NEW b \in Seq(Byte), NEW value, TrimmedWrite(b) # {} => value \in Byte,
           \A w \in TrimmedWrite(b) : w \in Starts(b, 0) /\ Op(b, w) = RegisterWrite,
           \A p \in Starts(b, 0) : ~Truncated(b, p)
    PROVE  SameCode(b, PatchTimeslotAgain(b, value), 0)
<1> DEFINE c == PatchTimeslotAgain(b, value)
<1>1. c \in Seq(Byte) /\ Len(c) = Len(b)
  BY TrimKeepsLength
<1>2. ASSUME NEW p \in Starts(b, 0) PROVE At(c, p) = At(b, p)
  <2>1. 0 \in 0..(Size(b, p) - 1) /\ p + 0 = p /\ 0 # 1
    BY StartsRange, InsnSize
  <2> QED
    BY <2>1, TrimmedOperands
<1> QED
  BY <1>1, <1>2 DEF SameCode

\* What is built is a table of bytes, as long as the one it was built from.
LEMMA TstKeepsLength ==
    ASSUME IInv, NEW mode \in Modes, Built(mode)
    PROVE  Tst(mode) \in Seq(Byte) /\ Len(Tst(mode)) = Len(sensor.table)
<1>1. sensor.table \in Seq(Byte) /\ sensor.repeat_multiplier \in Nat
  BY CaptureAssumption DEF CaptureAssumption, IInv, TypeOK
<1>2. Scaled \in Seq(Byte) /\ Len(Scaled) = Len(sensor.table)
  BY <1>1, TableKeepsLength DEF Scaled
<1>3. mode # "calibrate" /\ TrimmedWrite(Scaled) # {} => trim \in Byte
  BY CaptureAssumption DEF CaptureAssumption, Built, Untrimmed, IInv, TypeOK
<1> QED
  BY <1>2, <1>3, TrimKeepsLength DEF Tst

\* The key line is bytes, as many as the program has it.
LEMMA KeyLineLength ==
    ASSUME IInv PROVE KeyLine \in Seq(Byte) /\ Len(KeyLine) = sensor.line_width
<1>1. calib_data.pixel \in Byte /\ sensor.line_width \in Nat
  BY CaptureAssumption DEF CaptureAssumption, IInv, TypeOK, Data
<1>2. KeyLine \in [1..sensor.line_width -> Byte]
  BY <1>1 DEF KeyLine, Byte
<1> QED
  BY <1>1, <1>2, AnArray

\* The key line replaces as much of the head as it is long.
LEMMA BodyKeepsLength ==
    ASSUME IInv, NEW mode \in Modes, Built(mode)
    PROVE  Body(Tst(mode)) \in Seq(Byte) /\ Len(Body(Tst(mode))) = Len(sensor.table)
<1> DEFINE tst == Tst(mode)
           rest == SubSeq(tst, sensor.line_width + 1, Len(tst))
<1>1. sensor \in Sensors /\ sensor.table \in Seq(Byte) /\ sensor.line_width \in Nat
  BY CaptureAssumption DEF CaptureAssumption, IInv, TypeOK
<1>2. tst \in Seq(Byte) /\ Len(tst) = Len(sensor.table)
  BY TstKeepsLength
<1>3. CASE ~sensor.type1
  BY <1>2, <1>3 DEF Body
<1>4. CASE sensor.type1
  <2>1. sensor.line_width <= Len(tst)
    BY <1>1, <1>2, <1>4, GeometryAssumption DEF GeometryAssumption
  <2>2. Len(tst) \in Nat /\ \A i \in 1..Len(tst) : tst[i] \in Byte
    BY <1>2, LenProperties, ElementOfSeq
  <2>3. KeyLine \in Seq(Byte) /\ Len(KeyLine) = sensor.line_width
    BY KeyLineLength
  <2>4. rest \in Seq(Byte) /\ Len(rest) = Len(tst) - sensor.line_width
    <3> HIDE DEF tst
    <3>1. /\ SubSeq(tst, sensor.line_width + 1, Len(tst)) \in Seq(Byte)
          /\ Len(SubSeq(tst, sensor.line_width + 1, Len(tst))) =
                IF sensor.line_width + 1 <= Len(tst) THEN Len(tst) - (sensor.line_width + 1) + 1 ELSE 0
      BY <1>1, <2>1, <2>2, SubSeqProperties
    <3> QED
      BY <1>1, <2>1, <2>2, <3>1
  <2>5. Body(tst) = KeyLine \o rest
    BY <1>4 DEF Body
  <2> HIDE DEF tst, rest
  <2>6. Body(tst) \in Seq(Byte) /\ Len(Body(tst)) = Len(KeyLine) + Len(rest)
    BY <2>3, <2>4, <2>5, ConcatProperties
  <2> QED
    BY <1>1, <1>2, <2>2, <2>3, <2>4, <2>6 DEF tst
<1> QED
  BY <1>3, <1>4

\* A command keeps to its type, and is made from what there is.
LEMMA CommandSent ==
    ASSUME IInv, NEW mode \in Modes, Built(mode), sent' = Command(mode), UNCHANGED sensor
    PROVE  /\ sent' # None => /\ sent'.mode \in Modes
                              /\ sent'.body \in Seq(Byte) /\ Len(sent'.body) = Len(sensor'.table)
           /\ sent'.from = calib_data
BY BodyKeepsLength DEF Command

-----------------------------------------------------------------------------
(* The steps.                                                              *)

\* The machine is given another sensor, and a run ends.
LEMMA DownStep == IInv /\ (Replace \/ Clear \/ Stop) => IInv'
<1> SUFFICES ASSUME IInv, Replace \/ Clear \/ Stop PROVE IInv'
  OBVIOUS
<1>1. /\ sensor' \in Sensors /\ trim' \in Trims /\ factory' \in BOOLEAN
      /\ pc' = "down" /\ iteration' = 0 /\ calib_data' \in Data
      /\ cache' \in {cache, None}
      /\ sent' # None => FALSE
  BY DEF Replace, Clear, Stop, machine, IInv, TypeOK, Progress, SentNow, Empty, Data, Byte
<1>2. 0 \in 0..sensor'.calibration_iterations
  BY <1>1, CaptureAssumption DEF CaptureAssumption
<1>3. TypeOK'
  BY <1>1, <1>2 DEF IInv, TypeOK
<1>4. CacheOrigin'
  BY <1>1 DEF IInv, CacheOrigin
<1> QED
  BY <1>1, <1>3, <1>4 DEF IInv, Progress, SentNow

\* The driver starts from a cache it can use, or from nothing.
LEMMA StartStep == IInv /\ Start => IInv'
<1> SUFFICES ASSUME IInv, Start PROVE IInv'
  OBVIOUS
<1>1. UNCHANGED <<machine, cache>> /\ iteration' = 0 /\ sent' = None
  BY DEF Start
<1>2. 0 \in 0..sensor.calibration_iterations
  BY CaptureAssumption DEF CaptureAssumption, IInv, TypeOK
<1>3. CASE Usable(cache)
  <2>1. pc' = "ready" /\ calib_data' = cache /\ cache \in Data
    BY <1>3 DEF Start, Usable, IInv, TypeOK
  <2>2. Progress'
    BY <1>1, <1>3, <2>1, UsableIsWhole DEF Progress, Whole, CalibrationSize, machine
  <2>3. TypeOK'
    BY <1>1, <1>2, <2>1 DEF IInv, TypeOK, machine
  <2> QED
    BY <1>1, <2>2, <2>3 DEF IInv, CacheOrigin, SentNow
<1>4. CASE ~Usable(cache)
  <2>1. pc' = "calibrating" /\ calib_data' = Empty /\ Empty \in Data
    BY <1>4 DEF Start, Empty, Data, Byte
  <2>2. Progress'
    BY <1>1, <2>1 DEF Progress, Whole, Empty
  <2>3. TypeOK'
    BY <1>1, <1>2, <2>1 DEF IInv, TypeOK, machine
  <2> QED
    BY <1>1, <2>2, <2>3 DEF IInv, CacheOrigin, SentNow
<1> QED
  BY <1>3, <1>4

\* A capture is sent, of a finger or of an iteration.
LEMMA SendStep == IInv /\ (Calibrate \/ \E mode \in {"identify", "enroll"} : Capture(mode)) => IInv'
<1> SUFFICES ASSUME IInv, Calibrate \/ \E mode \in {"identify", "enroll"} : Capture(mode) PROVE IInv'
  OBVIOUS
<1>1. UNCHANGED <<machine, iteration, calib_data, cache>>
  BY DEF Calibrate, Capture
<1>2. PICK mode \in Modes : Built(mode) /\ sent' = Command(mode)
  BY DEF Calibrate, Capture, Modes
<1>3. /\ sent' # None => /\ sent'.mode \in Modes
                         /\ sent'.body \in Seq(Byte) /\ Len(sent'.body) = Len(sensor'.table)
      /\ sent'.from = calib_data
  BY <1>1, <1>2, CommandSent DEF machine
<1>4. \/ pc = "calibrating" /\ pc' = "reading" /\ iteration < sensor.calibration_iterations
      \/ pc = "ready" /\ pc' = "ready"
  BY DEF Calibrate, Capture
<1>5. TypeOK'
  BY <1>1, <1>3, <1>4 DEF IInv, TypeOK, machine
<1>6. Progress' /\ CacheOrigin'
  BY <1>1, <1>4 DEF IInv, Progress, CacheOrigin, Whole, CalibrationSize, machine
<1>7. SentNow'
  BY <1>1, <1>3, <1>4 DEF SentNow
<1> QED
  BY <1>5, <1>6, <1>7 DEF IInv

\* One more capture is folded into what there is, of the same size.
LEMMA ReadStep == ASSUME IInv, NEW length, NEW pixel \in Pixels, ReadData(length, pixel) PROVE IInv'
<1>1. /\ pc = "reading" /\ pc' = "calibrating" /\ iteration' = iteration + 1
      /\ sent' = None /\ UNCHANGED <<machine, cache>>
      /\ calib_data' = Fold(calib_data, CalibrationSize, pixel)
  BY AveragedSize DEF ReadData, IInv, TypeOK
<1>2. iteration \in Nat /\ iteration < sensor.calibration_iterations /\ sensor.calibration_iterations \in Nat
  BY <1>1, CaptureAssumption DEF CaptureAssumption, IInv, TypeOK, Progress
<1>3. CalibrationSize \in Nat
  BY CaptureAssumption DEF CaptureAssumption, CalibrationSize, SizeOf, IInv, TypeOK
<1>4. Whole(calib_data, iteration) /\ calib_data \in Data /\ pixel \in Byte
  BY <1>1, CaptureAssumption DEF CaptureAssumption, IInv, TypeOK, Progress
<1>5. calib_data' = [length |-> CalibrationSize, folds |-> iteration + 1, pixel |-> pixel]
  <2>1. (IF calib_data.length = 0 \/ CalibrationSize < calib_data.length
         THEN CalibrationSize ELSE calib_data.length) = CalibrationSize
    BY <1>3, <1>4 DEF Whole
  <2>2. calib_data.folds = iteration
    BY <1>4 DEF Whole
  <2> QED
    BY <1>1, <2>1, <2>2 DEF Fold
<1>6. iteration' \in 0..sensor.calibration_iterations /\ calib_data' \in Data
  BY <1>1, <1>2, <1>3, <1>4, <1>5 DEF Data
<1>7. TypeOK'
  BY <1>1, <1>6 DEF IInv, TypeOK, machine
<1>8. Progress'
  <2>1. Whole(calib_data', iteration')
    BY <1>1, <1>2, <1>5 DEF Whole
  <2>2. CalibrationSize' = CalibrationSize
    BY <1>1 DEF CalibrationSize, machine
  <2> QED
    BY <1>1, <2>1, <2>2 DEF Progress, Whole
<1> QED
  BY <1>1, <1>7, <1>8 DEF IInv, CacheOrigin, SentNow

\* What is kept is complete, or shorter than it.
LEMMA SaveStep == IInv /\ Save => IInv'
<1> SUFFICES ASSUME IInv, Save PROVE IInv'
  OBVIOUS
<1>1. /\ pc = "calibrating" /\ iteration = sensor.calibration_iterations
      /\ iteration' = 0 /\ sent' = None /\ UNCHANGED machine
      /\ pc' \in {"ready", "down"}
      /\ calib_data' = IF pc' = "down" THEN Empty ELSE calib_data
  BY DEF Save
<1>2. /\ Whole(calib_data, sensor.calibration_iterations) /\ calib_data \in Data
      /\ sensor \in Sensors /\ sensor.calibration_iterations \in Nat
  BY <1>1, CaptureAssumption DEF CaptureAssumption, IInv, TypeOK, Progress
<1>3. \/ cache' = cache
      \/ \E n \in 0..calib_data.length : cache' = [calib_data EXCEPT !.length = n]
  <2>1. calib_data = [calib_data EXCEPT !.length = calib_data.length] /\ calib_data.length \in Nat
    BY <1>2 DEF Data
  <2> QED
    BY <2>1 DEF Save, Cut
<1>4. cache' \in Data \cup {None}
  <2>1. \A n \in 0..calib_data.length : [calib_data EXCEPT !.length = n] \in Data
    BY <1>2 DEF Data
  <2> QED
    BY <1>3, <2>1 DEF IInv, TypeOK
<1>5. CacheOrigin'
  <2>1. CASE cache' = cache
    BY <2>1 DEF IInv, CacheOrigin
  <2>2. ASSUME NEW n \in 0..calib_data.length, cache' = [calib_data EXCEPT !.length = n]
        PROVE  CacheOrigin'
    <3>1. cache'.length = n /\ cache'.folds = sensor.calibration_iterations
      BY <1>2, <2>2 DEF Data, Whole
    <3>2. calib_data.length \in Nat /\ n \in Nat /\ n <= calib_data.length
      BY <1>2 DEF Data
    <3>3. CASE sensor.calibration_iterations = 0
      BY <1>2, <3>1, <3>2, <3>3 DEF Whole, CacheOrigin
    <3>4. CASE sensor.calibration_iterations > 0
      BY <1>2, <3>1, <3>2, <3>4 DEF Whole, CacheOrigin, CalibrationSize
    <3> QED
      BY <1>2, <3>3, <3>4
  <2> QED
    BY <1>3, <2>1, <2>2
<1>6. TypeOK'
  <2>1. calib_data' \in Data /\ 0 \in 0..sensor.calibration_iterations
    BY <1>1, <1>2 DEF Empty, Data, Byte
  <2> QED
    BY <1>1, <1>4, <2>1 DEF IInv, TypeOK, machine
<1>7. Progress'
  BY <1>1, <1>2 DEF Progress, Whole, CalibrationSize, machine
<1> QED
  BY <1>1, <1>5, <1>6, <1>7 DEF IInv, SentNow

-----------------------------------------------------------------------------
(* What follows from it.                                                   *)

\* The inductive invariant holds of every state that runs, crashes, and changes
\* of the sensor lead to.
THEOREM CaptureInductive == Spec => []IInv
<1>1. Init => IInv
  <2> SUFFICES ASSUME Init PROVE IInv
    OBVIOUS
  <2>0. sensor \in Sensors /\ sensor.calibration_iterations \in Nat
    BY CaptureAssumption DEF CaptureAssumption, Init
  <2>1. Empty \in Data /\ 0 \in 0..sensor.calibration_iterations
    BY <2>0 DEF Empty, Data, Byte
  <2>2. TypeOK
    BY <2>1 DEF Init, TypeOK
  <2>3. Progress /\ CacheOrigin /\ SentNow
    BY DEF Init, Progress, CacheOrigin, SentNow
  <2> QED
    BY <2>2, <2>3 DEF IInv
<1>2. IInv /\ [Next]_vars => IInv'
  <2> SUFFICES ASSUME IInv, [Next]_vars PROVE IInv'
    OBVIOUS
  <2>1. CASE UNCHANGED vars
    BY <2>1
       DEF vars, machine, IInv, TypeOK, Progress, CacheOrigin, SentNow, Whole, CalibrationSize
  <2> QED
    BY <2>1, DownStep, StartStep, SendStep, ReadStep, SaveStep DEF Next
<1> QED
  BY <1>1, <1>2, PTL DEF Spec

\* Every variable has its type, and the table that is sent has the length of
\* the sensor's, whose head line_update_type_1 replaces by the key line: no
\* position the anchors and calls name has moved.
THEOREM CaptureTyped == Spec => []TypeOK
BY CaptureInductive, PTL DEF IInv

\* A finger is captured with every iteration of a calibration of this sensor's
\* size, whatever load found where save left it.
THEOREM CapturedWhole == Spec => []CalibrationIsWhole
<1>1. IInv => CalibrationIsWhole
  BY DEF IInv, SentNow, Progress, Whole, CalibrationIsWhole
<1> QED
  BY <1>1, CaptureInductive, PTL

-----------------------------------------------------------------------------
(* The tables of the sensors, rewritten.                                   *)

\* The code of a sensor's table, its calls, what they call once patched, the
\* writes of the register of the calibration, and the table itself, patched.
Code(s) == Starts(s.table, s.offset)
CallsOf(s) == {p \in Routine(s.table, s.offset) : Op(s.table, p) = Call}
Called(b, call) == 4 * (At(b, call + 1) + IF call \in SamplingCalls(b) THEN 1 ELSE 0)
CalibrationWrites(b, from) == {p \in from : Writes(b, p, Calibration)}
ScaledTable(s) == PatchTimeslotTable(s.table, s.repeat_multiplier)

\* The code is what the walk from the head comes to behind the No-ops.
LEMMA CodeOf ==
    ASSUME NEW s \in Sensors
    PROVE  /\ s.table \in Seq(Byte) /\ s.offset \in Nat /\ s.repeat_multiplier \in Nat
           /\ s.offset \in Starts(s.table, 0) /\ Code(s) \subseteq Starts(s.table, 0)
           /\ \A p \in Starts(s.table, 0) : ~Truncated(s.table, p) /\ (p \in Code(s) \/ Op(s.table, p) = 0)
<1>1. s.table \in Seq(Byte) /\ s.offset \in Nat /\ s.repeat_multiplier \in Nat
  BY CaptureAssumption DEF CaptureAssumption
<1>2. /\ s.offset \in Starts(s.table, 0)
      /\ \A p \in Starts(s.table, 0) :
            ~Truncated(s.table, p) /\ (p < s.offset => Op(s.table, p) = 0)
  BY TableAssumption DEF TableAssumption
<1>3. Code(s) = {p \in Starts(s.table, 0) : s.offset <= p}
  BY <1>1, <1>2, StartsRest DEF Code
<1>4. \A p \in Starts(s.table, 0) : p < s.offset \/ s.offset <= p
  BY <1>1, StartsRange
<1> QED
  BY <1>1, <1>2, <1>3, <1>4

\* A call of the scaled table calls the beginning of an instruction.
LEMMA CalledInCode ==
    ASSUME NEW s \in Sensors, NEW call \in Code(s), Op(s.table, call) = Call
    PROVE  Target(ScaledTable(s), call) = Called(s.table, call) /\ Called(s.table, call) \in Code(s)
<1> DEFINE b == s.table
           c == ScaledTable(s)
<1>1. /\ b \in Seq(Byte) /\ s.repeat_multiplier \in Nat
      /\ call \in Starts(b, 0) /\ ~Truncated(b, call)
  BY CodeOf
<1>2. At(b, call + 1) < 255 /\ Called(b, call) \in Code(s)
  BY TableAssumption DEF TableAssumption, Code, Called
<1>3. At(b, call + 1) \in 0..254 /\ Size(b, call) = 3
  <2>1. call \in Nat /\ Size(b, call) = 3 /\ Len(b) \in Nat /\ call + 3 <= Len(b)
    BY <1>1, StartsRange, InsnSize, LenProperties DEF Truncated
  <2>2. At(b, call + 1) \in Byte
    BY <1>1, <2>1, InsnSize
  <2> QED
    BY <1>2, <2>1, <2>2 DEF Byte
<1>4. CASE call \in SamplingCalls(b)
  <2>1. At(c, call + 1) = (At(b, call + 1) + 1) % 256
    BY <1>1, <1>4, ScaledOperands DEF ScaledTable
  <2>2. (At(b, call + 1) + 1) % 256 = At(b, call + 1) + 1
    <3> DEFINE x == At(b, call + 1)
    <3> HIDE DEF x
    <3>1. x \in 0..254 => (x + 1) % 256 = x + 1
      OBVIOUS
    <3> QED
      BY <1>3, <3>1 DEF x
  <2> QED
    BY <1>2, <1>4, <2>1, <2>2 DEF Target, Called
<1>5. CASE call \notin SamplingCalls(b)
  <2>1. At(c, call + 1) = At(b, call + 1)
    <3>1. 1 \in 0..(Size(b, call) - 1)
      BY <1>3
    <3> QED
      BY <1>1, <1>5, <3>1, ScaledOperands DEF ScaledTable
  <2> QED
    BY <1>2, <1>3, <1>5, <2>1 DEF Target, Called
<1> QED
  BY <1>4, <1>5

\* What patch_timeslot_again finds there is the write of the register.
LEMMA TrimmedIsWrite ==
    ASSUME NEW s \in Sensors
    PROVE  /\ SameCode(s.table, ScaledTable(s), 0)
           /\ TrimmedWrite(ScaledTable(s)) = CalibrationWrites(s.table, Code(s))
<1> DEFINE b == s.table
           c == ScaledTable(s)
           found(d, at) == LastOf({p \in Routine(d, at) : Writes(d, p, Calibration)})
<1>1. SameCode(b, c, 0) /\ b \in Seq(Byte) /\ s.offset \in Nat
  BY CodeOf, ScaledCode DEF ScaledTable
<1>2. LastCall(c) = LastCall(b)
  <2>1. Routine(c, 0) = Routine(b, 0) /\ Routine(b, 0) \subseteq Starts(b, 0)
    BY <1>1, SameRoutine
  <2>2. \A p \in Routine(b, 0) : Op(c, p) = Op(b, p)
    BY <1>1, <2>1, SameInsns
  <2>3. {p \in Routine(c, 0) : Op(c, p) = Call} = {p \in Routine(b, 0) : Op(b, p) = Call}
    BY <2>1, <2>2
  <2> QED
    BY <2>3 DEF LastCall
<1>3. ASSUME NEW call \in LastCall(b) PROVE found(c, Target(c, call)) = found(b, Called(b, call))
  <2>1. call \in Starts(b, 0) /\ Op(b, call) = Call
    BY <1>1, SameRoutine DEF LastCall, LastOf
  <2>2. call \in Code(s)
    BY <2>1, CodeOf DEF Call
  <2> DEFINE at == Called(b, call)
  <2>3. Target(c, call) = at /\ at \in Starts(b, 0)
    BY <2>1, <2>2, CalledInCode, CodeOf
  <2> HIDE DEF at, c
  <2>4. SameCode(b, c, at) /\ at \in Nat
    BY <1>1, <2>3, SameRest
  <2>5. Routine(c, at) = Routine(b, at) /\ Routine(b, at) \subseteq Starts(b, at)
    BY <2>4, SameRoutine
  <2>6. \A p \in Routine(b, at) : Writes(c, p, Calibration) = Writes(b, p, Calibration)
    BY <2>4, <2>5, SameInsns
  <2>7. {p \in Routine(c, at) : Writes(c, p, Calibration)} = {p \in Routine(b, at) : Writes(b, p, Calibration)}
    BY <2>5, <2>6
  <2> QED
    BY <2>3, <2>7 DEF at
<1>4. TrimmedWrite(c) = UNION {found(c, Target(c, call)) : call \in LastCall(c)}
  BY DEF TrimmedWrite
<1>5. CalibrationWrites(b, Code(s)) = UNION {found(b, Called(b, call)) : call \in LastCall(b)}
  BY TableAssumption DEF TableAssumption, CalibrationWrites, Code, Called
<1> HIDE DEF found, c
<1>6. TrimmedWrite(c) = CalibrationWrites(b, Code(s))
  BY <1>2, <1>3, <1>4, <1>5
<1> QED
  BY <1>1, <1>6 DEF c

\* Behind the key line the table goes as it is.
LEMMA BodyTail ==
    ASSUME IInv, NEW mode \in Modes, Built(mode)
    PROVE  \A at \in Nat : sensor.offset <= at /\ at < Len(sensor.table) =>
               At(Body(Tst(mode)), at) = At(Tst(mode), at)
<1> DEFINE tst == Tst(mode)
<1>1. /\ sensor \in Sensors /\ sensor.table \in Seq(Byte) /\ sensor.offset \in Nat
      /\ sensor.line_width \in Nat /\ Len(sensor.table) \in Nat
  BY CaptureAssumption, LenProperties DEF CaptureAssumption, IInv, TypeOK
<1>2. tst \in Seq(Byte) /\ Len(tst) = Len(sensor.table)
  BY TstKeepsLength
<1> SUFFICES ASSUME NEW at \in Nat, sensor.offset <= at, at < Len(sensor.table)
             PROVE  At(Body(tst), at) = At(tst, at)
  OBVIOUS
<1>3. CASE ~sensor.type1
  BY <1>3 DEF Body
<1>4. CASE sensor.type1
  <2> DEFINE width == sensor.line_width
             rest == SubSeq(tst, width + 1, Len(tst))
  <2>1. width <= sensor.offset
    BY <1>1, <1>4, TableAssumption DEF TableAssumption
  <2>2. KeyLine \in Seq(Byte) /\ Len(KeyLine) = width
    BY KeyLineLength
  <2>3. \A i \in 1..Len(tst) : tst[i] \in Byte
    BY <1>2, ElementOfSeq
  <2> HIDE DEF tst
  <2>4. \A i \in (width + 1)..Len(tst) : tst[i] \in Byte
    BY <1>1, <2>3
  <2>5. width + 1 \in Int /\ Len(tst) \in Int
    BY <1>1, <1>2
  <2>6. /\ rest \in Seq(Byte)
        /\ Len(rest) = IF width + 1 <= Len(tst) THEN Len(tst) - (width + 1) + 1 ELSE 0
        /\ \A i \in 1..(Len(tst) - (width + 1) + 1) : rest[i] = tst[(width + 1) + i - 1]
    BY <2>4, <2>5, SubSeqProperties
  <2>7. Body(tst) = KeyLine \o rest
    BY <1>4 DEF Body
  <2> HIDE DEF rest
  <2>8. \A i \in 1..(Len(KeyLine) + Len(rest)) :
           (KeyLine \o rest)[i] = IF i <= Len(KeyLine) THEN KeyLine[i] ELSE rest[i - Len(KeyLine)]
    BY <2>2, <2>6, ConcatProperties
  <2> HIDE DEF width
  <2>9. /\ width \in Nat /\ width <= at /\ at < Len(tst) /\ Len(tst) \in Nat
        /\ Len(rest) = Len(tst) - width
    BY <1>1, <1>2, <2>1, <2>6 DEF width
  <2>10. (KeyLine \o rest)[at + 1] = rest[(at + 1) - width]
    <3>1. at + 1 \in 1..(Len(KeyLine) + Len(rest)) /\ ~(at + 1 <= Len(KeyLine))
      BY <2>2, <2>9
    <3> QED
      BY <2>2, <2>8, <3>1
  <2>11. rest[(at + 1) - width] = tst[at + 1]
    <3>1. (at + 1) - width \in 1..(Len(tst) - (width + 1) + 1)
      BY <2>9
    <3>2. (width + 1) + ((at + 1) - width) - 1 = at + 1
      BY <2>9
    <3> QED
      BY <2>6, <3>1, <3>2
  <2> QED
    BY <2>7, <2>10, <2>11 DEF At, tst
<1> QED
  BY <1>3, <1>4

\* What is sent has the code of the table of the sensor; where it is called and
\* how often is what patch_timeslot_table makes of it, and the register of the
\* calibration gets the trim value.
LEMMA BodyCode ==
    ASSUME IInv, NEW mode \in Modes, Built(mode)
    PROVE  /\ SameCode(sensor.table, Tst(mode), 0)
           /\ SameCode(sensor.table, Body(Tst(mode)), sensor.offset)
           /\ \A p \in Code(sensor), k \in 0..2 :
                 k < Size(sensor.table, p) =>
                    At(Body(Tst(mode)), p + k) =
                        IF mode # "calibrate" /\ k = 1 /\ Writes(sensor.table, p, Calibration)
                        THEN trim ELSE At(Scaled, p + k)
<1> DEFINE b == sensor.table
           c == Scaled
           tst == Tst(mode)
           trimmed == mode # "calibrate"
<1>1. /\ sensor \in Sensors /\ b \in Seq(Byte) /\ sensor.offset \in Nat /\ Len(b) \in Nat
      /\ Code(sensor) \subseteq Starts(b, 0)
      /\ \A p \in Starts(b, 0) : ~Truncated(b, p)
  BY CodeOf, LenProperties DEF IInv, TypeOK
<1>2. c = ScaledTable(sensor)
  BY DEF Scaled, ScaledTable
<1> HIDE DEF c, tst
<1>3. SameCode(b, c, 0) /\ TrimmedWrite(c) = CalibrationWrites(b, Code(sensor))
  BY <1>1, <1>2, TrimmedIsWrite
<1>4. c \in Seq(Byte) /\ Len(c) = Len(b) /\ Starts(c, 0) = Starts(b, 0)
  BY <1>3, SameStarts DEF SameCode
<1>5. \A p \in Starts(c, 0) : ~Truncated(c, p) /\ Size(c, p) = Size(b, p)
  BY <1>1, <1>3, <1>4, SameInsns
<1>6. \A w \in TrimmedWrite(c) : w \in Starts(c, 0) /\ Op(c, w) = RegisterWrite
  BY <1>1, <1>3, <1>4, SameInsns DEF CalibrationWrites, Writes
<1>7. trimmed => (TrimmedWrite(c) # {} => trim \in Byte)
  BY CaptureAssumption DEF CaptureAssumption, Built, Untrimmed, IInv, TypeOK, c
<1>8. /\ trimmed => tst = PatchTimeslotAgain(c, trim)
      /\ ~trimmed => tst = c
  BY DEF tst, Tst, c
<1>9. SameCode(b, tst, 0)
  <2>1. CASE trimmed
    <3>1. SameCode(c, tst, 0)
      BY <1>4, <1>5, <1>6, <1>7, <1>8, <2>1, TrimmedCode
    <3> QED
      BY <1>3, <3>1, SameCodeTransitive
  <2> QED
    BY <1>3, <1>8, <2>1
<1>10. ASSUME NEW p \in Code(sensor), NEW k \in 0..2, k < Size(b, p)
       PROVE  At(tst, p + k) = IF trimmed /\ k = 1 /\ Writes(b, p, Calibration)
                               THEN trim ELSE At(c, p + k)
  <2>1. CASE trimmed
    <3>1. p \in Starts(c, 0) /\ k \in 0..(Size(c, p) - 1) /\ ~Truncated(c, p)
      <4>1. Size(b, p) \in 1..3
        BY <1>1, StartsRange, InsnSize
      <4> QED
        BY <1>1, <1>4, <1>5, <1>10, <4>1
    <3>2. At(PatchTimeslotAgain(c, trim), p + k) =
             IF k = 1 /\ p \in TrimmedWrite(c) THEN trim ELSE At(c, p + k)
      BY <1>4, <1>6, <1>7, <2>1, <3>1, TrimmedOperands
    <3>3. p \in TrimmedWrite(c) <=> Writes(b, p, Calibration)
      BY <1>3 DEF CalibrationWrites
    <3> QED
      BY <1>8, <2>1, <3>2, <3>3
  <2> QED
    BY <1>8, <2>1
<1>11. Body(tst) \in Seq(Byte) /\ Len(Body(tst)) = Len(b)
  BY BodyKeepsLength DEF tst
<1>12. ASSUME NEW p \in Code(sensor), NEW k \in 0..2, k < Size(b, p)
       PROVE  At(Body(tst), p + k) = At(tst, p + k)
  <2>1. /\ p \in Nat /\ sensor.offset <= p /\ Size(b, p) \in 1..3
        /\ p + Size(b, p) <= Len(b)
    BY <1>1, StartsRange, InsnSize DEF Code, Truncated
  <2>2. p + k \in Nat /\ sensor.offset <= p + k /\ p + k < Len(b)
    BY <1>1, <1>12, <2>1
  <2> QED
    BY <2>2, BodyTail DEF tst
<1>13. SameCode(b, Body(tst), sensor.offset)
  <2>1. ASSUME NEW p \in Starts(b, sensor.offset) PROVE At(Body(tst), p) = At(b, p)
    <3>1. p \in Code(sensor) /\ p \in Starts(b, 0) /\ p \in Nat /\ Size(b, p) \in 1..3
      BY <1>1, StartsRange, InsnSize DEF Code
    <3>2. 0 \in 0..2 /\ 0 < Size(b, p) /\ p + 0 = p
      BY <3>1
    <3>3. At(Body(tst), p) = At(tst, p)
      BY <1>12, <3>1, <3>2
    <3> QED
      BY <1>9, <3>1, <3>3 DEF SameCode
  <2> QED
    BY <1>1, <1>11, <2>1 DEF SameCode
<1> QED
  BY <1>9, <1>10, <1>12, <1>13 DEF tst, c

-----------------------------------------------------------------------------
(* The lines that are sampled.                                             *)

\* The lines that calls sample.
Lines(b, calls) == FoldSet(LAMBDA call, n : n + Repeat(b, call), 0, calls)

\* A sum as a function of the calls it is over, and one up to so many of them.
Chosen(t) == CHOOSE x \in t : TRUE
SumStep(b, g, t) == IF t = {} THEN 0 ELSE g[t \ {Chosen(t)}] + Repeat(b, Chosen(t))
Sums(b, S, g) == g = [t \in SUBSET S |-> SumStep(b, g, t)]
SumsUpTo(b, S, n, g) ==
    /\ g = [t \in SUBSET S |-> g[t]]
    /\ \A t \in SUBSET S : g[t] \in Nat /\ (Cardinality(t) <= n => g[t] = SumStep(b, g, t))

\* What is added up is a function of the calls still to be taken.
LEMMA FoldIsSum ==
    ASSUME NEW b, NEW S
    PROVE  Lines(b, S) = (CHOOSE g : Sums(b, S, g))[S]
BY DEF Lines, FoldSet, MapThenFoldSet, Sums, SumStep, Chosen

\* No calls sample no lines.
LEMMA SumOfNone == \A b, g : SumStep(b, g, {}) = 0
BY DEF SumStep

\* What a sum takes is of the set, and leaves a smaller one.
LEMMA OneLess ==
    ASSUME NEW S, IsFiniteSet(S), NEW t \in SUBSET S, t # {}
    PROVE  /\ Chosen(t) \in t /\ t \ {Chosen(t)} \in SUBSET S
           /\ Cardinality(t) \in Nat /\ Cardinality(t \ {Chosen(t)}) = Cardinality(t) - 1
<1>1. Chosen(t) \in t
  BY DEF Chosen
<1>2. IsFiniteSet(t)
  BY FS_Subset
<1> QED
  BY <1>1, <1>2, FS_CardinalityType, FS_RemoveElement

\* There is such a function, built from the empty set up.
LEMMA SumExists ==
    ASSUME NEW b, NEW S, IsFiniteSet(S), \A x \in S : Repeat(b, x) \in Nat
    PROVE  \E g : Sums(b, S, g) /\ \A t \in SUBSET S : g[t] \in Nat
<1> DEFINE T == {n \in Nat : \E g : SumsUpTo(b, S, n, g)}
<1>1. 0 \in T
  <2> DEFINE g == [t \in SUBSET S |-> 0]
  <2>0. g = [t \in SUBSET S |-> g[t]]
    OBVIOUS
  <2>1. \A t \in SUBSET S : g[t] = 0
    OBVIOUS
  <2> HIDE DEF g
  <2>2. ASSUME NEW t \in SUBSET S, Cardinality(t) <= 0 PROVE g[t] = SumStep(b, g, t)
    <3>1. t = {}
      <4> SUFFICES ASSUME t # {} PROVE FALSE
        OBVIOUS
      <4>1. t \ {Chosen(t)} \in SUBSET S /\ Cardinality(t) \in Nat /\ Cardinality(t \ {Chosen(t)}) = Cardinality(t) - 1
        BY OneLess
      <4>2. Cardinality(t \ {Chosen(t)}) \in Nat
        BY <4>1, FS_Subset, FS_CardinalityType
      <4> QED
        BY <2>2, <4>1, <4>2
    <3> QED
      BY <2>1, <3>1, SumOfNone
  <2>3. \A t \in SUBSET S : g[t] \in Nat /\ (Cardinality(t) <= 0 => g[t] = SumStep(b, g, t))
    <3>1. \A t \in SUBSET S : g[t] \in Nat
      BY <2>1
    <3> QED
      BY <2>2, <3>1
  <2>4. SumsUpTo(b, S, 0, g)
    BY <2>0, <2>3 DEF SumsUpTo
  <2> QED
    BY <2>4
<1>2. ASSUME NEW n \in Nat, n \in T PROVE n + 1 \in T
  <2>1. PICK g : SumsUpTo(b, S, n, g)
    BY <1>2
  <2> DEFINE h == [t \in SUBSET S |-> SumStep(b, g, t)]
  <2>2. h = [t \in SUBSET S |-> h[t]] /\ \A t \in SUBSET S : h[t] = SumStep(b, g, t)
    OBVIOUS
  <2> HIDE DEF h
  <2>3. ASSUME NEW t \in SUBSET S PROVE h[t] \in Nat /\ (Cardinality(t) <= n + 1 => h[t] = SumStep(b, h, t))
    <3>1. CASE t = {}
      <4>1. h[t] = 0 /\ SumStep(b, h, t) = 0
        BY <2>2, <3>1, SumOfNone
      <4> QED
        BY <4>1
    <3>2. CASE t # {}
      <4> DEFINE r == t \ {Chosen(t)}
      <4>1. Chosen(t) \in S /\ r \in SUBSET S /\ Cardinality(t) \in Nat /\ Cardinality(r) = Cardinality(t) - 1
        BY <3>2, OneLess
      <4>2. h[t] = g[r] + Repeat(b, Chosen(t)) /\ SumStep(b, h, t) = h[r] + Repeat(b, Chosen(t))
        BY <2>2, <3>2 DEF SumStep
      <4> HIDE DEF r
      <4>3. g[r] \in Nat /\ (Cardinality(r) <= n => g[r] = SumStep(b, g, r))
        BY <2>1, <4>1 DEF SumsUpTo
      <4>4. h[r] = SumStep(b, g, r)
        BY <2>2, <4>1
      <4> QED
        BY <4>1, <4>2, <4>3, <4>4
    <3> QED
      BY <3>1, <3>2
  <2>4. SumsUpTo(b, S, n + 1, h)
    BY <2>2, <2>3 DEF SumsUpTo
  <2> QED
    BY <2>4
<1>3. Cardinality(S) \in Nat
  BY FS_CardinalityType
<1>4. Cardinality(S) \in T
  <2> HIDE DEF T
  <2> QED
    BY <1>1, <1>2, <1>3, Upward
<1>5. PICK g : SumsUpTo(b, S, Cardinality(S), g)
  BY <1>4
<1>6. \A t \in SUBSET S : Cardinality(t) <= Cardinality(S)
  BY FS_Subset
<1>7. g = [t \in SUBSET S |-> g[t]] /\ \A t \in SUBSET S : g[t] \in Nat /\ g[t] = SumStep(b, g, t)
  BY <1>5, <1>6 DEF SumsUpTo
<1> QED
  BY <1>7 DEF Sums

\* Repeats that are all multiplied come to a multiple.
LEMMA SumScaled ==
    ASSUME NEW b, NEW c, NEW S, IsFiniteSet(S), NEW mult \in Nat,
           \A x \in S : Repeat(b, x) \in Nat /\ Repeat(c, x) = mult * Repeat(b, x)
    PROVE  Lines(c, S) = mult * Lines(b, S)
<1> DEFINE f == CHOOSE g : Sums(b, S, g)
           h == CHOOSE g : Sums(c, S, g)
           T == {n \in Nat : \A t \in SUBSET S :
                    Cardinality(t) = n => f[t] \in Nat /\ h[t] = mult * f[t]}
<1>1. \A x \in S : Repeat(c, x) \in Nat
  OBVIOUS
<1>2. Sums(b, S, f) /\ Sums(c, S, h)
  <2>1. (\E g : Sums(b, S, g)) /\ (\E g : Sums(c, S, g))
    BY <1>1, SumExists
  <2> QED
    BY <2>1
<1> HIDE DEF f, h
<1>3. \A t \in SUBSET S : f[t] = SumStep(b, f, t) /\ h[t] = SumStep(c, h, t)
  BY <1>2 DEF Sums
<1>4. ASSUME NEW t \in SUBSET S, t # {}, t \ {Chosen(t)} \in SUBSET S,
             f[t \ {Chosen(t)}] \in Nat, h[t \ {Chosen(t)}] = mult * f[t \ {Chosen(t)}]
      PROVE  f[t] \in Nat /\ h[t] = mult * f[t]
  <2> DEFINE x == Chosen(t)
             r == t \ {x}
  <2>1. x \in S /\ Repeat(b, x) \in Nat /\ Repeat(c, x) = mult * Repeat(b, x)
    BY <1>4, OneLess
  <2>2. f[t] = f[r] + Repeat(b, x) /\ h[t] = h[r] + Repeat(c, x)
    BY <1>3, <1>4 DEF SumStep
  <2>3. f[r] \in Nat /\ h[r] = mult * f[r]
    BY <1>4
  <2>4. \A k, l \in Nat : k + l \in Nat /\ mult * k + mult * l = mult * (k + l)
    OBVIOUS
  <2> HIDE DEF x, r
  <2> QED
    BY <2>1, <2>2, <2>3, <2>4
<1>5. \A t \in SUBSET S : t = {} => f[t] \in Nat /\ h[t] = mult * f[t]
  <2>1. \A t \in SUBSET S : t = {} => f[t] = 0 /\ h[t] = 0
    BY <1>3 DEF SumStep
  <2> QED
    BY <2>1
<1>6. 0 \in T
  <2>1. ASSUME NEW t \in SUBSET S, Cardinality(t) = 0 PROVE t = {}
    BY <2>1, FS_Subset, FS_EmptySet
  <2> QED
    BY <1>5, <2>1
<1>7. ASSUME NEW n \in Nat, n \in T PROVE n + 1 \in T
  <2>1. ASSUME NEW t \in SUBSET S, Cardinality(t) = n + 1 PROVE f[t] \in Nat /\ h[t] = mult * f[t]
    <3>1. CASE t = {}
      BY <1>5, <3>1
    <3>2. CASE t # {}
      <4>1. t \ {Chosen(t)} \in SUBSET S /\ Cardinality(t \ {Chosen(t)}) = n
        <5>1. /\ t \ {Chosen(t)} \in SUBSET S
              /\ Cardinality(t \ {Chosen(t)}) = Cardinality(t) - 1
          BY <3>2, OneLess
        <5> QED
          BY <2>1, <5>1
      <4> QED
        BY <1>4, <1>7, <3>2, <4>1
    <3> QED
      BY <3>1, <3>2
  <2> QED
    BY <2>1
<1>8. Cardinality(S) \in T
  <2>1. Cardinality(S) \in Nat
    BY FS_CardinalityType
  <2> HIDE DEF T
  <2> QED
    BY <1>6, <1>7, <2>1, Upward
<1>9. h[S] = mult * f[S]
  BY <1>8
<1>10. Lines(c, S) = h[S]
  BY FoldIsSum DEF h
<1>11. Lines(b, S) = f[S]
  BY FoldIsSum DEF f
<1> QED
  BY <1>9, <1>10, <1>11

\* The calls that sample are the table's, and each has what Scale makes of its
\* repeats: the multiple, for none of them leaves a byte.
LEMMA RepeatsMultiply ==
    ASSUME IInv, NEW mode \in Modes, Built(mode), NEW call \in CallsOf(sensor)
    PROVE  /\ Repeat(sensor.table, call) \in Nat
           /\ Repeat(Body(Tst(mode)), call) = sensor.repeat_multiplier * Repeat(sensor.table, call)
<1> DEFINE b == sensor.table
           body == Body(Tst(mode))
           mult == sensor.repeat_multiplier
           sampling == call \in SamplingCalls(b)
<1>1. /\ sensor \in Sensors /\ b \in Seq(Byte) /\ mult \in Nat \ {0} /\ sensor.offset \in Nat
      /\ Code(sensor) \subseteq Starts(b, 0)
      /\ \A p \in Starts(b, 0) : ~Truncated(b, p)
  BY CodeOf, CaptureAssumption DEF CaptureAssumption, IInv, TypeOK
<1>2. call \in Code(sensor) /\ Op(b, call) = Call /\ call \in Starts(b, 0)
  BY <1>1 DEF CallsOf, Routine, Code
<1>3. call \in Nat /\ Size(b, call) = 3 /\ call + 2 \in Nat /\ call + 2 < Len(b) /\ ~Writes(b, call, Calibration)
  <2>1. call \in Nat /\ Size(b, call) = 3 /\ Len(b) \in Nat
    BY <1>1, <1>2, StartsRange, InsnSize, LenProperties
  <2>2. call + 3 <= Len(b)
    BY <1>1, <1>2, <2>1 DEF Truncated
  <2> QED
    BY <1>2, <2>1, <2>2 DEF Writes, Call, RegisterWrite
<1> DEFINE x == At(b, call + 2)
<1>4. x \in 0..255
  BY <1>1, <1>3, InsnSize DEF Byte
<1>5. At(body, call + 2) = At(Scaled, call + 2)
  <2>1. 2 \in 0..2 /\ 2 < Size(b, call) /\ 2 # 1
    BY <1>3
  <2> HIDE DEF body, b
  <2>2. At(Body(Tst(mode)), call + 2) =
          IF mode # "calibrate" /\ 2 = 1 /\ Writes(sensor.table, call, Calibration)
          THEN trim ELSE At(Scaled, call + 2)
    BY <1>2, <2>1, BodyCode DEF b
  <2> QED
    BY <2>2 DEF body
<1>6. At(Scaled, call + 2) = IF sampling THEN (x * mult) % 256 ELSE x
  <2>1. 2 \in 0..(Size(b, call) - 1)
    BY <1>3
  <2> QED
    BY <1>1, <1>2, <2>1, ScaledOperands DEF Scaled, Scale
<1>7. mult = 1 \/ (sampling /\ x * mult <= 256)
  BY <1>1, TableAssumption DEF TableAssumption, CallsOf
<1>8. sampling => x > 1
  BY <1>1, SamplingCallsAreCalls
<1>9. /\ Repeat(b, call) = IF x = 0 THEN 256 ELSE x
      /\ Repeat(body, call) = IF At(body, call + 2) = 0 THEN 256 ELSE At(body, call + 2)
  BY DEF Repeat
<1> HIDE DEF x, mult, sampling, body, b
<1>10. Repeat(b, call) \in Nat
  BY <1>4, <1>9
<1>11. ASSUME mult = 1
       PROVE  Repeat(body, call) = mult * Repeat(b, call)
  <2>1. (x * mult) % 256 = x
    BY <1>4, <1>11
  <2>2. At(body, call + 2) = x
    BY <1>5, <1>6, <2>1
  <2> QED
    BY <1>9, <1>10, <1>11, <2>2
<1>12. ASSUME sampling, x * mult <= 256
       PROVE  Repeat(body, call) = mult * Repeat(b, call)
  <2>1. x \in 2..255 /\ mult \in Nat /\ mult >= 1
    BY <1>1, <1>4, <1>8, <1>12
  <2> DEFINE y == x * mult
  <2>2. y \in Nat /\ y > 0
    <3>1. \A k, l \in Nat : k > 0 /\ l > 0 => k * l \in Nat /\ k * l > 0
      OBVIOUS
    <3> QED
      BY <2>1, <3>1
  <2>3. y <= 256 /\ At(body, call + 2) = y % 256 /\ Repeat(b, call) = x
    BY <1>5, <1>6, <1>9, <1>12, <2>1
  <2>4. mult * Repeat(b, call) = y
    BY <2>1, <2>3
  <2> HIDE DEF y
  <2>5. y = 256 \/ y \in 1..255
    BY <2>2, <2>3
  <2>6. CASE y = 256
    <3>1. y % 256 = 0
      BY <2>6
    <3> QED
      BY <1>9, <2>3, <2>4, <2>6, <3>1
  <2>7. CASE y \in 1..255
    <3>1. y % 256 = y /\ y # 0
      BY <2>7
    <3> QED
      BY <1>9, <2>3, <2>4, <3>1
  <2> QED
    BY <2>5, <2>6, <2>7
<1>13. Repeat(body, call) = mult * Repeat(b, call)
  BY <1>7, <1>11, <1>12
<1> QED
  BY <1>10, <1>13 DEF b, body, mult

\* From the offset on, and from where a call calls, what is sent has the
\* routines of the table.
LEMMA BodyRoutines ==
    ASSUME IInv, NEW mode \in Modes, Built(mode)
    PROVE  LET b == sensor.table
               body == Body(Tst(mode))
           IN /\ Starts(body, sensor.offset) = Code(sensor)
              /\ Routine(body, sensor.offset) = Routine(b, sensor.offset)
              /\ \A p \in Code(sensor) :
                    /\ At(body, p) = At(b, p) /\ Op(body, p) = Op(b, p) /\ Size(body, p) = Size(b, p)
                    /\ \A register : Writes(body, p, register) = Writes(b, p, register)
              /\ \A call \in Code(sensor) : Op(b, call) = Call =>
                    /\ Target(body, call) = Called(b, call) /\ Called(b, call) \in Code(sensor)
                    /\ Routine(body, Target(body, call)) = Routine(b, Called(b, call))
                    /\ Routine(b, Called(b, call)) \subseteq Code(sensor)
<1> DEFINE b == sensor.table
           body == Body(Tst(mode))
<1>1. /\ sensor \in Sensors /\ sensor.offset \in Nat /\ b \in Seq(Byte)
      /\ Code(sensor) = Starts(b, sensor.offset)
      /\ Code(sensor) \subseteq Starts(b, 0)
  BY CodeOf DEF Code, IInv, TypeOK
<1>2. SameCode(b, body, sensor.offset)
  BY BodyCode
<1>3. Starts(body, sensor.offset) = Code(sensor)
  BY <1>1, <1>2, SameStarts
<1>4. Routine(body, sensor.offset) = Routine(b, sensor.offset)
  BY <1>1, <1>2, SameRoutine
<1>5. ASSUME NEW p \in Code(sensor)
      PROVE  /\ At(body, p) = At(b, p) /\ Op(body, p) = Op(b, p) /\ Size(body, p) = Size(b, p)
             /\ \A register : Writes(body, p, register) = Writes(b, p, register)
  <2>1. At(body, p) = At(b, p)
    BY <1>1, <1>2 DEF SameCode
  <2> QED
    BY <1>1, <1>2, <2>1, SameInsns
<1>6. ASSUME NEW call \in Code(sensor), Op(b, call) = Call
      PROVE  /\ Target(body, call) = Called(b, call) /\ Called(b, call) \in Code(sensor)
             /\ Routine(body, Target(body, call)) = Routine(b, Called(b, call))
             /\ Routine(b, Called(b, call)) \subseteq Code(sensor)
  <2>1. 1 \in 0..2 /\ 1 < Size(b, call) /\ ~Writes(b, call, Calibration)
    <3>1. call \in Nat /\ call < Len(b)
      BY <1>1, StartsRange
    <3> QED
      BY <1>1, <1>6, <3>1, InsnSize DEF Writes, Call, RegisterWrite
  <2>2. At(body, call + 1) = At(Scaled, call + 1)
    BY <2>1, BodyCode
  <2>3. Target(body, call) = Called(b, call) /\ Called(b, call) \in Code(sensor)
    <3>1. Target(Scaled, call) = Called(b, call) /\ Called(b, call) \in Code(sensor)
      BY <1>1, <1>6, CalledInCode DEF ScaledTable, Scaled
    <3> QED
      BY <2>2, <3>1 DEF Target
  <2> DEFINE at == Called(b, call)
  <2>4. at \in Starts(b, sensor.offset)
    BY <1>1, <2>3
  <2> HIDE DEF at, body
  <2>5. SameCode(b, body, at) /\ at \in Nat /\ Starts(b, at) \subseteq Starts(b, sensor.offset)
    BY <1>1, <1>2, <2>4, SameRest
  <2>6. Routine(body, at) = Routine(b, at) /\ Routine(b, at) \subseteq Starts(b, at)
    BY <2>5, SameRoutine
  <2> QED
    BY <1>1, <2>3, <2>5, <2>6 DEF at
<1> QED
  BY <1>3, <1>4, <1>5, <1>6

-----------------------------------------------------------------------------
(* What is sent.                                                           *)

\* A command was built by build_cmd_02 for the machine and from the calibration
\* there is: neither changes under it.
SentBuilt == sent # None => \E mode \in Modes : Built(mode) /\ sent = Command(mode)

\* What a command is built from is the machine and the calibration data.
LEMMA BuiltStays ==
    ASSUME UNCHANGED <<machine, calib_data>>, NEW mode \in Modes
    PROVE  Built(mode)' = Built(mode) /\ Command(mode)' = Command(mode)
<1>1. /\ sensor' = sensor /\ trim' = trim /\ factory' = factory /\ calib_data' = calib_data
  BY DEF machine
<1>2. Tst(mode)' = Tst(mode)
  BY <1>1 DEF Tst, Scaled
<1>3. Untrimmed' = Untrimmed
  BY <1>1 DEF Untrimmed, Scaled
<1>4. Anchors(Tst(mode))' = Anchors(Tst(mode))
  BY <1>1, <1>2 DEF Anchors
<1>5. Body(Tst(mode))' = Body(Tst(mode))
  BY <1>1, <1>2 DEF Body, KeyLine
<1>6. Built(mode)' = Built(mode)
  BY <1>1, <1>3, <1>4 DEF Built, Anchored
<1>7. Command(mode)' = Command(mode)
  BY <1>1, <1>4, <1>5 DEF Command, Columns, LinesPerFrame
<1> QED
  BY <1>6, <1>7

\* A command is what the driver builds for the sensor in the machine, from the
\* calibration it has, for as long as it is the last one sent.
THEOREM CaptureBuilt == Spec => []SentBuilt
<1>1. Init => SentBuilt
  BY DEF Init, SentBuilt
<1>2. IInv /\ SentBuilt /\ [Next]_vars => SentBuilt'
  <2> SUFFICES ASSUME IInv, SentBuilt, [Next]_vars PROVE SentBuilt'
    OBVIOUS
  <2>1. CASE Replace \/ Clear
    <3>1. sent' = None
      BY <2>1 DEF Replace, Clear, IInv, SentNow
    <3> QED
      BY <3>1 DEF SentBuilt
  <2>2. CASE Start \/ Stop \/ Save
    <3>1. sent' = None
      BY <2>2 DEF Start, Stop, Save
    <3> QED
      BY <3>1 DEF SentBuilt
  <2>3. CASE \E length \in Lengths, pixel \in Pixels : ReadData(length, pixel)
    <3>1. sent' = None
      BY <2>3 DEF ReadData
    <3> QED
      BY <3>1 DEF SentBuilt
  <2>4. CASE Calibrate \/ \E mode \in {"identify", "enroll"} : Capture(mode)
    <3>1. PICK mode \in Modes : Built(mode) /\ sent' = Command(mode)
      BY <2>4 DEF Calibrate, Capture, Modes
    <3>2. UNCHANGED <<machine, calib_data>>
      BY <2>4 DEF Calibrate, Capture
    <3> QED
      BY <3>1, <3>2, BuiltStays DEF SentBuilt
  <2>5. CASE UNCHANGED vars
    <3>1. UNCHANGED <<machine, calib_data>> /\ sent' = sent
      BY <2>5 DEF vars
    <3> QED
      BY <3>1, BuiltStays DEF SentBuilt
  <2> QED
    BY <2>1, <2>2, <2>3, <2>4, <2>5 DEF Next
<1> QED
  BY <1>1, <1>2, CaptureInductive, PTL DEF Spec

\* The calls of what is sent are those of the table.
LEMMA CallsSent ==
    ASSUME IInv, NEW mode \in Modes, Built(mode), sent.body = Body(Tst(mode))
    PROVE  Calls = CallsOf(sensor) /\ CallsOf(sensor) \subseteq Code(sensor)
<1> DEFINE b == sensor.table
<1>1. /\ Routine(sent.body, sensor.offset) = Routine(b, sensor.offset)
      /\ \A p \in Code(sensor) : Op(sent.body, p) = Op(b, p)
  BY BodyRoutines
<1>2. Routine(b, sensor.offset) \subseteq Code(sensor)
  BY DEF Routine, Code
<1> QED
  BY <1>1, <1>2 DEF Calls, CallsOf

\* As many lines are sampled as the host takes a frame to have, whatever
\* patch_timeslot_table does to repeat counts that are bytes.
THEOREM SampledEveryLine == Spec => []SamplesEveryLine
<1>1. ASSUME IInv, SentBuilt, sent # None
      PROVE  LinesPerFrame = Lines(sent.body, Calls)
  <2>1. PICK mode \in Modes : Built(mode) /\ sent = Command(mode)
    BY <1>1 DEF SentBuilt
  <2> DEFINE b == sensor.table
             mult == sensor.repeat_multiplier
  <2>2. sent.body = Body(Tst(mode))
    BY <2>1 DEF Command
  <2>3. sensor \in Sensors /\ mult \in Nat
    BY <1>1, CaptureAssumption DEF CaptureAssumption, IInv, TypeOK
  <2>4. Calls = CallsOf(sensor) /\ CallsOf(sensor) \subseteq Code(sensor)
    BY <1>1, <2>1, <2>2, CallsSent
  <2>5. IsFiniteSet(Calls)
    <3>1. b \in Seq(Byte) /\ sensor.offset \in Nat /\ Len(b) \in Nat
      BY <2>3, CodeOf, LenProperties
    <3>2. Code(sensor) \subseteq 0..Len(b)
      BY <3>1, StartsRange DEF Code
    <3>3. IsFiniteSet(0..Len(b))
      BY <3>1, FS_Interval
    <3> QED
      BY <2>4, <3>2, <3>3, FS_Subset
  <2>6. \A x \in Calls : Repeat(b, x) \in Nat /\ Repeat(sent.body, x) = mult * Repeat(b, x)
    BY <1>1, <2>1, <2>2, <2>4, RepeatsMultiply
  <2>7. Lines(sent.body, Calls) = mult * Lines(b, Calls)
    BY <2>3, <2>5, <2>6, SumScaled
  <2>8. sensor.lines_2d = Lines(b, Calls)
    <3>1. sensor.lines_2d = Lines(b, CallsOf(sensor))
      BY <2>3, TableAssumption DEF TableAssumption, CallsOf, Lines
    <3> QED
      BY <2>4, <3>1
  <2>9. sensor.lines_2d \in Nat
    BY <2>3, CaptureAssumption DEF CaptureAssumption
  <2> QED
    BY <2>3, <2>7, <2>8, <2>9 DEF LinesPerFrame
<1>2. IInv /\ SentBuilt => SamplesEveryLine
  BY <1>1 DEF SamplesEveryLine, Lines
<1> QED
  BY <1>2, CaptureInductive, CaptureBuilt, PTL

\* The program that is sent is the sensor's own: the same instructions at the
\* same places, calls that call one, and but for the calibration register,
\* which gets the trim of the key line, the same operands.
THEOREM CapturedProgramKept == Spec => []ProgramKept
<1>1. ASSUME IInv, SentBuilt, sent # None PROVE ProgramKept
  <2>1. PICK mode \in Modes : Built(mode) /\ sent = Command(mode)
    BY <1>1 DEF SentBuilt
  <2> DEFINE b == sensor.table
             body == sent.body
  <2>2. body = Body(Tst(mode)) /\ sent.mode = mode
    BY <2>1 DEF Command
  <2>3. /\ sensor \in Sensors /\ b \in Seq(Byte) /\ sensor.repeat_multiplier \in Nat /\ sensor.offset \in Nat
        /\ Code(sensor) \subseteq Starts(b, 0)
        /\ \A p \in Starts(b, 0) : ~Truncated(b, p)
    BY <1>1, CodeOf DEF IInv, TypeOK
  <2>4. /\ Starts(body, sensor.offset) = Code(sensor)
        /\ \A p \in Code(sensor) :
              /\ At(body, p) = At(b, p) /\ Op(body, p) = Op(b, p) /\ Size(body, p) = Size(b, p)
              /\ \A register : Writes(body, p, register) = Writes(b, p, register)
        /\ \A call \in Code(sensor) : Op(b, call) = Call =>
              Target(body, call) = Called(b, call) /\ Called(b, call) \in Code(sensor)
    BY <1>1, <2>1, <2>2, BodyRoutines
  <2>5. \A p \in Code(sensor), k \in 0..2 :
           k < Size(b, p) =>
              At(body, p + k) = IF mode # "calibrate" /\ k = 1 /\ Writes(b, p, Calibration)
                                THEN trim ELSE At(Scaled, p + k)
    BY <1>1, <2>1, <2>2, BodyCode
  <2> HIDE DEF body, b
  <2>6. ASSUME NEW p \in Code(sensor), Op(b, p) # Call, NEW k \in 1..(Size(b, p) - 1)
        PROVE  At(body, p + k) = IF mode # "calibrate" /\ k = 1 /\ Writes(b, p, Calibration)
                                 THEN trim ELSE At(b, p + k)
    <3>1. p \in Starts(b, 0) /\ ~Truncated(b, p)
      BY <2>3
    <3>2. k \in 0..2 /\ k < Size(b, p) /\ k \in 0..(Size(b, p) - 1)
      BY <2>3, <3>1, StartsRange, InsnSize
    <3>3. p \notin SamplingCalls(b)
      BY <2>6 DEF SamplingCalls
    <3>4. At(Scaled, p + k) = At(b, p + k)
      BY <2>3, <3>1, <3>2, <3>3, ScaledOperands DEF Scaled, b
    <3> QED
      BY <2>5, <3>2, <3>4
  <2>7. ASSUME NEW p \in Code(sensor), Writes(b, p, Calibration)
        PROVE  Op(b, p) # Call /\ 1 \in 1..(Size(b, p) - 1)
    <3>1. p \in Nat /\ p < Len(b) /\ Op(b, p) = RegisterWrite
      BY <2>3, <2>7, StartsRange DEF Writes
    <3> QED
      BY <2>3, <3>1, InsnSize DEF Call, RegisterWrite
  <2>8. ASSUME NEW p \in Code(sensor), Writes(b, p, Calibration)
        PROVE  At(body, p + 1) = IF sent.mode = "calibrate" THEN At(b, p + 1) ELSE trim
    <3>1. At(body, p + 1) = IF mode # "calibrate" /\ 1 = 1 /\ Writes(b, p, Calibration)
                            THEN trim ELSE At(b, p + 1)
      BY <2>6, <2>7, <2>8
    <3> QED
      BY <2>2, <2>8, <3>1
  <2>9. ASSUME NEW p \in Code(sensor), Op(body, p) # Call, NEW k \in 1..(Size(body, p) - 1),
               At(body, p + k) # At(b, p + k)
        PROVE  Writes(body, p, Calibration) /\ k = 1
    BY <2>4, <2>6, <2>9
  <2>10. Starts(b, sensor.offset) = Code(sensor)
    BY DEF Code, b
  <2>11. ASSUME NEW p \in Code(sensor)
         PROVE  /\ At(body, p) = At(b, p)
                /\ Op(body, p) = Call => Target(body, p) \in Code(sensor)
                /\ Writes(body, p, Calibration) =>
                      At(body, p + 1) = IF sent.mode = "calibrate" THEN At(b, p + 1) ELSE trim
    BY <2>4, <2>8
  <2> QED
    BY <2>4, <2>9, <2>10, <2>11 DEF ProgramKept, body, b
<1>2. IInv /\ SentBuilt => ProgramKept
  BY <1>1 DEF ProgramKept
<1> QED
  BY <1>2, CaptureInductive, CaptureBuilt, PTL

\* The same code has the same instructions and writes of registers to be found.
LEMMA SameFound ==
    ASSUME NEW b, NEW c, SameCode(b, c, 0), NEW opcode, NEW register, NEW n
    PROVE  /\ FindNthInsn(c, opcode, n) = FindNthInsn(b, opcode, n)
           /\ FindNthRegwrite(c, register, n) = FindNthRegwrite(b, register, n)
<1> DEFINE insns(d) == {p \in Starts(d, 0) : Op(d, p) = opcode}
           writes(d) == {p \in Starts(d, 0) : Writes(d, p, register)}
<1>1. Starts(c, 0) = Starts(b, 0)
  BY SameStarts
<1>2. \A p \in Starts(b, 0) : /\ Op(c, p) = Op(b, p) /\ Truncated(c, p) = Truncated(b, p)
                              /\ Writes(c, p, register) = Writes(b, p, register)
  BY SameInsns
<1>3. insns(c) = insns(b) /\ writes(c) = writes(b)
  BY <1>1, <1>2
<1>4. ASSUME NEW hits, hits \subseteq Starts(b, 0) PROVE Nth(c, hits, n) = Nth(b, hits, n)
  BY <1>2, <1>4 DEF Nth
<1>5. insns(b) \subseteq Starts(b, 0) /\ writes(b) \subseteq Starts(b, 0)
  OBVIOUS
<1>6. /\ FindNthInsn(c, opcode, n) = Nth(c, insns(c), n)
      /\ FindNthInsn(b, opcode, n) = Nth(b, insns(b), n)
      /\ FindNthRegwrite(c, register, n) = Nth(c, writes(c), n)
      /\ FindNthRegwrite(b, register, n) = Nth(b, writes(b), n)
  BY DEF FindNthInsn, FindNthRegwrite
<1> HIDE DEF insns, writes
<1> QED
  BY <1>3, <1>4, <1>5, <1>6

\* What is written into the table line by line is written at code that every
\* line runs through, and of the key line's bytes none is left out.
THEOREM CapturedAnchored == Spec => []AnchorsPointAtCode
<1>1. ASSUME IInv, SentBuilt, sent # None PROVE AnchorsPointAtCode
  <2>1. PICK mode \in Modes : Built(mode) /\ sent = Command(mode)
    BY <1>1 DEF SentBuilt
  <2> DEFINE b == sensor.table
             body == sent.body
             blob == FindNthInsn(b, EnableRx, 2)
             trims == FindNthRegwrite(b, Calibration, 1)
             other == IF sensor.type1 THEN {} ELSE FindNthRegwrite(b, CalibrationAlt, 1)
  <2>2. body = Body(Tst(mode)) /\ sent.anchors = Anchors(Tst(mode)) /\ sent.columns = Columns
    BY <2>1 DEF Command
  <2>3. sensor \in Sensors
    BY <1>1 DEF IInv, TypeOK
  <2>4. sent.anchors.blob = blob /\ sent.anchors.trims = trims /\ sent.anchors.other = other
    <3>1. SameCode(b, Tst(mode), 0)
      BY <1>1, <2>1, BodyCode
    <3> QED
      BY <2>2, <3>1, SameFound DEF Anchors
  <2>5. /\ \A at \in blob : Op(b, at) = EnableRx
        /\ \A at \in trims : Writes(b, at, Calibration)
        /\ \A at \in other : Writes(b, at, CalibrationAlt)
    BY DEF FindNthInsn, FindNthRegwrite, Nth
  <2>6. Calls = CallsOf(sensor) /\ CallsOf(sensor) \subseteq Code(sensor)
    BY <1>1, <2>1, <2>2, CallsSent
  <2>7. ASSUME NEW call \in Calls
        PROVE  LET run == Routine(body, Target(body, call))
               IN /\ \A at \in blob : at \in run /\ Op(body, at) = EnableRx
                  /\ \A at \in trims : at \in run /\ Writes(body, at, Calibration)
                  /\ \A at \in other : at \in run /\ Writes(body, at, CalibrationAlt)
    <3> DEFINE run == Routine(b, Called(b, call))
    <3>1. blob \subseteq run
      BY <2>3, <2>6, TableAssumption DEF TableAssumption, FindNthInsn, CallsOf, Called
    <3>2. trims \subseteq run
      BY <2>3, <2>6, TableAssumption DEF TableAssumption, FindNthRegwrite, CallsOf, Called
    <3>3. other \subseteq run
      BY <2>3, <2>6, TableAssumption DEF TableAssumption, CallsOf, Called
    <3>4. call \in Code(sensor) /\ Op(b, call) = Call
      BY <2>6 DEF CallsOf
    <3>5. Routine(body, Target(body, call)) = run /\ run \subseteq Code(sensor)
      BY <1>1, <2>1, <2>2, <3>4, BodyRoutines
    <3>6. \A p \in Code(sensor) : /\ Op(body, p) = Op(b, p)
                                  /\ \A register : Writes(body, p, register) = Writes(b, p, register)
      BY <1>1, <2>1, <2>2, BodyRoutines
    <3> HIDE DEF run, blob, trims, other, b, body
    <3> QED
      BY <2>5, <3>1, <3>2, <3>3, <3>5, <3>6
  <2>8. sent.columns # {} => UNION {c..(c + 3) : c \in sent.columns} = 0..(sensor.line_width - 1)
    <3> SUFFICES ASSUME sent.columns # {}
                 PROVE  UNION {c..(c + 3) : c \in sent.columns} = 0..(sensor.line_width - 1)
      OBVIOUS
    <3>1. sensor.type1 /\ sent.columns = {4 * k : k \in 0..27}
      BY <2>2 DEF Columns
    <3>2. sensor.line_width = 112
      BY <2>3, <3>1, TableAssumption DEF TableAssumption
    <3>3. \A x \in 0..111 : \E k \in 0..27 : x \in (4 * k)..(4 * k + 3)
      <4>1. \A x \in 0..111 : x \div 4 \in 0..27 /\ x \in (4 * (x \div 4))..(4 * (x \div 4) + 3)
        OBVIOUS
      <4> QED
        BY <4>1
    <3>4. \A k \in 0..27 : (4 * k)..(4 * k + 3) \subseteq 0..111
      OBVIOUS
    <3>5. UNION {c..(c + 3) : c \in {4 * k : k \in 0..27}} = 0..111
      BY <3>3, <3>4
    <3> QED
      BY <3>1, <3>2, <3>5
  <2> QED
    BY <2>4, <2>7, <2>8 DEF AnchorsPointAtCode
<1>2. IInv /\ SentBuilt => AnchorsPointAtCode
  BY <1>1 DEF AnchorsPointAtCode
<1> QED
  BY <1>2, CaptureInductive, CaptureBuilt, PTL

=============================================================================
