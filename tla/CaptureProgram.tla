--------------------------- MODULE CaptureProgram ---------------------------
(***************************************************************************)
(* The program a capture sends to the sensor: the vendor's capture program *)
(* for the sensor that was found, its timeslot table rewritten, and tables *)
(* of what the sensor is to write into it line by line. What goes in is    *)
(* calibrated first: over several captures, each of whose results shapes   *)
(* the program of the next, or from the cache of an earlier run.           *)
(*                                                                         *)
(* Image data is left out: calibration data is its length, the number of   *)
(* captures folded into it, and one value that all its pixels have. What   *)
(* of a program is not rewritten is left out too. Chunks are a record.     *)
(***************************************************************************)
EXTENDS Timeslot, FiniteSetsExt

CONSTANTS
    Sensors,     \* what probe knows of the sensors it supports
    Trims,       \* what the factory value of the key line may be
    Pixels,      \* what a pixel of calibration data may be
    NoTrim,      \* the factory values do not reach the key line
    None         \* no file; no command sent

Modes == {"calibrate", "identify", "enroll"}

SizeOf(s) == s.lines_per_calibration_data * s.bytes_per_line

ASSUME CaptureAssumption ==
    /\ NoTrim \notin Byte
    /\ Trims \subseteq Byte \cup {NoTrim} /\ Pixels \subseteq Byte
    /\ \A s \in Sensors :
          /\ s.table \in Seq(Byte)
          /\ {s.lines_2d, s.repeat_multiplier, s.lines_per_calibration_data,
              s.bytes_per_line, s.calibration_frames} \subseteq Nat \ {0}
          /\ {s.offset, s.line_width, s.key_calibration_line,
              s.calibration_iterations} \subseteq Nat

\* What the constants of probe and of the programs it picks come to: a frame is
\* a number of whole calibration lines, the key line fits in its table, and of
\* the sensors one is calibrated, with less data than the others would have.
ASSUME GeometryAssumption ==
    \A s \in Sensors :
        /\ (s.lines_2d * s.repeat_multiplier) % s.lines_per_calibration_data = 0
        /\ s.type1 \in BOOLEAN /\ (s.type1 => s.line_width <= Len(s.table))
        /\ \A t \in Sensors :
              t.calibration_iterations > 0 /\ SizeOf(s) <= SizeOf(t) =>
                  /\ SizeOf(s) = SizeOf(t)
                  /\ s.calibration_iterations = t.calibration_iterations

\* What tables.rs has for a sensor, which the driver rewrites without a look at
\* what it does: whole instructions, from the head of the table, where there
\* are none but No-ops, through its offset to its end; calls, of the beginning
\* of an instruction once those that sample go one word on; one write of the
\* calibration register, by what the last of these runs; as many repeats as
\* lines, in bytes that hold them times the multiplier; and in what each of
\* them runs the instructions that are looked for.
ASSUME TableAssumption ==
    \A s \in Sensors :
        LET b == s.table
            all == Starts(b, 0)
            code == Starts(b, s.offset)
            calls == {pc \in Routine(b, s.offset) : Op(b, pc) = Call}
            called(call) == 4 * (At(b, call + 1) + IF call \in SamplingCalls(b) THEN 1 ELSE 0)
            run(call) == Routine(b, called(call))
            writes(from) == {pc \in from : Writes(b, pc, Calibration)}
        IN  /\ s.offset \in all /\ (s.type1 => s.line_width = 112 /\ s.offset >= 112)
            /\ \A pc \in all : ~Truncated(b, pc) /\ (pc < s.offset => Op(b, pc) = 0)
            /\ \A pc \in code :
                  Op(b, pc) = Call => At(b, pc + 1) < 255 /\ called(pc) \in code
            /\ writes(code) = UNION {LastOf(writes(run(call))) : call \in LastCall(b)}
            /\ s.lines_2d = FoldSet(LAMBDA call, n : n + Repeat(b, call), 0, calls)
            /\ \/ s.repeat_multiplier = 1
               \/ \A call \in calls : /\ call \in SamplingCalls(b)
                                      /\ At(b, call + 2) * s.repeat_multiplier <= 256
            /\ \A call \in calls :
                  /\ Nth(b, {pc \in all : Op(b, pc) = EnableRx}, 2) \subseteq run(call)
                  /\ Nth(b, writes(all), 1) \subseteq run(call)
                  /\ s.type1 \/ FindNthRegwrite(b, CalibrationAlt, 1) \subseteq run(call)

VARIABLES
    sensor,      \* the sensor in the machine
    trim,        \* its factory value for the key line
    factory,     \* whether it has subtag 7, the other factory data
    pc,          \* where the driver is
    iteration,   \* captures of this calibration done
    calib_data,
    cache,       \* calib-data.bin
    sent         \* the last capture command

machine == <<sensor, trim, factory>>
vars == <<machine, pc, iteration, calib_data, cache, sent>>

-----------------------------------------------------------------------------
(* Geometry and calibration data.                                          *)

LinesPerFrame == sensor.lines_2d * sensor.repeat_multiplier
FrameSize == LinesPerFrame * sensor.bytes_per_line
LinesPerLine == LinesPerFrame \div sensor.lines_per_calibration_data
CalibrationSize == SizeOf(sensor)

Empty == [length |-> 0, folds |-> 0, pixel |-> 0]

\* average: the bytes of a transfer that it takes, and those it leaves.
Settling == IF sensor.calibration_frames = 1 THEN 0 ELSE IF LinesPerLine > 1 THEN 1 ELSE 2
Needed == IF LinesPerLine > 1 THEN (Settling + 1) * FrameSize
          ELSE sensor.calibration_frames * FrameSize
Averaged == IF LinesPerLine > 1 THEN FrameSize \div LinesPerLine ELSE FrameSize

\* process_calibration_results: the first frame is taken, another is added to
\* it line by line.
Fold(data, length, pixel) ==
    [length |-> IF data.length = 0 \/ length < data.length THEN length ELSE data.length,
     folds  |-> data.folds + 1,
     pixel  |-> pixel]

\* get_key_line: "The value 5 is reserved by the firmware".
KeyLine ==
    LET stride == calib_data.length \div sensor.lines_per_calibration_data
        end == 8 + stride * sensor.key_calibration_line + sensor.line_width
        pixel == IF calib_data.pixel = 5 THEN 4 ELSE calib_data.pixel
    IN [k \in 1..sensor.line_width |->
            IF calib_data.length # 0 /\ end <= calib_data.length THEN pixel ELSE 0]

-----------------------------------------------------------------------------
(* build_cmd_02, line_update_type_1 and line_update_type_2.                *)

Scaled == PatchTimeslotTable(sensor.table, sensor.repeat_multiplier)

\* A walk over a broken table, or a write with no value for it, is an error.
Untrimmed ==
    \/ Broken(Scaled, 0)
    \/ TrimmedWrite(Scaled) # {} /\ trim = NoTrim
    \/ \E call \in LastCall(Scaled) : Broken(Scaled, Target(Scaled, call))

Tst(mode) == IF mode = "calibrate" THEN Scaled ELSE PatchTimeslotAgain(Scaled, trim)

\* A bug: it is put before the head.
KeyLineBefore(tst) == IF sensor.type1 THEN KeyLine \o tst ELSE tst

\* "The head of the table is replaced by the calibration key line."
Body(tst) ==
    IF sensor.type1 THEN KeyLine \o SubSeq(tst, sensor.line_width + 1, Len(tst)) ELSE tst

\* What is written at which instruction, as `flags` has it: one past it.
Anchors(tst) ==
    [blob  |-> FindNthInsn(tst, EnableRx, 2),
     trims |-> FindNthRegwrite(tst, Calibration, 1),
     other |-> IF sensor.type1 THEN {} ELSE FindNthRegwrite(tst, CalibrationAlt, 1)]
Anchored(anchors) ==
    /\ anchors.blob # {} /\ anchors.trims # {}
    /\ sensor.type1 \/ (anchors.other # {} /\ factory)

\* Pixels, four columns to an entry, written into the head of the table.
Columns == IF sensor.type1 /\ calib_data.length # 0 THEN {4 * k : k \in 0..27} ELSE {}

Built(mode) == (mode = "calibrate" \/ ~Untrimmed) /\ Anchored(Anchors(Tst(mode)))
Command(mode) ==
    [mode    |-> mode,
     body    |-> Body(Tst(mode)),
     anchors |-> Anchors(Tst(mode)),
     columns |-> Columns,
     from    |-> calib_data,
     lines   |-> IF mode = "calibrate"
                 THEN (sensor.calibration_frames * LinesPerFrame + 1) % 65536 ELSE 0]

-----------------------------------------------------------------------------
Init ==
    /\ sensor \in Sensors /\ trim \in Trims /\ factory \in BOOLEAN
    /\ pc = "down" /\ iteration = 0
    /\ calib_data = Empty
    /\ cache = None
    /\ sent = None

\* The machine gets another sensor, while nothing runs.
Replace ==
    /\ pc = "down"
    /\ sensor' \in Sensors \ {sensor} /\ trim' \in Trims /\ factory' \in BOOLEAN
    /\ UNCHANGED <<pc, iteration, calib_data, cache, sent>>

\* validity-baseline removes the cache.
Clear ==
    /\ pc = "down" /\ cache # None
    /\ cache' = None
    /\ UNCHANGED <<machine, pc, iteration, calib_data, sent>>

\* A bug: a file is used if it is there.
AnyFile(file) == file # None

\* Calibration::load and load_or_calibrate: the cache, or a calibration.
Usable(file) == file # None /\ file.length = CalibrationSize
Start ==
    /\ pc = "down"
    /\ iteration' = 0
    /\ IF Usable(cache)
       THEN calib_data' = cache /\ pc' = "ready"
       ELSE calib_data' = Empty /\ pc' = "calibrating"
    /\ sent' = None
    /\ UNCHANGED <<machine, cache>>

\* A run ends: stopped, failed or killed. Calibration data is in memory.
Stop ==
    /\ pc # "down"
    /\ pc' = "down" /\ iteration' = 0
    /\ calib_data' = Empty
    /\ sent' = None
    /\ UNCHANGED <<machine, cache>>

\* calibrate: one more capture, for which a refusal ends the run (Stop).
Calibrate ==
    /\ pc = "calibrating"
    /\ iteration < sensor.calibration_iterations
    /\ Built("calibrate")
    /\ sent' = Command("calibrate")
    /\ pc' = "reading"
    /\ UNCHANGED <<machine, iteration, calib_data, cache>>

\* The transfer is read, averaged and folded; one that is too short is an error.
ReadData(length, pixel) ==
    /\ pc = "reading"
    /\ length >= Needed
    /\ calib_data' = Fold(calib_data, Averaged, pixel)
    /\ iteration' = iteration + 1
    /\ pc' = "calibrating"
    /\ sent' = None
    /\ UNCHANGED <<machine, cache>>

Lengths == {k * FrameSize : k \in 0..sensor.calibration_frames} \cup {Needed - 1}

\* Calibration::save: a file cut short by a crash, or by a failure that is
\* ignored ("it only costs time next run").
Cut(length) == [calib_data EXCEPT !.length = length]
Save ==
    /\ pc = "calibrating"
    /\ iteration = sensor.calibration_iterations
    /\ \/ cache' = calib_data /\ pc' = "ready"
       \/ /\ cache' \in {cache} \cup
                        {Cut(n) : n \in {0, calib_data.length \div 2} \cap 0..(calib_data.length - 1)}
          /\ pc' \in {"ready", "down"}
    /\ iteration' = 0
    /\ calib_data' = IF pc' = "down" THEN Empty ELSE calib_data
    /\ sent' = None
    /\ UNCHANGED machine

\* A scan or a stage of an enrolment.
Capture(mode) ==
    /\ pc = "ready"
    /\ Built(mode)
    /\ sent' = Command(mode)
    /\ UNCHANGED <<machine, pc, iteration, calib_data, cache>>

Next ==
    \/ Replace \/ Clear \/ Start \/ Stop \/ Calibrate \/ Save
    \/ \E length \in Lengths, pixel \in Pixels : ReadData(length, pixel)
    \/ \E mode \in {"identify", "enroll"} : Capture(mode)

Spec == Init /\ [][Next]_vars

-----------------------------------------------------------------------------
(* Properties.                                                             *)

Data == [length : Nat, folds : Nat, pixel : Byte]

\* Every variable has its type, and a table is sent in the length it had: the
\* positions in it stay what they were (line_update_type_1, get_key_line).
TypeOK ==
    /\ sensor \in Sensors /\ trim \in Trims /\ factory \in BOOLEAN
    /\ pc \in {"down", "calibrating", "reading", "ready"}
    /\ iteration \in 0..sensor.calibration_iterations
    /\ calib_data \in Data
    /\ cache \in Data \cup {None}
    /\ sent # None =>
          /\ sent.mode \in Modes
          /\ sent.body \in Seq(Byte) /\ Len(sent.body) = Len(sensor.table)

\* The calls that sample lines, from where the sensor starts in the table.
Calls == {call \in Routine(sent.body, sensor.offset) : Op(sent.body, call) = Call}

\* With its repeat counts multiplied, the program that is sent samples as many
\* lines as the host takes a frame to have (patch_timeslot_table, average). Of
\* the wrap of a byte only 256, which is 0, is within TableAssumption; the
\* products of the two real tables are smaller.
SamplesEveryLine ==
    sent # None => LinesPerFrame = FoldSet(LAMBDA call, n : n + Repeat(sent.body, call), 0, Calls)

\* What is rewritten are operands: the same instructions begin at the same
\* places, a call still calls the beginning of one, and the only other byte
\* that differs is the calibration register's, which holds the trim of the key
\* line when a finger is captured and what it held when calibrating
\* (patch_timeslot_table, patch_timeslot_again, line_update_type_1).
ProgramKept ==
    sent # None =>
        LET starts == Starts(sent.body, sensor.offset)
            trimmed == {start \in starts : Writes(sent.body, start, Calibration)}
            value(write) == IF sent.mode = "calibrate" THEN At(sensor.table, write + 1) ELSE trim
        IN /\ starts = Starts(sensor.table, sensor.offset)
           /\ \A start \in starts :
                 /\ At(sent.body, start) = At(sensor.table, start)
                 /\ Op(sent.body, start) = Call => Target(sent.body, start) \in starts
                 /\ start \in trimmed => At(sent.body, start + 1) = value(start)
                 /\ Op(sent.body, start) # Call =>
                       \A k \in 1..(Size(sent.body, start) - 1) :
                           \/ start \in trimmed /\ k = 1
                           \/ At(sent.body, start + k) = At(sensor.table, start + k)

\* Every line that is sampled runs through what is written into the table for
\* it: a receiver being enabled for the blob, a write of its register for the
\* factory values. Pixels are written over the key line, all of it and nothing
\* else. All of it is found in the table before its head is replaced
\* (line_update_type_1, line_update_type_2).
AnchorsPointAtCode ==
    sent # None =>
        /\ \A call \in Calls :
              LET run == Routine(sent.body, Target(sent.body, call))
              IN /\ \A at \in sent.anchors.blob : at \in run /\ Op(sent.body, at) = EnableRx
                 /\ \A at \in sent.anchors.trims : at \in run /\ Writes(sent.body, at, Calibration)
                 /\ \A at \in sent.anchors.other : at \in run /\ Writes(sent.body, at, CalibrationAlt)
        /\ sent.columns # {} =>
              UNION {c..(c + 3) : c \in sent.columns} = 0..(sensor.line_width - 1)

\* A finger is captured with the result of all iterations, in the size this
\* sensor has, whatever cut a calibration or its cache short and whichever
\* sensor it was made on; an iteration is captured with the result of those
\* before it (calibrate, load, save).
CalibrationIsWhole ==
    sent # None =>
        LET folds == IF pc = "ready" THEN sensor.calibration_iterations ELSE iteration
        IN /\ sent.from.folds = folds
           /\ sent.from.length = IF folds = 0 THEN 0 ELSE CalibrationSize

=============================================================================
