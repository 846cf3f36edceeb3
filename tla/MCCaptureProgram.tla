-------------------------- MODULE MCCaptureProgram --------------------------
(* The two sensors probe supports. Their tables are those of tables.rs up  *)
(* to the last call, write of a register and Enable Rx, and the end: what  *)
(* is between is not looked at and not rewritten.                          *)
EXTENDS CaptureProgram

Zeros(n) == [k \in 1..n |-> 0]

MC199 ==
    [type1 |-> TRUE, offset |-> 112, lines_2d |-> 112, repeat_multiplier |-> 2,
     line_width |-> 112, lines_per_calibration_data |-> 112, bytes_per_line |-> 120,
     key_calibration_line |-> 56, calibration_frames |-> 3, calibration_iterations |-> 3,
     table |-> Zeros(112) \o
        <<16, 34, 23, 16, 34, 23, 16, 34, 22, 16, 34, 22, 16, 34, 22, 1,
          6, 80, 16, 37, 1, 1, 0, 0,
          7, 200, 7, 140, 6, 255, 0, 0, 0, 0, 0, 0, 79, 128, 0, 109, 3, 0, 40, 3, 4, 2>>]

MCdb ==
    [type1 |-> FALSE, offset |-> 0, lines_2d |-> 144, repeat_multiplier |-> 1,
     line_width |-> 144, lines_per_calibration_data |-> 144, bytes_per_line |-> 152,
     key_calibration_line |-> 72, calibration_frames |-> 6, calibration_iterations |-> 0,
     table |->
        <<16, 6, 29, 16, 6, 29, 16, 6, 29, 16, 6, 29, 16, 6, 28, 1,
          6, 88, 16, 8, 1, 1, 0, 0,
          7, 200, 7, 140, 6, 16, 0, 0, 32, 79, 128, 0, 127, 0, 0, 3, 4, 2>>]

MCSensors == {MC199, MCdb}
MCTrims == {130, NoTrim}
MCPixels == {5, 17, 208}
=============================================================================
