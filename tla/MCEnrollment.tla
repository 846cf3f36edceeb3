---------------------------- MODULE MCEnrollment ----------------------------
(* Two users with two fingers each, and one record id to spare.            *)
EXTENDS Enrollment
=============================================================================
