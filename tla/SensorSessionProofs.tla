------------------------- MODULE SensorSessionProofs -------------------------
(***************************************************************************)
(* The session is kept clean, and a match is of the scan it was asked for, *)
(* for any threads, any users and any number of records a finger takes.    *)
(*                                                                         *)
(* The thread that holds the session is the only one that talks to the     *)
(* sensor: what may be switched on there follows from the command it is    *)
(* about to send, and from what it was told to end and did not. A torn     *)
(* link excuses all of it, and only a new session mends one.               *)
(***************************************************************************)
EXTENDS SensorSession, TLAPS

-----------------------------------------------------------------------------
(* The inductive invariant.                                                *)

VerifySteps == {"start", "finger", "stop", "match", "identify", "release", "owner"}
WriteSteps == {"unlock", "write", "commit"}
StoreSteps == {"end", "finish", "delete"} \cup WriteSteps
EnrollSteps == {"create", "start", "finger", "stop", "update"} \cup StoreSteps

\* One thread is in with_sensor, with a session and a job.
Holding ==
    /\ holder = NoThread <=> step = "none"
    /\ holder # NoThread => slot = "open" /\ holder \notin waiting
    /\ \A t \in Threads : Running(t) => job[t] \in Jobs

\* The command that is next is one of the job's.
Placed ==
    holder # NoThread =>
        /\ job[holder].kind = "verify" => step \in VerifySteps
        /\ job[holder].kind = "enroll" => step \in EnrollSteps
        /\ job[holder].kind = "other" => step = "command"

\* A finger is stored after the last round went well, and by records to write.
Counted ==
    /\ storing => step \in StoreSteps
    /\ storing /\ step = "end" => good
    /\ step \in {"finish", "delete"} => storing
    /\ step \in WriteSteps => writes > 0

\* What may be on in a sensor that answers, but for what it was told to end:
\* each thing, where the command that ends it is still to come. A round's
\* transaction whose commit failed is open until a later commit of the same
\* enrolment; no finger is stored before.
Answerable ==
    slot = "open" /\ ~torn =>
        /\ "capture" \in on \ unheeded => step \in {"finger", "stop"}
        /\ "match" \in on \ unheeded => step \in {"identify", "release"}
        /\ "update" \in on \ unheeded => step = "end" \/ (step \in WriteSteps /\ ~storing)
        /\ "enrolment" \in on \ unheeded => /\ step # "none" /\ job[holder].kind = "enroll"
                                            /\ storing => step \in {"end", "finish"}
        /\ "transaction" \in on => /\ step # "none" /\ job[holder].kind = "enroll"
                                   /\ storing => step \in {"write", "commit"}

\* The image in the sensor is of the holder's own scan, which no capture that
\* was left on can have replaced.
Seen ==
    /\ step = "finger" => "capture" \notin unheeded
    /\ step = "stop" /\ good => "capture" \notin unheeded /\ touched = image
    /\ step \in {"match", "identify", "release", "owner"} => touched = image

IInv == TypeOK /\ Holding /\ Placed /\ Counted /\ Answerable /\ Seen

-----------------------------------------------------------------------------
(* Returning, and going on.                                                *)

\* A job may return with an error, on a torn link, or with nothing left on that
\* was not told to end.
LEMMA LeaveStep ==
    ASSUME IInv, holder # NoThread,
           NEW how \in {"ok", "err", "match", "no-match", "retry"}, Leave(how),
           UNCHANGED linkVars, lost' \in BOOLEAN, on' \subseteq Things, unheeded' \subseteq on',
           how = "err" \/ torn \/ (on' \subseteq unheeded' /\ "transaction" \notin on')
    PROVE  IInv'
<1> USE SessionAssumption DEF SessionAssumption, IInv
<1>1. holder \in Threads /\ holder \notin waiting /\ job[holder] \in Jobs
  BY DEF TypeOK, Holding, Running
<1>2. /\ waiting' \in {waiting, waiting \cup {holder}} /\ wanted' \subseteq wanted
      /\ job' \in {job, [job EXCEPT ![holder] = NoJob]}
      /\ waiting' # waiting => job' = job
  BY DEF Leave, EndThread
<1>3. TypeOK'
  <2>1. writes' \in 0..(MaxRecords + 2)
    BY DEF Leave
  <2>2. job' \in [Threads -> Jobs \cup {NoJob}]
    BY <1>2 DEF TypeOK
  <2> QED
    BY <1>1, <1>2, <2>1, <2>2 DEF TypeOK, Leave, linkVars, Steps
<1>4. Holding'
  <2>1. holder' = NoThread /\ step' = "none"
    BY DEF Leave
  <2>2. ASSUME NEW t \in Threads, Running(t)' PROVE job'[t] \in Jobs
    <3>1. t \in waiting'
      BY <2>1, <2>2 DEF Running
    <3>2. CASE t = holder
      BY <1>1, <1>2, <3>1, <3>2
    <3>3. CASE t # holder
      BY <1>2, <3>1, <3>3 DEF TypeOK, Holding, Running
    <3> QED
      BY <3>2, <3>3
  <2> QED
    BY <2>1, <2>2 DEF Holding
<1>5. Answerable'
  BY DEF Answerable, Leave, linkVars
<1> QED
  BY <1>3, <1>4, <1>5 DEF Placed, Counted, Seen, Leave, StoreSteps, WriteSteps

\* A command that is followed by another leaves the threads, the slot and the
\* link alone, and the job at one of its steps.
LEMMA GoOn ==
    ASSUME IInv, holder # NoThread,
           UNCHANGED <<process, threadVars, holder, slot, linkVars, result>>,
           step' \in Steps \ {"none"},
           good' \in BOOLEAN, storing' \in BOOLEAN, writes' \in 0..(MaxRecords + 2),
           on' \subseteq Things, unheeded' \subseteq on', image' \in Users \cup {NoOne}, touched' \in Users \cup {NoOne},
           lost' \in BOOLEAN,
           (Placed /\ Counted /\ Answerable /\ Seen)'
    PROVE  IInv'
<1>1. TypeOK'
  BY DEF IInv, TypeOK, threadVars, linkVars
<1>2. Holding'
  BY DEF IInv, Holding, Running, threadVars, linkVars
<1> QED
  BY <1>1, <1>2 DEF IInv

\* A command that ends something leaves the rest as it was, and the thing off or
\* told to end; one that starts something leaves the rest as it was too.
OnlyTouches(thing) ==
    \A x \in Things \ {thing} : (x \in on' <=> x \in on) /\ (x \in unheeded' <=> x \in unheeded)

LEMMA ToldStep ==
    ASSUME TypeOK, NEW s, NEW thing \in Things, NEW obeyed \in BOOLEAN, Told(s, thing, obeyed)
    PROVE  /\ holder # NoThread /\ step = s /\ lost' \in BOOLEAN
           /\ on' \subseteq Things /\ unheeded' \subseteq on'
           /\ OnlyTouches(thing) /\ thing \notin on' \ unheeded'
           /\ obeyed => thing \notin on' /\ ~torn
<1>1. /\ on \subseteq Things /\ unheeded \subseteq on
      /\ on' = IF obeyed THEN on \ {thing} ELSE on
      /\ unheeded' = IF obeyed THEN unheeded \ {thing} ELSE unheeded \cup ({thing} \cap on)
  BY DEF Told, TypeOK
<1>2. holder # NoThread /\ step = s /\ lost' \in BOOLEAN /\ (obeyed => ~torn)
  BY DEF Told, At, TypeOK
<1> QED
  BY <1>1, <1>2 DEF OnlyTouches

\* The same of the commands whose reply is discarded.
LEMMA EndsStep ==
    ASSUME TypeOK, NEW s, NEW thing \in Things, Ends(s, thing)
    PROVE  /\ holder # NoThread /\ step = s /\ lost' \in BOOLEAN
           /\ on' \subseteq Things /\ unheeded' \subseteq on'
           /\ OnlyTouches(thing) /\ thing \notin on' \ unheeded'
BY ToldStep DEF Ends

-----------------------------------------------------------------------------
(* A job's commands.                                                       *)

\* The five commands that switch something on.
LEMMA StartsStep ==
    ASSUME IInv, StartCapture \/ StartMatch \/ CreateEnrollment \/ UpdateStart \/ Unlock
    PROVE  IInv'
<1> USE SessionAssumption DEF SessionAssumption
<1>1. /\ holder # NoThread /\ job[holder] \in Jobs
      /\ UNCHANGED <<process, threadVars, holder, slot, linkVars, image, result, good, storing, touched, lost>>
  BY DEF IInv, TypeOK, Holding, Running, StartCapture, StartMatch, CreateEnrollment, UpdateStart, Unlock,
         Starts, At, stepRest, localVars
<1>2. CASE StartCapture
  BY <1>1, <1>2, GoOn
     DEF IInv, TypeOK, Placed, Counted, Answerable, Seen, StartCapture, Starts, At, Steps, Things,
         localVars, threadVars, linkVars, VerifySteps, EnrollSteps, StoreSteps, WriteSteps
<1>3. CASE StartMatch
  BY <1>1, <1>3, GoOn
     DEF IInv, TypeOK, Placed, Counted, Answerable, Seen, StartMatch, Starts, At, Steps, Things,
         localVars, threadVars, linkVars, VerifySteps, EnrollSteps, StoreSteps, WriteSteps
<1>4. CASE CreateEnrollment
  BY <1>1, <1>4, GoOn
     DEF IInv, TypeOK, Placed, Counted, Answerable, Seen, CreateEnrollment, Starts, At, Steps, Things,
         Jobs, localVars, threadVars, linkVars, VerifySteps, EnrollSteps, StoreSteps, WriteSteps
<1>5. CASE UpdateStart
  BY <1>1, <1>5, GoOn
     DEF IInv, TypeOK, Placed, Counted, Answerable, Seen, UpdateStart, At, Steps, Things,
         threadVars, linkVars, VerifySteps, EnrollSteps, StoreSteps, WriteSteps
<1>6. CASE Unlock
  BY <1>1, <1>6, GoOn
     DEF IInv, TypeOK, Placed, Counted, Answerable, Seen, Unlock, Starts, At, Steps, Things,
         Jobs, localVars, threadVars, linkVars, VerifySteps, EnrollSteps, StoreSteps, WriteSteps
<1> QED
  BY <1>2, <1>3, <1>4, <1>5, <1>6

\* A capture is ended whatever became of it, and what follows has a scan.
LEMMA CaptureStep ==
    ASSUME IInv, CaptureFails \/ Captured \/ \E who \in Users \cup {NoOne} : Finger(who)
    PROVE  IInv'
<1>1. holder # NoThread /\ job[holder] \in Jobs /\ torn \in BOOLEAN
  BY DEF IInv, TypeOK, Holding, Running, CaptureFails, Captured, StopCapture, Ends, Told, Fails,
         Finger, At
<1>2. CASE CaptureFails
  BY <1>1, <1>2, GoOn
     DEF IInv, TypeOK, Placed, Counted, Answerable, Seen, CaptureFails, Fails, At, stepRest, Steps,
         threadVars, linkVars, VerifySteps, EnrollSteps, StoreSteps, WriteSteps
<1>3. CASE \E who \in Users \cup {NoOne} : Finger(who)
  BY <1>1, <1>3, GoOn
     DEF IInv, TypeOK, Placed, Counted, Answerable, Seen, Finger, At, Steps,
         localVars, threadVars, linkVars, VerifySteps, EnrollSteps, StoreSteps, WriteSteps
<1>4. CASE Captured
  <2>1. /\ step = "stop" /\ lost' \in BOOLEAN
        /\ on' \subseteq Things /\ unheeded' \subseteq on'
        /\ OnlyTouches("capture") /\ "capture" \notin on' \ unheeded'
    BY <1>4, EndsStep DEF Captured, StopCapture, Things, IInv
  <2>2. CASE Matches /\ step' = "match" /\ UNCHANGED <<stepRest, localVars, touched>>
    BY <1>1, <2>1, <2>2, GoOn
       DEF IInv, TypeOK, Placed, Counted, Answerable, Seen, Matches, Verifying, OnlyTouches, Things, stepRest, Steps,
           localVars, threadVars, linkVars, VerifySteps, EnrollSteps, StoreSteps, WriteSteps
  <2>3. CASE Verifying /\ Leave("retry") /\ UNCHANGED linkVars
    <3>1. torn \/ (on' \subseteq unheeded' /\ "transaction" \notin on')
      BY <1>1, <2>1, <2>3
         DEF IInv, TypeOK, Holding, Answerable, Verifying, Things, WriteSteps, OnlyTouches
    <3> QED
      BY <1>1, <2>1, <2>3, <3>1, LeaveStep
  <2>4. CASE /\ ~Verifying /\ step' = IF good THEN "update" ELSE "end"
             /\ UNCHANGED <<stepRest, localVars, touched>>
    BY <1>1, <2>1, <2>4, GoOn
       DEF IInv, TypeOK, Placed, Counted, Answerable, Seen, Verifying, Jobs, OnlyTouches, Things, stepRest, Steps,
           localVars, threadVars, linkVars, VerifySteps, EnrollSteps, StoreSteps, WriteSteps
  <2> QED
    BY <1>4, <2>2, <2>3, <2>4 DEF Captured
<1> QED
  BY <1>2, <1>3, <1>4

\* The match context is released before anything is answered.
LEMMA MatchStep ==
    ASSUME IInv,
           \/ MatchFails \/ ReleaseMatch \/ Owner \/ OwnerFails
           \/ \E known \in BOOLEAN : known = (image # NoOne) /\ Identify(known)
    PROVE  IInv'
<1>1. holder # NoThread /\ job[holder] \in Jobs /\ torn \in BOOLEAN
  BY DEF IInv, TypeOK, Holding, Running, MatchFails, ReleaseMatch, Owner, OwnerFails, Identify, Ends,
         Told, Fails, At
<1>2. CASE MatchFails \/ \E known \in BOOLEAN : known = (image # NoOne) /\ Identify(known)
  <2>1. /\ step \in {"match", "identify"} /\ step' = "release"
        /\ good' \in BOOLEAN /\ lost' \in BOOLEAN
        /\ UNCHANGED <<stepRest, storing, writes, on, unheeded, touched>>
    BY <1>1, <1>2 DEF MatchFails, Identify, Fails, At, IInv, TypeOK
  <2> QED
    BY <1>1, <2>1, GoOn
       DEF IInv, TypeOK, Placed, Counted, Answerable, Seen, stepRest,
           Steps, threadVars, linkVars, VerifySteps, EnrollSteps, StoreSteps, WriteSteps
<1>3. CASE ReleaseMatch
  <2>1. /\ step = "release" /\ lost' \in BOOLEAN
        /\ on' \subseteq Things /\ unheeded' \subseteq on'
        /\ OnlyTouches("match") /\ "match" \notin on' \ unheeded'
    BY <1>3, EndsStep DEF ReleaseMatch, Things, IInv
  <2>2. job[holder].kind = "verify"
    BY <1>1, <2>1 DEF IInv, Placed, Jobs, EnrollSteps, StoreSteps, WriteSteps
  <2>3. torn \/ (on' \subseteq unheeded' /\ "transaction" \notin on')
    BY <1>1, <2>1, <2>2 DEF IInv, TypeOK, Holding, Answerable, Things, WriteSteps, OnlyTouches
  <2>4. CASE good /\ step' = "owner" /\ UNCHANGED <<stepRest, localVars, touched>>
    BY <1>1, <2>1, <2>2, <2>3, <2>4, GoOn
       DEF IInv, TypeOK, Placed, Counted, Answerable, Seen, stepRest, Steps,
           localVars, threadVars, linkVars, VerifySteps, EnrollSteps, StoreSteps, WriteSteps
  <2>5. CASE Leave("no-match") /\ UNCHANGED linkVars
    BY <1>1, <2>1, <2>3, <2>5, LeaveStep
  <2> QED
    BY <1>3, <2>4, <2>5 DEF ReleaseMatch
<1>4. CASE Owner \/ OwnerFails
  <2>1. step = "owner" /\ UNCHANGED <<on, unheeded, linkVars>> /\ lost' \in BOOLEAN
    BY <1>1, <1>4 DEF Owner, OwnerFails, Fails, At, IInv, TypeOK
  <2>2. job[holder].kind = "verify"
    BY <1>1, <2>1 DEF IInv, Placed, Jobs, EnrollSteps, StoreSteps, WriteSteps
  <2>3. /\ torn \/ (on' \subseteq unheeded' /\ "transaction" \notin on')
        /\ on' \subseteq Things /\ unheeded' \subseteq on'
    BY <1>1, <2>1, <2>2 DEF IInv, TypeOK, Holding, Answerable, Things, WriteSteps
  <2>4. Leave("match") \/ Leave("no-match")
    BY <1>4 DEF Owner, OwnerFails
  <2> QED
    BY <1>1, <2>1, <2>3, <2>4, LeaveStep
<1> QED
  BY <1>2, <1>3, <1>4

\* A round of an enrolment: the writes that feed the template back, and the end
\* that follows every round.
LEMMA RoundStep ==
    ASSUME IInv,
           \/ RoundFails \/ EndRound \/ FinishScans
           \/ \E accepted \in BOOLEAN : Write(accepted)
           \/ \E enough, obeyed \in BOOLEAN : CommitRound(enough, obeyed)
    PROVE  IInv'
<1>1. holder # NoThread /\ job[holder] \in Jobs /\ torn \in BOOLEAN
  BY DEF IInv, TypeOK, Holding, Running, RoundFails, EndRound, FinishScans, Write, CommitRound, Commit,
         Ends, Told, Fails, At
<1>2. CASE RoundFails \/ \E accepted \in BOOLEAN : Write(accepted)
  <2>1. /\ \/ step \in {"update", "unlock"} /\ ~storing /\ step' = "end"
           \/ step = "write" /\ step' = "commit"
        /\ good' \in BOOLEAN /\ lost' \in BOOLEAN
        /\ UNCHANGED <<stepRest, storing, writes, on, unheeded, touched>>
    BY <1>1, <1>2 DEF RoundFails, Write, Fails, At, IInv, TypeOK, Counted, StoreSteps, WriteSteps
  <2> QED
    BY <1>1, <2>1, GoOn
       DEF IInv, TypeOK, Placed, Counted, Answerable, Seen, stepRest,
           Steps, threadVars, linkVars, VerifySteps, EnrollSteps, StoreSteps, WriteSteps
<1>3. ASSUME NEW enough \in BOOLEAN, NEW obeyed \in BOOLEAN, CommitRound(enough, obeyed)
      PROVE  IInv'
  <2>0. Told("commit", "transaction", obeyed)
    BY <1>3 DEF CommitRound, Commit
  <2>1. /\ step = "commit" /\ lost' \in BOOLEAN
        /\ on' \subseteq Things /\ unheeded' \subseteq on'
        /\ OnlyTouches("transaction") /\ (obeyed => "transaction" \notin on' /\ ~torn)
        /\ storing = FALSE
        /\ UNCHANGED <<stepRest, touched>>
        /\ writes' = writes - 1
        /\ good' = (good /\ obeyed)
        /\ storing' = (good' /\ ~MoreWrites /\ enough)
        /\ step' = IF good' /\ MoreWrites THEN "unlock" ELSE "end"
    BY <1>3, <2>0, ToldStep DEF CommitRound, Things, IInv, TypeOK
  <2>2. /\ job[holder].kind = "enroll"
        /\ good' \in BOOLEAN /\ storing' \in BOOLEAN
        /\ storing' => good' /\ ~MoreWrites /\ "transaction" \notin on'
    BY <1>1, <2>1 DEF IInv, TypeOK, Placed, Jobs, VerifySteps
  <2>3. writes' \in 0..(MaxRecords + 2) /\ (MoreWrites => writes' > 0)
    BY <2>1, SessionAssumption
       DEF SessionAssumption, IInv, TypeOK, Counted, WriteSteps, MoreWrites
  <2>4. CASE good' /\ MoreWrites
    BY <1>1, <2>1, <2>2, <2>3, <2>4, GoOn
       DEF IInv, TypeOK, Placed, Counted, Answerable, Seen, OnlyTouches, Things, stepRest, Steps,
           threadVars, linkVars, VerifySteps, EnrollSteps, StoreSteps, WriteSteps
  <2>5. CASE ~(good' /\ MoreWrites)
    BY <1>1, <2>1, <2>2, <2>3, <2>5, GoOn
       DEF IInv, TypeOK, Placed, Counted, Answerable, Seen, OnlyTouches, Things, stepRest, Steps,
           threadVars, linkVars, VerifySteps, EnrollSteps, StoreSteps, WriteSteps
  <2> QED
    BY <2>4, <2>5
<1>4. CASE EndRound
  <2>1. /\ step = "end" /\ lost' \in BOOLEAN
        /\ on' \subseteq Things /\ unheeded' \subseteq on'
        /\ OnlyTouches("update") /\ "update" \notin on' \ unheeded'
    BY <1>4, EndsStep DEF EndRound, Things, IInv
  <2>2. CASE /\ step' = IF storing THEN "finish" ELSE "start"
             /\ good' = TRUE
             /\ UNCHANGED <<stepRest, storing, writes, touched>>
    BY <1>1, <2>1, <2>2, GoOn
       DEF IInv, TypeOK, Placed, Counted, Answerable, Seen, OnlyTouches, Things, stepRest, Steps,
           threadVars, linkVars, VerifySteps, EnrollSteps, StoreSteps, WriteSteps
  <2>3. CASE Leave("err") /\ UNCHANGED linkVars
    BY <1>1, <2>1, <2>3, LeaveStep
  <2> QED
    BY <1>4, <2>2, <2>3 DEF EndRound
<1>5. CASE FinishScans
  <2>1. /\ step = "finish" /\ lost' \in BOOLEAN
        /\ on' \subseteq Things /\ unheeded' \subseteq on'
        /\ OnlyTouches("enrolment") /\ "enrolment" \notin on' \ unheeded'
    BY <1>5, EndsStep DEF FinishScans, Things, IInv
  <2> QED
    BY <1>1, <1>5, <2>1, GoOn
       DEF IInv, TypeOK, Placed, Counted, Answerable, Seen, FinishScans, OnlyTouches, Things, stepRest,
           Steps, localVars, threadVars, linkVars, VerifySteps, EnrollSteps, StoreSteps, WriteSteps
<1> QED
  BY <1>2, <1>3, <1>4, <1>5

\* The records of a finger, and the jobs that are a single command.
LEMMA StoreStep ==
    ASSUME IInv,
           \/ JobFails \/ Done
           \/ \E obeyed \in BOOLEAN : CommitRecord(obeyed)
           \/ \E records \in 1..MaxRecords : DeleteOld(records)
    PROVE  IInv'
<1> USE SessionAssumption DEF SessionAssumption
<1>1. holder # NoThread /\ job[holder] \in Jobs /\ torn \in BOOLEAN
  BY DEF IInv, TypeOK, Holding, Running, JobFails, Done, CommitRecord, Commit, DeleteOld, Told, Fails, At
<1>2. CASE JobFails
  <2>1. /\ on' \subseteq Things /\ unheeded' \subseteq on' /\ lost' \in BOOLEAN
        /\ Leave("err") /\ UNCHANGED linkVars
    BY <1>1, <1>2 DEF JobFails, Fails, IInv, TypeOK
  <2> QED
    BY <1>1, <2>1, LeaveStep
<1>3. CASE Done
  <2>1. /\ UNCHANGED <<on, unheeded>> /\ on' \subseteq Things /\ unheeded' \subseteq on'
        /\ lost' \in BOOLEAN /\ step = "command" /\ Leave("ok") /\ UNCHANGED linkVars
    BY <1>1, <1>3 DEF Done, At, IInv, TypeOK
  <2>2. job[holder].kind = "other"
    BY <1>1, <2>1 DEF IInv, Placed, Jobs, VerifySteps, EnrollSteps, StoreSteps, WriteSteps
  <2>3. torn \/ (on' \subseteq unheeded' /\ "transaction" \notin on')
    BY <1>1, <2>1, <2>2 DEF IInv, TypeOK, Holding, Answerable, Things, WriteSteps
  <2> QED
    BY <1>1, <2>1, <2>3, LeaveStep
<1>4. ASSUME NEW obeyed \in BOOLEAN, CommitRecord(obeyed) PROVE IInv'
  <2>0. Told("commit", "transaction", obeyed)
    BY <1>4 DEF CommitRecord, Commit
  <2>1. /\ step = "commit" /\ storing /\ lost' \in BOOLEAN
        /\ on' \subseteq Things /\ unheeded' \subseteq on'
        /\ OnlyTouches("transaction") /\ (obeyed => "transaction" \notin on' /\ ~torn)
    BY <1>4, <2>0, ToldStep DEF CommitRecord, Things, IInv
  <2>2. CASE /\ obeyed /\ MoreWrites /\ writes' = writes - 1 /\ step' = "unlock"
             /\ UNCHANGED <<stepRest, good, storing, touched>>
    BY <1>1, <2>1, <2>2, GoOn
       DEF IInv, TypeOK, Placed, Counted, Answerable, Seen, MoreWrites, OnlyTouches, Things, stepRest,
           Steps, threadVars, linkVars, VerifySteps, EnrollSteps, StoreSteps, WriteSteps
  <2>3. CASE obeyed /\ Leave("ok") /\ UNCHANGED linkVars
    <3>1. torn \/ (on' \subseteq unheeded' /\ "transaction" \notin on')
      BY <1>1, <2>1, <2>3 DEF IInv, TypeOK, Holding, Answerable, Things, WriteSteps, OnlyTouches
    <3> QED
      BY <1>1, <2>1, <2>3, <3>1, LeaveStep
  <2>4. CASE Leave("err") /\ UNCHANGED linkVars
    BY <1>1, <2>1, <2>4, LeaveStep
  <2> QED
    BY <1>4, <2>2, <2>3, <2>4 DEF CommitRecord
<1>5. CASE \E records \in 1..MaxRecords : DeleteOld(records)
  BY <1>1, <1>5, GoOn
     DEF IInv, TypeOK, Placed, Counted, Answerable, Seen, DeleteOld, At, stepRest, Steps,
         threadVars, linkVars, VerifySteps, EnrollSteps, StoreSteps, WriteSteps
<1> QED
  BY <1>2, <1>3, <1>4, <1>5

-----------------------------------------------------------------------------
(* Around the session.                                                     *)

\* Calls and stops change what threads want, not what the holder is at.
LEMMA CallStep ==
    ASSUME IInv, NEW t \in Threads, (\E j \in Jobs : StartJob(t, j)) \/ StopJob(t)
    PROVE  IInv'
<1> USE SessionAssumption DEF SessionAssumption
<1>1. /\ UNCHANGED <<process, holder, slot, step, localVars, linkVars, sensorVars, seenVars>>
      /\ holder # NoThread => job'[holder] = job[holder]
  BY DEF StartJob, StopJob, Running, IInv, TypeOK
<1>2. TypeOK'
  BY <1>1 DEF IInv, TypeOK, StartJob, StopJob, localVars, linkVars, sensorVars, seenVars
<1>3. Holding'
  BY <1>1 DEF IInv, TypeOK, Holding, Running, StartJob, StopJob
<1>4. (Placed /\ Counted /\ Answerable /\ Seen)'
  BY <1>1
     DEF IInv, Holding, Placed, Counted, Answerable, Seen, localVars, linkVars, sensorVars, seenVars
<1> QED
  BY <1>2, <1>3, <1>4 DEF IInv

\* A session that was kept is clean, and one that is opened has been reset.
LEMMA TakeStep ==
    ASSUME IInv, NEW t \in Threads, TakeSession(t) \/ OpenFails(t)
    PROVE  IInv'
<1> USE SessionAssumption DEF SessionAssumption
<1>1. t \in waiting /\ holder = NoThread /\ job[t] \in Jobs /\ step = "none" /\ t # NoThread
  BY DEF TakeSession, OpenFails, IInv, Holding, Running
<1>2. CASE TakeSession(t)
  <2>1. /\ holder' = t /\ waiting' = waiting \ {t} /\ slot' = "open" /\ UNCHANGED job
        /\ step' = FirstStep(job[t].kind) /\ good' = TRUE /\ storing' = FALSE /\ writes' = 0
    BY <1>2 DEF TakeSession
  <2>2. /\ step' \in {"start", "create", "command"}
        /\ job[t].kind = "verify" => step' = "start"
        /\ job[t].kind = "enroll" => step' = "create"
        /\ job[t].kind = "other" => step' = "command"
    BY <1>1, <2>1 DEF FirstStep, Jobs
  <2>3. torn' \/ (on' \subseteq unheeded' /\ "transaction" \notin on')
    <3>1. CASE slot = "open" /\ UNCHANGED <<torn, on, unheeded>>
      BY <1>1, <3>1 DEF IInv, TypeOK, Answerable, Things, WriteSteps
    <3>2. CASE on' = {}
      BY <3>2
    <3> QED
      BY <1>2, <3>1, <3>2 DEF TakeSession, Cleared, IInv, TypeOK
  <2>4. TypeOK'
    <3>1. context' \in BOOLEAN /\ torn' \in BOOLEAN /\ on' \subseteq Things /\ unheeded' \subseteq on'
      BY <1>2 DEF TakeSession, Cleared, IInv, TypeOK
    <3>2. writes' \in 0..(MaxRecords + 2) /\ step' \in Steps
      BY <2>1, <2>2 DEF Steps
    <3> QED
      BY <1>2, <2>1, <3>1, <3>2 DEF TakeSession, IInv, TypeOK
  <2>5. Holding'
    BY <1>1, <2>1, <2>2 DEF IInv, Holding, Running
  <2>6. (Placed /\ Counted /\ Answerable /\ Seen)'
    BY <2>1, <2>2, <2>3
       DEF Placed, Counted, Answerable, Seen, VerifySteps, EnrollSteps, StoreSteps, WriteSteps
  <2> QED
    BY <2>4, <2>5, <2>6 DEF IInv
<1>3. CASE OpenFails(t)
  <2>1. TypeOK'
    BY <1>3 DEF OpenFails, EndThread, Cleared, IInv, TypeOK, localVars
  <2>2. Holding'
    BY <1>1, <1>3 DEF OpenFails, EndThread, IInv, TypeOK, Holding, Running
  <2>3. (Placed /\ Counted /\ Answerable /\ Seen)'
    BY <1>1, <1>3
       DEF OpenFails, IInv, Placed, Counted, Answerable, Seen, localVars, StoreSteps, WriteSteps
  <2> QED
    BY <2>1, <2>2, <2>3 DEF IInv
<1> QED
  BY <1>2, <1>3

\* The link is torn, or the daemon ends.
LEMMA EndStep == ASSUME IInv, Tear \/ Terminate \/ Shutdown \/ Exit PROVE IInv'
<1>1. /\ UNCHANGED <<threadVars, holder, step, localVars, image, seenVars>>
      /\ on' \subseteq Things /\ unheeded' \subseteq on' /\ unheeded' \subseteq unheeded
  BY DEF Tear, Terminate, Shutdown, Exit, Cleared, sensorVars, IInv, TypeOK
<1>2. TypeOK'
  <2>1. /\ process' \in {"up", "stopping", "rebooted", "gone"} /\ slot' \in {"none", "open"}
        /\ torn' \in BOOLEAN /\ context' \in BOOLEAN
    BY DEF IInv, TypeOK, Tear, Terminate, Shutdown, Exit, linkVars
  <2> QED
    BY <1>1, <2>1 DEF IInv, TypeOK, threadVars, localVars, seenVars
<1>3. Holding'
  BY <1>1 DEF IInv, Holding, Running, Tear, Terminate, Shutdown, Exit, threadVars
<1>4. Answerable'
  BY <1>1
     DEF IInv, Answerable, Tear, Terminate, Shutdown, Exit, Cleared, threadVars, localVars, linkVars,
         sensorVars
<1>5. (Placed /\ Counted /\ Seen)'
  BY <1>1 DEF IInv, Placed, Counted, Seen, threadVars, localVars, seenVars
<1> QED
  BY <1>2, <1>3, <1>4, <1>5 DEF IInv

\* A capture that was left on scans somebody, but not between a scan and its match.
LEMMA StrayStep == ASSUME IInv, NEW who \in Users \cup {NoOne}, Stray(who) PROVE IInv'
<1>1. UNCHANGED <<process, threadVars, holder, slot, step, localVars, linkVars, on, unheeded, seenVars>>
  BY DEF Stray
<1>2. TypeOK'
  BY <1>1 DEF IInv, TypeOK, Stray, threadVars, localVars, linkVars, seenVars
<1>3. (Holding /\ Placed /\ Counted /\ Answerable)'
  BY <1>1
     DEF IInv, Holding, Running, Placed, Counted, Answerable, threadVars, localVars, linkVars
<1>4. Seen'
  BY <1>1 DEF IInv, Seen, Stray, localVars, seenVars
<1> QED
  BY <1>2, <1>3, <1>4 DEF IInv

-----------------------------------------------------------------------------
(* What follows from it.                                                   *)

\* The inductive invariant holds of every state that jobs, stops, torn links
\* and the end of the daemon lead to.
THEOREM SessionInductive == Spec => []IInv
<1>1. Init => IInv
  <2> SUFFICES ASSUME Init PROVE IInv
    OBVIOUS
  <2>1. TypeOK
    <3>1. job \in [Threads -> Jobs \cup {NoJob}] /\ writes \in 0..(MaxRecords + 2)
      BY SessionAssumption DEF SessionAssumption, Init
    <3> QED
      BY <3>1 DEF Init, TypeOK, Steps
  <2>2. Holding
    BY SessionAssumption DEF SessionAssumption, Init, Holding, Running
  <2>3. Placed /\ Counted /\ Answerable /\ Seen
    BY DEF Init, Placed, Counted, Answerable, Seen, StoreSteps, WriteSteps
  <2> QED
    BY <2>1, <2>2, <2>3 DEF IInv
<1>2. IInv /\ [Next]_vars => IInv'
  <2> SUFFICES ASSUME IInv, [Next]_vars PROVE IInv'
    OBVIOUS
  <2>1. CASE Command
    BY <2>1, StartsStep, CaptureStep, MatchStep, RoundStep, StoreStep DEF Command
  <2>2. CASE \E t \in Threads : (\E j \in Jobs : StartJob(t, j)) \/ StopJob(t)
    BY <2>2, CallStep
  <2>3. CASE \E t \in Threads : TakeSession(t) \/ OpenFails(t)
    BY <2>3, TakeStep
  <2>4. CASE Tear \/ Terminate \/ Shutdown \/ Exit
    BY <2>4, EndStep
  <2>5. CASE \E who \in Users \cup {NoOne} : Stray(who)
    BY <2>5, StrayStep
  <2>6. CASE UNCHANGED vars
    BY <2>6
       DEF vars, threadVars, localVars, linkVars, sensorVars, seenVars, IInv, TypeOK, Holding, Running, Placed,
           Counted, Answerable, Seen
  <2> QED
    BY <2>1, <2>2, <2>3, <2>4, <2>5, <2>6 DEF Next
<1> QED
  BY <1>1, <1>2, PTL DEF Spec

\* Every variable keeps to its values; writes counts down to no less than zero.
THEOREM SessionTyped == Spec => []TypeOK
BY SessionInductive, PTL DEF IInv

\* In the session with_sensor keeps for the next job, after every job of
\* device.rs, nothing is on that was not told to end, on every path.
THEOREM SessionStaysClean == Spec => []SessionIsClean
<1>1. IInv => SessionIsClean
  BY DEF IInv, TypeOK, Holding, Answerable, SessionIsClean, Things, WriteSteps
<1> QED
  BY <1>1, SessionInductive, PTL

\* verify() answers a match only after capture() has had a finger scanned in
\* the same job: the image the matcher read is no other job's.
THEOREM MatchScannedHere == Spec => MatchIsOfThisScan
<1>1. IInv /\ [Next]_vars =>
        [holder # NoThread /\ holder' = NoThread /\ result' = "match" =>
           touched = job[holder].user]_vars
  <2> SUFFICES ASSUME IInv, [Next]_vars, holder # NoThread, holder' = NoThread, result' = "match"
               PROVE  touched = job[holder].user
    OBVIOUS
  <2>1. CASE Owner
    BY <2>1 DEF Owner, At, Leave, IsOwner, IInv, Seen
  <2>2. CASE Command /\ ~Owner
    BY <2>2
       DEF Command, StartCapture, CaptureFails, Captured, Finger, StartMatch, MatchFails, ReleaseMatch,
           OwnerFails, Identify, CreateEnrollment, UpdateStart, RoundFails, Unlock, Write, CommitRound,
           CommitRecord, EndRound, FinishScans, DeleteOld, JobFails, Done, Starts, Leave, stepRest
  <2>3. CASE \E t \in Threads : (\E j \in Jobs : StartJob(t, j)) \/ StopJob(t)
    BY <2>3 DEF StartJob, StopJob
  <2>4. CASE \E t \in Threads : TakeSession(t) \/ OpenFails(t)
    BY <2>4 DEF TakeSession, OpenFails
  <2>5. CASE \/ Tear \/ Terminate \/ Shutdown \/ Exit \/ UNCHANGED vars
             \/ \E who \in Users \cup {NoOne} : Stray(who)
    BY <2>5 DEF Tear, Stray, Terminate, Shutdown, Exit, vars
  <2> QED
    BY <2>1, <2>2, <2>3, <2>4, <2>5 DEF Next
<1> QED
  BY <1>1, SessionInductive, PTL DEF Spec, MatchIsOfThisScan

=============================================================================
