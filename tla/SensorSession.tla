---------------------------- MODULE SensorSession ----------------------------
(***************************************************************************)
(* The sensor session that the daemon holds open across D-Bus calls: the   *)
(* slot behind its std mutex, the blocking threads that run a job on it,   *)
(* what a job leaves switched on in the sensor, a link that is torn under  *)
(* it, and the end of the daemon.                                          *)
(*                                                                         *)
(* Only the holder of the mutex talks to the sensor, so the place it is at *)
(* in its job and the locals of the job are one variable each. A command   *)
(* is a step: it is obeyed, or refused by a sensor that answers, or lost   *)
(* on a torn link, where a reply that is late, or that does not decrypt,   *)
(* counts as torn too. The order and number of the commands are the        *)
(* code's; what the sensor does with them is external. The replies of 0x04,*)
(* 0x62 and 0x69 0, which end something, are not looked at; that of 0x1a is.*)
(*                                                                         *)
(* A stop that falls in a 100 ms poll is taken to fall right after it.     *)
(***************************************************************************)
EXTENDS Naturals, FiniteSets

CONSTANTS
    Threads,     \* threads of tokio's blocking pool
    Users,       \* login names, and whose fingers touch the sensor
    NoThread,    \* the mutex is free
    NoOne,       \* no finger, no scan
    MaxRecords   \* records that storing a finger may write: storage, user, finger

ASSUME SessionAssumption ==
    /\ NoThread \notin Threads
    /\ NoOne \notin Users
    /\ MaxRecords \in Nat \ {0}

\* What a job switches on in the sensor and has to switch off again.
Things == {"capture", "match", "enrolment", "update", "transaction"}

\* Whose finger a verification waits for; of the other jobs it makes no difference.
Jobs == [kind : {"verify"}, user : Users] \cup [kind : {"enroll", "other"}, user : {NoOne}]
NoJob == [kind |-> "none", user |-> NoOne]
Steps == {"none", "start", "finger", "stop", "match", "identify", "release", "owner",
          "create", "update", "unlock", "write", "commit", "end", "finish", "delete",
          "command"}

VARIABLES
    process,     \* the daemon: up, stopping, rebooted (main returned), gone
    waiting,     \* threads at slot.lock()
    wanted,      \* threads whose operation was not stopped
    job,         \* what each thread is for
    holder,      \* the thread in with_sensor
    slot,        \* Option<Sensor>
    step,        \* the command the holder is about to send
    good,        \* whether the scan or the round has gone well so far
    storing,     \* whether the sensor has enough scans for a template
    writes,      \* writes still to make, in a round or while storing
    torn,        \* the link under the slot's session no longer answers
    context,     \* the sensor holds a session context
    on,          \* what is switched on in the sensor
    unheeded,    \* of that, what it was told to end since, and did not
    image,       \* whose finger the sensor scanned last
    touched,     \* whose finger the holder has had scanned
    lost,        \* whether a command of the holder went unanswered
    result       \* how the last job returned

threadVars == <<waiting, wanted, job>>
localVars == <<good, storing, writes>>
linkVars == <<torn, context>>
sensorVars == <<on, unheeded, image>>
seenVars == <<touched, lost, result>>
vars == <<process, threadVars, holder, slot, step, localVars, linkVars, sensorVars, seenVars>>

TypeOK ==
    /\ process \in {"up", "stopping", "rebooted", "gone"}
    /\ waiting \subseteq Threads /\ wanted \subseteq Threads
    /\ job \in [Threads -> Jobs \cup {NoJob}]
    /\ holder \in Threads \cup {NoThread}
    /\ slot \in {"none", "open"}
    /\ step \in Steps
    /\ good \in BOOLEAN /\ storing \in BOOLEAN
    /\ writes \in 0..(MaxRecords + 2)
    /\ torn \in BOOLEAN /\ context \in BOOLEAN
    /\ on \subseteq Things /\ unheeded \subseteq on
    /\ image \in Users \cup {NoOne} /\ touched \in Users \cup {NoOne}
    /\ lost \in BOOLEAN
    /\ result \in {"none", "ok", "err", "match", "no-match", "retry"}

Init ==
    /\ process = "up"
    /\ waiting = {} /\ wanted = {}
    /\ job = [t \in Threads |-> NoJob]
    /\ holder = NoThread /\ slot = "none" /\ step = "none"
    /\ good = FALSE /\ storing = FALSE /\ writes = 0
    /\ torn = FALSE
    /\ context = FALSE
    /\ on = {} /\ unheeded = {} /\ image = NoOne
    /\ touched = NoOne /\ lost = FALSE /\ result = "none"

-----------------------------------------------------------------------------
(* Around the session: calls, stops, the link, with_sensor.                *)

Running(t) == t \in waiting \/ holder = t
Serving == process \in {"up", "stopping"}    \* the bus connection is there

\* A D-Bus call starts a job on a thread of the pool.
StartJob(t, j) ==
    /\ Serving
    /\ ~Running(t)
    /\ job' = [job EXCEPT ![t] = j]
    /\ waiting' = waiting \cup {t}
    /\ wanted' = wanted \cup {t}
    /\ UNCHANGED <<process, holder, slot, step, localVars, linkVars, sensorVars, seenVars>>

\* capture::stop() or begin() by a later call; a list or delete has no number.
StopJob(t) ==
    /\ Serving
    /\ Running(t) /\ t \in wanted /\ job[t].kind # "other"
    /\ wanted' = wanted \ {t}
    /\ UNCHANGED <<process, waiting, job, holder, slot, step, localVars, linkVars, sensorVars,
                   seenVars>>

\* What a reset, a reboot or a loss of power does to what is switched on.
Cleared == on' = {} /\ unheeded' = {}

\* A replug, a suspend, a lost reply: the session no longer answers, and the
\* sensor may have forgotten all of it.
Tear ==
    /\ slot = "open" /\ ~torn
    /\ torn' = TRUE
    /\ \/ UNCHANGED <<context, on, unheeded>>
       \/ context' = FALSE /\ Cleared
    /\ UNCHANGED <<process, threadVars, holder, slot, step, localVars, image, seenVars>>

FirstStep(kind) ==
    CASE kind = "verify" -> "start" [] kind = "enroll" -> "create" [] OTHER -> "command"

\* with_sensor gets the mutex and has a session, opening one if there is none:
\* the USB reset clears what an earlier user left in the sensor. A reset that
\* fails is not noticed, but then a session that was left open keeps "even
\* plain commands" from working, and the new one does not open.
TakeSession(t) ==
    /\ t \in waiting
    /\ holder = NoThread
    /\ waiting' = waiting \ {t}
    /\ holder' = t
    /\ step' = FirstStep(job[t].kind)
    /\ slot' = "open"
    /\ IF slot = "open" THEN UNCHANGED <<torn, context, on, unheeded>>
       ELSE torn' = FALSE /\ context' = TRUE /\ Cleared
    /\ good' = TRUE /\ storing' = FALSE /\ writes' = 0
    /\ touched' = NoOne /\ lost' = FALSE /\ result' = "none"
    /\ UNCHANGED <<process, wanted, job, image>>

\* The thread returns from its closure to the pool.
EndThread(t) ==
    /\ job' = [job EXCEPT ![t] = NoJob]
    /\ wanted' = wanted \ {t}

\* Sensor::open fails, before or after it has reset the sensor.
OpenFails(t) ==
    /\ t \in waiting
    /\ holder = NoThread
    /\ slot = "none"
    /\ waiting' = waiting \ {t}
    /\ EndThread(t)
    /\ result' = "err"
    /\ \/ UNCHANGED <<context, on, unheeded>>
       \/ context' \in BOOLEAN /\ Cleared
    /\ UNCHANGED <<process, holder, slot, step, localVars, torn, image, touched, lost>>

\* The job returns: an Err drops the session, and a verification that read no
\* finger goes round its loop while it is wanted.
Leave(how) ==
    /\ holder' = NoThread
    /\ step' = "none"
    /\ slot' = IF how = "err" THEN "none" ELSE slot
    /\ IF how = "retry" /\ holder \in wanted
       THEN waiting' = waiting \cup {holder} /\ UNCHANGED <<wanted, job>>
       ELSE EndThread(holder) /\ UNCHANGED waiting
    /\ result' = how
    /\ good' = FALSE /\ storing' = FALSE /\ writes' = 0 /\ touched' = NoOne
    /\ UNCHANGED <<process, image>>

\* A capture that was not ended and has not had its scan scans whoever touches
\* the sensor. Between a scan and its match the capture is the job's own, and
\* has had it. The interrupts it leaves behind make the next capture fail.
Stray(who) ==
    /\ "capture" \in unheeded
    /\ step \notin {"match", "identify", "release", "owner"}
    /\ image' = who
    /\ UNCHANGED <<process, threadVars, holder, slot, step, localVars, linkVars, on, unheeded,
                   seenVars>>

-----------------------------------------------------------------------------
(* Commands of the holder's job.                                           *)

Verifying == job[holder].kind = "verify"

At(s) == holder # NoThread /\ step = s

stepRest == <<process, threadVars, holder, slot, linkVars, image, result>>

\* A command that switches something on is answered ...
Starts(s, thing, next) ==
    /\ At(s)
    /\ ~torn
    /\ on' = on \cup {thing}
    /\ unheeded' = unheeded \ {thing}
    /\ step' = next
    /\ UNCHANGED <<stepRest, localVars, touched, lost>>

\* ... or is refused or lost: whatever the job does next.
Fails(s) ==
    /\ At(s)
    /\ lost' = (lost \/ torn)

\* A command that switches something off, sent whatever came before it.
Told(s, thing, obeyed) ==
    /\ At(s)
    /\ obeyed => ~torn
    /\ on' = IF obeyed THEN on \ {thing} ELSE on
    /\ unheeded' = IF obeyed THEN unheeded \ {thing} ELSE unheeded \cup ({thing} \cap on)
    /\ lost' = (lost \/ torn)

\* Obeyed or not: the reply is discarded ("let _ =").
Ends(s, thing) == \E obeyed \in BOOLEAN : Told(s, thing, obeyed)

StartCapture == Starts("start", "capture", "finger")

\* Whoever touches the sensor, while the operation is not stopped.
Finger(who) ==
    /\ At("finger")
    /\ ~torn
    /\ holder \in wanted
    /\ image' = who
    /\ touched' = who
    /\ step' = "stop"
    /\ UNCHANGED <<process, threadVars, holder, slot, linkVars, localVars, on, unheeded, lost, result>>

\* capture() bails out: refused, an interrupt out of turn, no finger in time,
\* a scan error, or stopped.
CaptureFails ==
    /\ Fails("start") \/ Fails("finger")
    /\ good' = FALSE
    /\ step' = "stop"
    /\ UNCHANGED <<stepRest, storing, writes, on, unheeded, touched>>

\* a bug: the capture is only ended when there was a scan
StopsGoodOnes == IF good THEN Ends("stop", "capture") ELSE Fails("stop") /\ UNCHANGED <<on, unheeded>>
StopCapture == Ends("stop", "capture")     \* "Always stop the capture, even on failure"

MatchesRegardless == Verifying             \* a bug: a failed capture goes on to the matcher
Matches == Verifying /\ good

Captured ==
    /\ StopCapture
    /\ \/ /\ Matches
          /\ step' = "match"
          /\ UNCHANGED <<stepRest, localVars, touched>>
       \/ /\ Verifying /\ ~Matches
          /\ Leave("retry")
          /\ UNCHANGED linkVars
       \/ /\ ~Verifying
          /\ step' = IF good THEN "update" ELSE "end"
          /\ UNCHANGED <<stepRest, localVars, touched>>

StartMatch == Starts("match", "match", "identify")

\* The matcher has an answer: it knows the finger, or does not.
Identify(known) ==
    /\ At("identify")
    /\ ~torn
    /\ good' = known
    /\ step' = "release"
    /\ UNCHANGED <<stepRest, storing, writes, on, unheeded, touched, lost>>

MatchFails ==
    /\ Fails("match") \/ Fails("identify")
    /\ good' = FALSE
    /\ step' = "release"
    /\ UNCHANGED <<stepRest, storing, writes, on, unheeded, touched>>

\* "Release the match context regardless of outcome".
ReleaseMatch ==
    /\ Ends("release", "match")
    /\ IF good
       THEN step' = "owner" /\ UNCHANGED <<stepRest, localVars, touched>>
       ELSE Leave("no-match") /\ UNCHANGED linkVars

AnyOwner == TRUE                 \* a bug: any enrolled finger is a match
IsOwner == image = job[holder].user

\* The matched record must belong to the user the verification is for.
Owner ==
    /\ At("owner")
    /\ ~torn
    /\ Leave(IF IsOwner THEN "match" ELSE "no-match")
    /\ UNCHANGED <<linkVars, on, unheeded, lost>>

OwnerFails ==
    /\ Fails("owner")
    /\ Leave("no-match")
    /\ UNCHANGED <<linkVars, on, unheeded>>

CreateEnrollment == Starts("create", "enrolment", "start")

\* An Err outside the rounds of an enrolment; or a list or delete that fails.
JobFails ==
    /\ \E s \in {"create", "delete", "command"} : Fails(s)
       \/ (Fails("unlock") /\ storing)
    /\ Leave("err")
    /\ UNCHANGED <<linkVars, on, unheeded>>

\* A list or delete answered.
Done ==
    /\ At("command")
    /\ ~torn
    /\ Leave("ok")
    /\ UNCHANGED <<linkVars, on, unheeded, lost>>

\* The template is fed back twice: to arm the sensor, and to get it.
UpdateStart ==
    /\ At("update")
    /\ ~torn
    /\ on' = on \cup {"update"}
    /\ unheeded' = unheeded \ {"update"}
    /\ writes' = 2
    /\ step' = "unlock"
    /\ UNCHANGED <<stepRest, good, storing, touched, lost>>

RoundFails ==
    /\ Fails("update") \/ (Fails("unlock") /\ ~storing)
    /\ good' = FALSE
    /\ step' = "end"
    /\ UNCHANGED <<stepRest, storing, writes, on, unheeded, touched>>

\* write_enable, before a template is fed back or a record written.
Unlock == Starts("unlock", "transaction", "write")

Write(accepted) ==
    /\ Fails("write")
    /\ accepted => ~torn
    /\ good' = accepted
    /\ step' = "commit"
    /\ UNCHANGED <<stepRest, storing, writes, on, unheeded, touched>>

\* "Commit regardless": an error of it is one of the write.
Commit(obeyed) == Told("commit", "transaction", obeyed)

OneMoreWrite == writes >= 1        \* a bug: one write too many
MoreWrites == writes > 1

CommitRound(enough, obeyed) ==
    /\ ~storing
    /\ Commit(obeyed)
    /\ writes' = writes - 1
    /\ good' = (good /\ obeyed)
    /\ storing' = (good' /\ ~MoreWrites /\ enough)
    /\ step' = IF good' /\ MoreWrites THEN "unlock" ELSE "end"
    /\ UNCHANGED <<stepRest, touched>>

CommitRecord(obeyed) ==
    /\ storing
    /\ Commit(obeyed)
    /\ IF good /\ obeyed /\ MoreWrites
       THEN /\ writes' = writes - 1
            /\ step' = "unlock"
            /\ UNCHANGED <<stepRest, good, storing, touched>>
       ELSE Leave(IF good /\ obeyed THEN "ok" ELSE "err") /\ UNCHANGED linkVars

RoundsGoOn == TRUE                      \* a bug: a stopped enrolment goes on
AnotherStep == good \/ holder \in wanted

\* "The sensor expects this after every round, successful or not". Another
\* round follows unless the sensor has enough, has had too many (which ends
\* here too: how many is in Enrollment), or the enrolment was stopped.
EndRound ==
    /\ Ends("end", "update")
    /\ \/ /\ AnotherStep
          /\ step' = IF storing THEN "finish" ELSE "start"
          /\ good' = TRUE
          /\ UNCHANGED <<stepRest, storing, writes, touched>>
       \/ /\ IF good THEN ~storing ELSE ~AnotherStep
          /\ Leave("err")
          /\ UNCHANGED linkVars

\* The update ended twice; then the old record goes.
FinishScans ==
    /\ Ends("finish", "enrolment")
    /\ step' = "delete"
    /\ UNCHANGED <<stepRest, localVars, touched>>

DeleteOld(records) ==
    /\ At("delete")
    /\ ~torn
    /\ writes' = records
    /\ step' = "unlock"
    /\ UNCHANGED <<stepRest, good, storing, on, unheeded, touched, lost>>

-----------------------------------------------------------------------------
(* The end of the daemon.                                                  *)

Terminate ==
    /\ process = "up"
    /\ process' = "stopping"
    /\ UNCHANGED <<threadVars, holder, slot, step, localVars, linkVars, sensorVars, seenVars>>

\* main takes the session out of the slot, and reboots the sensor through it.
Shutdown ==
    /\ process = "stopping"
    /\ holder = NoThread
    /\ process' = "rebooted"
    /\ slot' = "none"
    /\ IF slot = "open" /\ ~torn THEN context' = FALSE /\ Cleared
       ELSE UNCHANGED <<context, on, unheeded>>
    /\ UNCHANGED <<threadVars, holder, step, localVars, torn, image, seenVars>>

\* The runtime is dropped, which waits for its blocking threads.
Exit ==
    /\ process = "rebooted"
    /\ waiting = {} /\ holder = NoThread
    /\ process' = "gone"
    /\ slot' = "none"
    /\ UNCHANGED <<threadVars, holder, step, localVars, linkVars, sensorVars, seenVars>>

-----------------------------------------------------------------------------
Command ==
    \/ StartCapture \/ CaptureFails \/ Captured
    \/ \E who \in Users \cup {NoOne} : Finger(who)
    \/ StartMatch \/ MatchFails \/ ReleaseMatch \/ Owner \/ OwnerFails
    \/ \E known \in BOOLEAN : known = (image # NoOne) /\ Identify(known)
    \/ CreateEnrollment \/ UpdateStart \/ RoundFails \/ Unlock
    \/ \E accepted \in BOOLEAN : Write(accepted)
    \/ \E enough, obeyed \in BOOLEAN : CommitRound(enough, obeyed)
    \/ \E obeyed \in BOOLEAN : CommitRecord(obeyed)
    \/ EndRound \/ FinishScans
    \/ \E records \in 1..MaxRecords : DeleteOld(records)
    \/ JobFails \/ Done

Next ==
    \/ \E t \in Threads : \/ \E j \in Jobs : StartJob(t, j)
                          \/ StopJob(t) \/ TakeSession(t) \/ OpenFails(t)
    \/ Tear
    \/ \E who \in Users \cup {NoOne} : Stray(who)
    \/ Command
    \/ Terminate \/ Shutdown \/ Exit

Spec == Init /\ [][Next]_vars

\* The kernel runs the thread that holds the mutex; a std mutex promises
\* nothing to those that wait for it.
FairSpec == Spec /\ WF_vars(Command)

-----------------------------------------------------------------------------
(* Properties.                                                             *)

\* However a job ends - with a result, a failed scan, a refused command, a
\* stop - what a session that is kept for the next one still has switched on in
\* the sensor is a capture, match context or enrolment that the sensor was told
\* to end after it was last started, and did not; and never an open transaction,
\* whose commit is not taken on trust.
SessionIsClean ==
    holder = NoThread /\ slot = "open" /\ ~torn =>
        on \subseteq unheeded /\ "transaction" \notin on

\* A verification reports a match only for a finger of its own user scanned
\* while it held the session, never for the image an earlier job left behind.
MatchIsOfThisScan ==
    [][holder # NoThread /\ holder' = NoThread /\ result' = "match" =>
        touched = job[holder].user]_vars

\* Wherever it was, also in the middle of storing a finger or on a torn link,
\* a stopped job gives the session back.
StoppedReturns ==
    \A t \in Threads : holder = t /\ t \notin wanted ~> holder # t

\* "If the operation fails the session is dropped, so the next call reconnects
\* rather than reusing a session the sensor may have already torn down."
FailedIsDropped ==
    [][holder # NoThread /\ holder' = NoThread /\ lost' => slot' = "none"]_vars

\* "Killing the daemon mid-session leaves the sensor with an open context,
\* after which even plain commands fail": a daemon that was asked to stop, was
\* not killed, and whose last job did not fail, has released it.
ShutdownIsClean == process = "gone" /\ ~torn /\ result # "err" => ~context

=============================================================================
