----------------------------- MODULE Enrollment -----------------------------
(***************************************************************************)
(* What the holder of the sensor session does to the finger database on    *)
(* the sensor: an enrolment (enroll.rs, and the writes of db.rs it makes)  *)
(* or the deletion of all of a user's fingers.                             *)
(*                                                                         *)
(* The session mutex lets one job run at a time. Each command the job sends*)
(* is a step: it may succeed, or fail - and a write that fails may have    *)
(* been made all the same, its reply lost. The daemon may be killed        *)
(* between any two commands.                                               *)
(*                                                                         *)
(* A record that is written is pending in the sensor until a "commit"      *)
(* (0x1a) is obeyed. A job that ends before that leaves it pending, and    *)
(* the next 0x1a makes it part of the database: the one after a record of  *)
(* a later job, or one of those that every round of a scan sends. Lookups  *)
(* see what is committed (how the firmware shows a pending record is not   *)
(* in the code).                                                           *)
(*                                                                         *)
(* Templates, keys and record layouts are left out. Record ids are the     *)
(* sensor's to choose: any that is not in use.                             *)
(***************************************************************************)
EXTENDS Naturals, FiniteSets

CONSTANTS
    Sids,        \* identities, one per login name
    Fingers,     \* finger subtypes
    RecordIds,   \* record ids of the database
    NoRecord,    \* no user record found or made yet
    MaxStages    \* MAX_STAGES: accepted scans before an enrolment gives up

ASSUME EnrollmentAssumption ==
    MaxStages \in Nat \ {0} /\ NoRecord \notin RecordIds

VARIABLES
    pc,        \* where the job is
    job,       \* what it is, for whom, and which finger
    stopped,   \* whether the daemon has stopped the operation
    stage,     \* scans accepted so far
    tid,       \* whether the sensor has given the template an id: it has enough
    doomed,    \* finger records still to be deleted
    user,      \* the record the new finger goes under
    store,     \* the committed database
    pending,   \* what was written and not yet committed
    result     \* how the last job ended

vars == <<pc, job, stopped, stage, tid, doomed, user, store, pending, result>>
scanVars == <<stage, tid>>
sensorVars == <<store, pending>>
writeVars == <<doomed, user, sensorVars>>

Databases == [storage : BOOLEAN,
              users   : SUBSET [id : RecordIds, sid : Sids],
              fingers : SUBSET [id : RecordIds, owner : RecordIds, finger : Fingers]]
Nothing == [storage |-> FALSE, users |-> {}, fingers |-> {}]
Jobs == [kind : {"enroll", "delete"}, sid : Sids, finger : Fingers]

Scanning == {"create", "touch", "wait", "scan"}
Storing == {"find", "new-storage", "new-user", "new-finger", "commit"}
CleaningUp == {"scan", "commit"}     \* where the next commands include a 0x1a

TypeOK ==
    /\ pc \in {"idle", "look", "deleting"} \cup Scanning \cup Storing
    /\ job \in Jobs
    /\ stopped \in BOOLEAN
    /\ stage \in 0..MaxStages
    /\ tid \in BOOLEAN
    /\ doomed \subseteq RecordIds
    /\ user \in RecordIds \cup {NoRecord}
    /\ store \in Databases /\ pending \in Databases
    /\ result \in {"none", "ok", "failed", "killed"}

Init ==
    /\ pc = "idle"
    /\ job \in Jobs
    /\ stopped = FALSE
    /\ stage = 0 /\ tid = FALSE
    /\ doomed = {} /\ user = NoRecord
    /\ store = Nothing /\ pending = Nothing
    /\ result = "none"

-----------------------------------------------------------------------------
(* The database.                                                           *)

Merge(a, b) == [storage |-> a.storage \/ b.storage,
                users   |-> a.users \cup b.users,
                fingers |-> a.fingers \cup b.fingers]

Used(db) == {u.id : u \in db.users} \cup {f.id : f \in db.fingers}
FreeIds == RecordIds \ (Used(store) \cup Used(pending))

\* 0x1a: what is pending takes effect, whoever wrote it. Nothing pending is not
\* an error (0x0491 counts as Ok).
NotCommitted == UNCHANGED sensorVars  \* a bug: the commit is left out
Commit ==
    /\ store' = Merge(store, pending)
    /\ pending' = Nothing

\* lookup_user: the record of an identity, by SID.
Found(sid) == {u \in store.users : u.sid = sid}

FingersOf(sid) == {f \in store.fingers : \E u \in Found(sid) : f.owner = u.id}

Return(how) ==
    /\ pc' = "idle"
    /\ result' = how
    /\ doomed' = {} /\ user' = NoRecord
    /\ stage' = 0 /\ tid' = FALSE
    /\ stopped' = FALSE
    /\ UNCHANGED job

\* The job ends early, maybe with a 0x1a that was sent and not heard of. What is
\* still pending stays so.
GiveUp(how) ==
    /\ \/ UNCHANGED sensorVars
       \/ pc \in CleaningUp /\ Commit
    /\ Return(how)

\* An Err of a command outside the rounds, whose errors ask for another scan.
Fail ==
    /\ pc \in {"create", "look", "deleting"} \cup Storing
    /\ pc = "deleting" => doomed # {}
    /\ GiveUp("failed")

\* The end of the process, at any point.
Killed ==
    /\ pc # "idle"
    /\ GiveUp("killed")

\* Between jobs a USB reset, a loss of power or another tool's 0x1a may settle
\* what is pending, one way or the other.
Settled ==
    /\ pc = "idle"
    /\ pending # Nothing
    /\ store' \in {store, Merge(store, pending)}
    /\ pending' = Nothing
    /\ UNCHANGED <<pc, job, stopped, scanVars, doomed, user, result>>

-----------------------------------------------------------------------------
(* The rounds of an enrolment.                                             *)

Start(j) ==
    /\ pc = "idle"
    /\ job' = j
    /\ pc' = IF j.kind = "enroll" THEN "create" ELSE "look"
    /\ UNCHANGED <<stopped, scanVars, writeVars, result>>

\* The client, or whoever claims the device, stops the operation.
StopJob ==
    /\ pc # "idle" /\ job.kind = "enroll"
    /\ ~stopped
    /\ stopped' = TRUE
    /\ UNCHANGED <<pc, job, scanVars, writeVars, result>>

CreateEnrollment ==
    /\ pc = "create"
    /\ pc' = "touch"
    /\ UNCHANGED <<job, stopped, scanVars, writeVars, result>>

OneScanMore == stage <= MaxStages     \* a bug: one scan too many
MoreScans == stage < MaxStages

\* The sensor glows, and the capture waits for a finger.
Touch ==
    /\ pc = "touch"
    /\ MoreScans
    /\ pc' = "wait"
    /\ UNCHANGED <<job, stopped, scanVars, writeVars, result>>

\* A finger comes, in a poll begun before any stop.
Finger ==
    /\ pc = "wait"
    /\ ~stopped
    /\ pc' = "scan"
    /\ UNCHANGED <<job, stopped, scanVars, writeVars, result>>

RoundNotCleaned == UNCHANGED sensorVars  \* a bug: a round sends no 0x1a
RoundCleanups == Commit

\* The scan is taken into the template, and both of the round's updates end in
\* a 0x1a that was obeyed. The sensor says whether it has enough.
GoodRound(enough) ==
    /\ pc = "scan"
    /\ stage' = stage + 1
    /\ tid' = enough
    /\ RoundCleanups
    /\ pc' = IF enough THEN "look" ELSE "touch"
    /\ UNCHANGED <<job, stopped, doomed, user, result>>

NeverGivesUp == FALSE        \* a bug: a stopped enrolment asks for another scan
GivesUp == stopped

\* No finger in time, an unreadable scan, an error of the round's commands,
\* before or after a 0x1a.
BadRound ==
    /\ pc \in {"wait", "scan"}
    /\ ~GivesUp
    /\ \/ UNCHANGED sensorVars
       \/ pc \in CleaningUp /\ Commit
    /\ pc' = "touch"
    /\ UNCHANGED <<job, stopped, scanVars, doomed, user, result>>

StoppedRound ==
    /\ pc \in {"wait", "scan"}
    /\ GivesUp
    /\ GiveUp("failed")

\* a bug: what was scanned is stored although the sensor has not enough.
TooManyStored ==
    /\ pc = "touch"
    /\ stage = MaxStages
    /\ pc' = "look"
    /\ UNCHANGED <<job, stopped, scanVars, writeVars, result>>

TooManyStages ==
    /\ pc = "touch"
    /\ stage = MaxStages
    /\ GiveUp("failed")

-----------------------------------------------------------------------------
(* Replacing the old record by the new one.                                *)

\* The records a job deletes: all of a user's fingers, or those of the finger
\* that was enrolled again.
NoneDoomed == {}                                       \* a bug: the old record stays
AllDoomed == {f.id : f \in FingersOf(job.sid)}         \* a bug: every finger goes
Doomed == {f.id : f \in {g \in FingersOf(job.sid) :
                            job.kind = "enroll" => g.finger = job.finger}}

Look ==
    /\ pc = "look"
    /\ doomed' = Doomed
    /\ pc' = "deleting"
    /\ UNCHANGED <<job, stopped, scanVars, user, store, pending, result>>

Delete(id) ==
    /\ pc = "deleting"
    /\ id \in doomed
    /\ doomed' = doomed \ {id}
    /\ store' = [store EXCEPT !.fingers = {f \in @ : f.id # id}]
    /\ UNCHANGED <<pc, job, stopped, scanVars, user, pending, result>>

\* The delete is made and its reply lost: the job fails.
DeleteUnheard(id) ==
    /\ pc = "deleting"
    /\ id \in doomed
    /\ store' = [store EXCEPT !.fingers = {f \in @ : f.id # id}]
    /\ UNCHANGED pending
    /\ Return("failed")

Deleted ==
    /\ pc = "deleting"
    /\ doomed = {}
    /\ IF job.kind = "delete" THEN Return("ok") /\ UNCHANGED sensorVars
       ELSE /\ pc' = "find"
            /\ UNCHANGED <<job, stopped, scanVars, writeVars, result>>

\* The user's record, if there is one.
FindUser ==
    /\ pc = "find"
    /\ \/ \E u \in Found(job.sid) : user' = u.id /\ pc' = "new-finger"
       \/ /\ Found(job.sid) = {}
          /\ pc' = IF store.storage THEN "new-user" ELSE "new-storage"
          /\ UNCHANGED user
    /\ UNCHANGED <<job, stopped, scanVars, doomed, store, pending, result>>

\* The three kinds of record that are written.
StorageRecord == [storage |-> TRUE, users |-> {}, fingers |-> {}]
UserRecord(id, sid) == [storage |-> FALSE, users |-> {[id |-> id, sid |-> sid]}, fingers |-> {}]
FingerRecord(id, owner, finger) ==
    [storage |-> FALSE, users |-> {},
     fingers |-> {[id |-> id, owner |-> owner, finger |-> finger]}]

\* new_record's 0x47, once write_enable has unlocked the database.
Write(record) ==
    /\ pending' = Merge(pending, record)
    /\ pc' = "commit"
    /\ UNCHANGED <<job, stopped, scanVars, doomed, store, result>>

NewStorage ==
    /\ pc = "new-storage"
    /\ Write(StorageRecord)
    /\ UNCHANGED user

NewUser(id) ==
    /\ pc = "new-user"
    /\ id \in FreeIds
    /\ Write(UserRecord(id, job.sid))
    /\ user' = id

NewFinger(id) ==
    /\ pc = "new-finger"
    /\ id \in FreeIds
    /\ Write(FingerRecord(id, user, job.finger))
    /\ UNCHANGED user

\* call_cleanups, then the next record, or Ok.
Cleanups ==
    /\ pc = "commit"
    /\ Commit
    /\ IF pending.fingers # {} THEN Return("ok")
       ELSE /\ pc' = IF pending.storage THEN "new-user" ELSE "new-finger"
            /\ UNCHANGED <<job, stopped, scanVars, doomed, user, result>>

-----------------------------------------------------------------------------
Scan ==
    \/ CreateEnrollment \/ Touch \/ Finger
    \/ \E enough \in BOOLEAN : GoodRound(enough)
    \/ BadRound \/ StoppedRound \/ TooManyStages

Replace ==
    \/ Look \/ Deleted \/ FindUser \/ NewStorage \/ Cleanups
    \/ \E id \in doomed : Delete(id)
    \/ \E id \in RecordIds : NewUser(id) \/ NewFinger(id)

Next ==
    \/ \E j \in Jobs : Start(j)
    \/ StopJob \/ Scan \/ Replace \/ Fail \/ Killed \/ Settled
    \/ \E id \in doomed : DeleteUnheard(id)

Spec == Init /\ [][Next]_vars

\* The job's thread runs; nothing makes a client stop or start anything.
FairSpec == Spec /\ WF_vars(Scan \/ Replace \/ Fail)

-----------------------------------------------------------------------------
(* Properties.                                                             *)

\* However enrolments fail, are stopped, killed or repeated, a user has at
\* most one record of each finger: "re-enrolling a finger replaces it". That
\* takes more than the deletion: an earlier job's record that is still pending
\* has to be committed before the old ones are looked for.
OneRecordPerFinger ==
    \A f, g \in store.fingers : f.owner = g.owner /\ f.finger = g.finger => f = g

\* An identity never gets a second user record, under which its fingers would
\* be found or not depending on which one is looked up: not even when the first
\* was written by a job that did not live to see it committed.
OneRecordPerUser ==
    \A u, v \in store.users : u.sid = v.sid => u = v

\* A job that returns Ok has done what it says: the finger enrolled is in the
\* committed database, under its user, and the fingers deleted are not. (One
\* that an earlier job left pending is not seen by a deletion, which sends no
\* 0x1a, and may still come.)
OkMeansDone ==
    [][pc # "idle" /\ pc' = "idle" /\ result' = "ok" =>
        IF job.kind = "enroll" THEN \E f \in FingersOf(job.sid)' : f.finger = job.finger
        ELSE FingersOf(job.sid)' = {}]_vars

Business(f) ==
    /\ \E u \in store.users : u.id = f.owner /\ u.sid = job.sid
    /\ job.kind = "enroll" => f.finger = job.finger

\* A job removes no finger that is not its business: none of another user and,
\* in an enrolment, none of the same user's others. What appears is its
\* business too, or is what an earlier job had left pending - and that only
\* before the job has looked at the database, never under its hands.
OthersUntouched ==
    [][/\ \A f \in store.fingers \ store'.fingers : Business(f)
       /\ \A f \in store'.fingers \ store.fingers :
            IF pc = "commit" THEN Business(f) ELSE pc \in {"idle", "scan"} /\ f \in pending.fingers]_vars

\* The old record is not given up for an enrolment the sensor has not accepted:
\* stopped, killed or given up before that, it leaves the database as it was,
\* but for what an earlier job had left pending in the sensor.
NothingStoredUnfinished ==
    [][job.kind = "enroll" /\ store' # store =>
        tid \/ (pc \in {"idle", "scan"} /\ store' = Merge(store, pending))]_vars

\* A stopped enrolment returns, and gives the session back.
StoppedEnds == pc # "idle" /\ stopped ~> pc = "idle"

\* "Whatever was going on stops": an enrolment that was stopped while it was
\* being scanned does not go on to replace the stored finger.
StoppedReplacesNothing ==
    [][pc = "scan" /\ stopped => pc' # "look"]_vars

\* MAX_STAGES is the "upper bound on scans before giving up, so a bad sensor
\* cannot loop forever".
ScansAreBounded == pc \in Scanning ~> pc \notin Scanning

=============================================================================
