-------------------------- MODULE EnrollmentProofs --------------------------
(***************************************************************************)
(* The finger database stays right for any users, fingers and record ids,  *)
(* whatever becomes of the jobs that write it.                             *)
(*                                                                         *)
(* A record is added only after what it would double was looked for. What  *)
(* was found is kept in locals of the job: the invariant says what each    *)
(* place of it still knows. The write that is pending may be older than    *)
(* the job, so it has a part of the invariant of its own (Fits): whenever  *)
(* it takes effect it doubles nothing. That holds because no enrolment     *)
(* looks at the database before a round of its scan has had it committed.  *)
(***************************************************************************)
EXTENDS Enrollment, TLAPS

-----------------------------------------------------------------------------
(* The inductive invariant.                                                *)

\* A record id names one finger record, and a finger has a user.
DistinctIds == \A f, g \in store.fingers : f.id = g.id => f = g
Owned == \A f \in store.fingers : \E u \in store.users : u.id = f.owner

Consistent ==
    /\ store \in Databases
    /\ DistinctIds /\ Owned
    /\ OneRecordPerFinger /\ OneRecordPerUser

\* What is pending, from whichever job, can still become part of the database.
New(id) == id \in RecordIds /\ id \notin Used(store)
UserFits(id, sid) == New(id) /\ \A u \in store.users : u.sid # sid
FingerFits(id, owner, finger) ==
    /\ New(id)
    /\ \E u \in store.users : u.id = owner
    /\ \A f \in store.fingers : ~(f.owner = owner /\ f.finger = finger)
Fits ==
    \/ pending = Nothing \/ pending = StorageRecord
    \/ \E id \in RecordIds, sid \in Sids : UserFits(id, sid) /\ pending = UserRecord(id, sid)
    \/ \E id, owner \in RecordIds, finger \in Fingers :
          FingerFits(id, owner, finger) /\ pending = FingerRecord(id, owner, finger)

\* Only an enrolment scans and stores, and only with a template.
Underway ==
    /\ pc \in Scanning \cup Storing => job.kind = "enroll"
    /\ pc \in {"wait", "scan"} => stage < MaxStages
    /\ pc \in {"look", "deleting"} \cup Storing /\ job.kind = "enroll" => tid

\* What is to be deleted is what is still there, and nothing once it is gone.
Clearing ==
    /\ pc = "deleting" => doomed = Doomed
    /\ pc \in Storing => Doomed = {}

Unknown == Found(job.sid) = {}
Known == \E u \in Found(job.sid) : u.id = user
Placing ==
    /\ pc \in {"new-storage", "new-user"} => Unknown
    /\ pc = "new-finger" => Known

\* From the last round on nothing of an earlier job is pending, and before a
\* commit it is the one write that was just made.
Replacing == {"look", "deleting", "find", "new-storage", "new-user", "new-finger"}
StoragePending == Unknown /\ pending = StorageRecord
UserPending == Unknown /\ New(user) /\ pending = UserRecord(user, job.sid)
FingerPending ==
    /\ Known
    /\ \E id \in RecordIds : New(id) /\ pending = FingerRecord(id, user, job.finger)
Pending ==
    /\ Fits
    /\ pc = "commit" => StoragePending \/ UserPending \/ FingerPending
    /\ pc \in Replacing /\ job.kind = "enroll" => pending = Nothing

IInv == TypeOK /\ Consistent /\ Underway /\ Clearing /\ Placing /\ Pending

-----------------------------------------------------------------------------
(* The records that are written, and the database after a write or a       *)
(* delete.                                                                 *)

\* An empty database, and one with a storage and nothing in it.
LEMMA Records == Nothing \in Databases /\ StorageRecord \in Databases
BY DEF Nothing, Databases, StorageRecord

\* Nothing is used by a database without records.
LEMMA NothingUsed == Used(Nothing) = {}
BY DEF Used, Nothing

\* A write with nothing pending leaves that write pending.
LEMMA MergeNothing ==
    ASSUME NEW db \in Databases
    PROVE  Merge(Nothing, db) = db /\ Merge(db, Nothing) = db
BY DEF Merge, Nothing, Databases

\* A write that takes effect, at once or under a later job, leaves a consistent
\* database: what it adds doubles nothing and is under an id that is free.
LEMMA MergeKeeps ==
    ASSUME Consistent, Fits, store' = Merge(store, pending)
    PROVE  Consistent'
<1>1. store \in Databases /\ store = [storage |-> store.storage, users |-> store.users, fingers |-> store.fingers]
  BY DEF Consistent, Databases
<1>2. CASE pending = Nothing
  <2>1. store' = store
    BY <1>1, <1>2, MergeNothing
  <2> QED
    BY <2>1 DEF Consistent, DistinctIds, Owned, OneRecordPerFinger, OneRecordPerUser
<1>3. CASE pending = StorageRecord
  <2>1. store' \in Databases /\ store'.users = store.users /\ store'.fingers = store.fingers
    BY <1>1, <1>3 DEF StorageRecord, Merge, Databases
  <2> QED
    BY <2>1 DEF Consistent, DistinctIds, Owned, OneRecordPerFinger, OneRecordPerUser
<1>4. ASSUME NEW id \in RecordIds, NEW sid \in Sids, UserFits(id, sid), pending = UserRecord(id, sid)
      PROVE  Consistent'
  <2> DEFINE record == [id |-> id, sid |-> sid]
  <2>1. record \in [id : RecordIds, sid : Sids] /\ record.sid = sid
    OBVIOUS
  <2>2. pending = [storage |-> FALSE, users |-> {record}, fingers |-> {}]
    BY <1>4 DEF UserRecord
  <2> HIDE DEF record
  <2>3. /\ store' \in Databases
        /\ store'.users = store.users \cup {record} /\ store'.fingers = store.fingers
    BY <1>1, <2>1, <2>2 DEF Merge, Databases
  <2>4. OneRecordPerUser'
    BY <1>4, <2>1, <2>3 DEF Consistent, OneRecordPerUser, UserFits
  <2> QED
    BY <2>3, <2>4 DEF Consistent, DistinctIds, Owned, OneRecordPerFinger
<1>5. ASSUME NEW id \in RecordIds, NEW owner \in RecordIds, NEW finger \in Fingers,
             FingerFits(id, owner, finger), pending = FingerRecord(id, owner, finger)
      PROVE  Consistent'
  <2> DEFINE record == [id |-> id, owner |-> owner, finger |-> finger]
  <2>1. /\ record \in [id : RecordIds, owner : RecordIds, finger : Fingers]
        /\ record.id = id /\ record.owner = owner /\ record.finger = finger
    OBVIOUS
  <2>2. pending = [storage |-> FALSE, users |-> {}, fingers |-> {record}]
    BY <1>5 DEF FingerRecord
  <2> HIDE DEF record
  <2>3. /\ store' \in Databases
        /\ store'.fingers = store.fingers \cup {record} /\ store'.users = store.users
    BY <1>1, <2>1, <2>2 DEF Merge, Databases
  <2>4. \A f \in store.fingers : f.id # id /\ ~(f.owner = owner /\ f.finger = finger)
    BY <1>5 DEF FingerFits, New, Used
  <2>5. DistinctIds'
    BY <2>1, <2>3, <2>4 DEF Consistent, DistinctIds
  <2>6. Owned'
    BY <1>5, <2>1, <2>3 DEF Consistent, Owned, FingerFits
  <2>7. OneRecordPerFinger'
    BY <2>1, <2>3, <2>4 DEF Consistent, OneRecordPerFinger
  <2> QED
    BY <2>3, <2>5, <2>6, <2>7 DEF Consistent, OneRecordPerUser
<1> QED
  BY <1>2, <1>3, <1>4, <1>5 DEF Fits

\* What a delete takes from the database, what it leaves to be deleted, and
\* that a record pending meanwhile still fits.
LEMMA Taken ==
    ASSUME IInv, NEW id, store' = [store EXCEPT !.fingers = {f \in @ : f.id # id}], job' = job,
           pending' = pending
    PROVE  /\ Consistent' /\ Fits'
           /\ store'.users = store.users
           /\ store'.fingers = {f \in store.fingers : f.id # id}
           /\ Doomed' = Doomed \ {id}
<1>1. /\ store' \in Databases /\ store'.users = store.users
      /\ store'.fingers = {f \in store.fingers : f.id # id}
  BY DEF IInv, TypeOK, Databases
<1>2. Doomed' = Doomed \ {id}
  BY <1>1 DEF Doomed, FingersOf, Found
<1>3. \A free \in RecordIds : New(free) => New(free)'
  BY <1>1 DEF New, Used
<1>4. \A free \in RecordIds, sid \in Sids : UserFits(free, sid) => UserFits(free, sid)'
  BY <1>1, <1>3 DEF UserFits
<1>5. \A free, owner \in RecordIds, finger \in Fingers :
          FingerFits(free, owner, finger) => FingerFits(free, owner, finger)'
  BY <1>1, <1>3 DEF FingerFits
<1>6. Fits'
  BY <1>4, <1>5 DEF IInv, Pending, Fits
<1> QED
  BY <1>1, <1>2, <1>6 DEF IInv, Consistent, DistinctIds, Owned, OneRecordPerFinger, OneRecordPerUser

\* A step that leaves the database and the job alone sees what was seen before.
LEMMA SameDatabase ==
    ASSUME Consistent, UNCHANGED <<job, store>>
    PROVE  /\ Consistent'
           /\ Doomed' = Doomed /\ Found(job.sid)' = Found(job.sid)
           /\ \A id : New(id)' = New(id)
BY DEF Consistent, DistinctIds, Owned, OneRecordPerFinger, OneRecordPerUser, Doomed, FingersOf,
       Found, New, Used

\* What was fit to be committed still is while the sensor is left alone.
LEMMA SameFits ==
    ASSUME Fits, UNCHANGED sensorVars
    PROVE  Fits'
BY DEF Fits, UserFits, FingerFits, New, Used, sensorVars

\* The sensor left alone, or with what was pending committed: either way the
\* database is consistent and what is pending fits.
LEMMA SensorStep ==
    ASSUME IInv, UNCHANGED sensorVars \/ Commit
    PROVE  Consistent' /\ Fits' /\ pending' \in Databases
<1>1. CASE UNCHANGED sensorVars
  <2>1. Consistent'
    BY <1>1 DEF IInv, Consistent, DistinctIds, Owned, OneRecordPerFinger, OneRecordPerUser, sensorVars
  <2> QED
    BY <1>1, <2>1, SameFits DEF IInv, Pending, TypeOK, sensorVars
<1>2. CASE Commit
  BY <1>2, MergeKeeps, Records DEF IInv, Pending, Commit, Fits
<1> QED
  BY <1>1, <1>2

\* A job that returns has left its locals, and the sensor as it says.
LEMMA ReturnStep ==
    ASSUME IInv, NEW how \in {"ok", "failed", "killed"}, Return(how),
           Consistent', Fits', pending' \in Databases
    PROVE  IInv'
<1>1. TypeOK'
  <2>1. stage' \in 0..MaxStages
    BY EnrollmentAssumption DEF EnrollmentAssumption, Return
  <2> QED
    BY <2>1 DEF IInv, TypeOK, Return, Consistent
<1>2. (Underway /\ Clearing /\ Placing /\ Pending)'
  BY DEF Return, Underway, Clearing, Placing, Pending, Scanning, Storing, Replacing
<1> QED
  BY <1>1, <1>2 DEF IInv

\* So has one that gives up.
LEMMA GiveUpStep ==
    ASSUME IInv, NEW how \in {"failed", "killed"}, GiveUp(how)
    PROVE  IInv'
BY SensorStep, ReturnStep DEF GiveUp

-----------------------------------------------------------------------------
(* The steps of a job.                                                     *)

\* The rounds of an enrolment leave the database to what comes after them, but
\* for an older record that their cleanups commit; the last leaves none.
LEMMA ScanStep == IInv /\ Scan => IInv'
<1> SUFFICES ASSUME IInv, Scan PROVE IInv'
  OBVIOUS
<1> USE EnrollmentAssumption DEF EnrollmentAssumption
<1>1. CASE StoppedRound \/ TooManyStages
  BY <1>1, GiveUpStep DEF StoppedRound, TooManyStages
<1>2. CASE CreateEnrollment \/ Touch \/ Finger \/ BadRound \/ \E enough \in BOOLEAN : GoodRound(enough)
  <2>1. UNCHANGED <<job, stopped, doomed, user, result>> /\ (UNCHANGED sensorVars \/ Commit)
    BY <1>2 DEF CreateEnrollment, Touch, Finger, BadRound, GoodRound, RoundCleanups, scanVars, writeVars
  <2>2. Consistent' /\ Fits' /\ pending' \in Databases
    BY <2>1, SensorStep
  <2>3. /\ pc \in Scanning
        /\ pc' \in Scanning \cup {"look"}
        /\ stage' \in 0..MaxStages /\ tid' \in BOOLEAN
        /\ pc' = "look" => tid' /\ Commit
        /\ pc' \in {"wait", "scan"} => stage' < MaxStages
    BY <1>2 DEF CreateEnrollment, Touch, Finger, BadRound, GoodRound, RoundCleanups, MoreScans, scanVars,
                IInv, TypeOK, Underway, Scanning
  <2>4. TypeOK'
    BY <2>1, <2>2, <2>3 DEF IInv, TypeOK, Consistent
  <2>5. Underway'
    BY <2>1, <2>3 DEF IInv, Underway, Scanning, Storing
  <2>6. Clearing' /\ Placing'
    BY <2>3 DEF Clearing, Placing, Scanning, Storing
  <2>7. Pending'
    BY <2>2, <2>3 DEF Pending, Scanning, Replacing, Commit
  <2> QED
    BY <2>2, <2>4, <2>5, <2>6, <2>7 DEF IInv
<1> QED
  BY <1>1, <1>2 DEF Scan

\* Looking up, deleting and preparing a write.
LEMMA LookStep == IInv /\ (Look \/ Deleted \/ FindUser \/ NewStorage) => IInv'
<1> SUFFICES ASSUME IInv, Look \/ Deleted \/ FindUser \/ NewStorage PROVE IInv'
  OBVIOUS
<1>0. UNCHANGED <<job, store>>
  BY DEF Look, Deleted, FindUser, NewStorage, Write, Return, writeVars, sensorVars
<1>1. /\ Consistent'
      /\ Doomed' = Doomed /\ Found(job.sid)' = Found(job.sid)
  BY <1>0, SameDatabase DEF IInv
<1>2. CASE Look
  <2>1. Doomed \subseteq RecordIds
    BY DEF Doomed, FingersOf, IInv, TypeOK, Databases
  <2>2. Fits'
    BY <1>2, SameFits DEF Look, IInv, Pending, sensorVars
  <2>3. TypeOK' /\ Underway' /\ Clearing' /\ Placing'
    BY <1>1, <1>2, <2>1
       DEF Look, IInv, TypeOK, Underway, Clearing, Placing, Scanning, Storing, scanVars
  <2>4. Pending'
    BY <1>2, <2>2 DEF Look, IInv, Pending, Replacing
  <2> QED
    BY <1>1, <2>3, <2>4 DEF IInv
<1>3. CASE Deleted /\ job.kind = "delete"
  BY <1>3, SensorStep, ReturnStep DEF Deleted
<1>4. CASE Deleted /\ job.kind # "delete"
  <2>1. job.kind = "enroll"
    BY <1>4 DEF IInv, TypeOK, Jobs
  <2>2. Fits'
    BY <1>4, SameFits DEF Deleted, writeVars, IInv, Pending
  <2>3. TypeOK' /\ Underway' /\ Clearing' /\ Placing'
    BY <1>1, <1>4, <2>1
       DEF Deleted, IInv, TypeOK, Underway, Clearing, Placing, Scanning, Storing, scanVars, writeVars,
           sensorVars
  <2>4. Pending'
    BY <1>4, <2>1, <2>2 DEF Deleted, IInv, Pending, Replacing, writeVars, sensorVars
  <2> QED
    BY <1>1, <2>3, <2>4 DEF IInv
<1>5. CASE FindUser
  <2>1. user' \in RecordIds \cup {NoRecord}
    BY <1>5 DEF FindUser, Found, IInv, TypeOK, Databases
  <2>2. Placing'
    BY <1>1, <1>5 DEF FindUser, Placing, Unknown, Known
  <2>3. Fits'
    BY <1>5, SameFits DEF FindUser, sensorVars, IInv, Pending
  <2>4. TypeOK' /\ Underway' /\ Clearing'
    BY <1>1, <1>5, <2>1
       DEF FindUser, IInv, TypeOK, Underway, Clearing, Scanning, Storing, scanVars
  <2>5. Pending'
    BY <1>5, <2>3 DEF FindUser, IInv, Pending, Replacing
  <2> QED
    BY <1>1, <2>2, <2>4, <2>5 DEF IInv
<1>6. CASE NewStorage
  <2>1. pending' = StorageRecord
    BY <1>6, MergeNothing, Records
       DEF NewStorage, Write, IInv, Pending, Underway, Replacing, Storing
  <2>2. Pending'
    BY <1>1, <1>6, <2>1 DEF NewStorage, Write, Pending, Fits, StoragePending, Unknown, Replacing, IInv, Placing
  <2>3. TypeOK'
    BY <1>6, <2>1, Records DEF NewStorage, Write, IInv, TypeOK, Storing, scanVars
  <2> QED
    BY <1>1, <1>6, <2>2, <2>3
       DEF NewStorage, Write, IInv, Underway, Clearing, Placing, Scanning, Storing, scanVars
<1> QED
  BY <1>2, <1>3, <1>4, <1>5, <1>6

\* A record is written under an id that was free.
LEMMA WriteStep == ASSUME IInv, NEW id \in RecordIds, NewUser(id) \/ NewFinger(id) PROVE IInv'
<1>0. UNCHANGED <<job, store>> /\ pc \in Replacing /\ job.kind = "enroll" /\ pc' = "commit"
  BY DEF NewUser, NewFinger, Write, Replacing, IInv, Underway, Storing
<1>1. /\ Consistent'
      /\ Doomed' = Doomed /\ Found(job.sid)' = Found(job.sid) /\ New(id)' = New(id)
  BY <1>0, SameDatabase DEF IInv
<1>2. job.sid \in Sids /\ job.finger \in Fingers /\ pending = Nothing
  BY <1>0 DEF IInv, TypeOK, Jobs, Pending
<1>3. New(id)
  BY <1>2, NothingUsed DEF NewUser, NewFinger, FreeIds, New
<1>4. CASE NewUser(id)
  <2>1. UserRecord(id, job.sid) \in Databases
    <3> DEFINE record == [id |-> id, sid |-> job.sid]
    <3>1. record \in [id : RecordIds, sid : Sids]
      BY <1>2
    <3>2. UserRecord(id, job.sid) = [storage |-> FALSE, users |-> {record}, fingers |-> {}]
      BY DEF UserRecord
    <3> HIDE DEF record
    <3> QED
      BY <3>1, <3>2 DEF Databases
  <2>2. pending' = UserRecord(id, job.sid)
    BY <1>2, <1>4, <2>1, MergeNothing DEF NewUser, Write
  <2>3. Unknown /\ user' = id
    BY <1>4 DEF NewUser, IInv, Placing
  <2>4. UserFits(id, job.sid)'
    BY <1>0, <1>1, <1>3, <2>3 DEF UserFits, Unknown, Found
  <2>5. Fits'
    BY <1>0, <1>2, <2>2, <2>4 DEF Fits
  <2>6. UserPending'
    BY <1>0, <1>1, <1>3, <2>2, <2>3 DEF UserPending, Unknown, New, Used
  <2>7. TypeOK'
    BY <1>4, <2>1, <2>2 DEF NewUser, Write, IInv, TypeOK, Storing, scanVars
  <2>8. Pending'
    BY <1>0, <2>5, <2>6 DEF Pending, Replacing
  <2> QED
    BY <1>1, <1>4, <2>7, <2>8
       DEF NewUser, Write, IInv, Underway, Clearing, Placing, Scanning, Storing, scanVars
<1>5. CASE NewFinger(id)
  <2>1. Known /\ user \in RecordIds
    BY <1>5 DEF NewFinger, IInv, Placing, Known, Found, TypeOK, Databases
  <2>2. FingerRecord(id, user, job.finger) \in Databases
    <3> DEFINE record == [id |-> id, owner |-> user, finger |-> job.finger]
    <3>1. record \in [id : RecordIds, owner : RecordIds, finger : Fingers]
      BY <1>2, <2>1
    <3>2. FingerRecord(id, user, job.finger) = [storage |-> FALSE, users |-> {}, fingers |-> {record}]
      BY DEF FingerRecord
    <3> HIDE DEF record
    <3> QED
      BY <3>1, <3>2 DEF Databases
  <2>3. pending' = FingerRecord(id, user, job.finger) /\ user' = user
    BY <1>2, <1>5, <2>2, MergeNothing DEF NewFinger, Write
  <2>4. FingerFits(id, user, job.finger)'
    <3>1. \A f \in store.fingers : ~(f.owner = user /\ f.finger = job.finger)
      BY <1>0, <1>5, <2>1 DEF NewFinger, IInv, Clearing, Storing, Known, Doomed, FingersOf, Found
    <3>2. \E u \in store.users : u.id = user
      BY <2>1 DEF Known, Found
    <3> QED
      BY <1>0, <1>1, <1>3, <2>3, <3>1, <3>2 DEF FingerFits
  <2>5. Fits'
    BY <1>0, <1>2, <2>1, <2>3, <2>4 DEF Fits
  <2>6. FingerPending'
    BY <1>0, <1>1, <1>3, <2>1, <2>3 DEF FingerPending, Known, New, Used
  <2>7. TypeOK'
    BY <1>5, <2>2, <2>3 DEF NewFinger, Write, IInv, TypeOK, Storing, scanVars
  <2>8. Pending'
    BY <1>0, <2>5, <2>6 DEF Pending, Replacing
  <2> QED
    BY <1>1, <1>5, <2>7, <2>8
       DEF NewFinger, Write, IInv, Underway, Clearing, Placing, Scanning, Storing, scanVars
<1> QED
  BY <1>4, <1>5

\* A delete leaves one record less to delete, and nothing that did not fit.
LEMMA DeleteStep == ASSUME IInv, NEW id \in doomed, Delete(id) \/ DeleteUnheard(id) PROVE IInv'
<1>1. /\ store' = [store EXCEPT !.fingers = {f \in @ : f.id # id}] /\ job' = job
      /\ pc = "deleting" /\ pending' = pending
  BY DEF Delete, DeleteUnheard, Return
<1>2. Consistent' /\ Fits' /\ Doomed' = Doomed \ {id}
  BY <1>1, Taken
<1>3. CASE DeleteUnheard(id)
  BY <1>1, <1>2, <1>3, ReturnStep DEF DeleteUnheard, IInv, TypeOK
<1>4. CASE Delete(id)
  <2>1. store' \in Databases
    BY <1>2 DEF Consistent
  <2>2. TypeOK'
    BY <1>1, <1>4, <2>1 DEF Delete, IInv, TypeOK, scanVars
  <2>3. Pending'
    BY <1>1, <1>2, <1>4 DEF Delete, IInv, Pending, Replacing
  <2> QED
    BY <1>1, <1>2, <1>4, <2>2, <2>3
       DEF Delete, IInv, Underway, Clearing, Placing, Scanning, Storing, scanVars
<1> QED
  BY <1>3, <1>4

\* What is committed is what the next record goes under.
LEMMA CommitStep == IInv /\ Cleanups => IInv'
<1> SUFFICES ASSUME IInv, Cleanups PROVE IInv'
  OBVIOUS
<1>1. /\ pc = "commit" /\ store' = Merge(store, pending) /\ pending' = Nothing
      /\ Consistent' /\ Fits' /\ pending' \in Databases
  BY SensorStep DEF Cleanups, Commit
<1>2. CASE pending.fingers # {}
  BY <1>1, <1>2, ReturnStep DEF Cleanups
<1>3. CASE pending.fingers = {}
  <2>1. /\ pc' = IF pending.storage THEN "new-user" ELSE "new-finger"
        /\ UNCHANGED <<job, stopped, stage, tid, doomed, user, result>>
    BY <1>3 DEF Cleanups, scanVars
  <2>2. job.kind = "enroll" /\ tid /\ Doomed = {} /\ store \in Databases
    BY <1>1 DEF IInv, Underway, Clearing, Storing, Consistent
  <2>3. StoragePending \/ UserPending
    <3>1. \A id : FingerRecord(id, user, job.finger).fingers # {}
      BY DEF FingerRecord
    <3> QED
      BY <1>1, <1>3, <3>1 DEF IInv, Pending, FingerPending
  <2>4. store'.fingers = store.fingers
    BY <1>1, <1>3 DEF Merge
  <2>5. TypeOK'
    BY <1>1, <2>1 DEF IInv, TypeOK, Consistent, Storing
  <2>6. Pending'
    BY <1>1, <2>1 DEF Pending
  <2>7. CASE StoragePending
    <3>1. pc' = "new-user" /\ store'.users = store.users
      BY <1>1, <2>1, <2>7 DEF StoragePending, StorageRecord, Merge
    <3>2. Doomed' = {} /\ Placing'
      BY <2>1, <2>2, <2>4, <2>7, <3>1
         DEF Doomed, FingersOf, Found, Placing, StoragePending, Unknown
    <3> QED
      BY <1>1, <2>1, <2>2, <2>5, <2>6, <3>1, <3>2 DEF IInv, Underway, Clearing, Scanning, Storing
  <2>8. CASE UserPending
    <3> DEFINE record == [id |-> user, sid |-> job.sid]
    <3>1. pc' = "new-finger" /\ store'.users = store.users \cup {record}
      BY <1>1, <2>1, <2>8 DEF UserPending, UserRecord, Merge
    <3>2. Placing'
      <4>1. record \in Found(job.sid)' /\ record.id = user'
        BY <2>1, <3>1 DEF Found
      <4>2. Known'
        BY <4>1 DEF Known
      <4> QED
        BY <3>1, <4>2 DEF Placing
    <3>3. \A f \in store.fingers : f.owner # user
      BY <2>8 DEF UserPending, New, Used, IInv, Consistent, Owned
    <3>4. Doomed' = {}
      BY <2>1, <2>2, <2>4, <2>8, <3>1, <3>3 DEF Doomed, FingersOf, Found, UserPending, Unknown
    <3> QED
      BY <1>1, <2>1, <2>2, <2>5, <2>6, <3>1, <3>2, <3>4
         DEF IInv, Underway, Clearing, Scanning, Storing
  <2> QED
    BY <2>3, <2>7, <2>8
<1> QED
  BY <1>2, <1>3

\* A job begins, is told to stop, or nothing happens.
LEMMA BeginStep == IInv /\ (StopJob \/ (\E j \in Jobs : Start(j)) \/ UNCHANGED vars) => IInv'
<1> SUFFICES ASSUME IInv, StopJob \/ (\E j \in Jobs : Start(j)) \/ UNCHANGED vars PROVE IInv'
  OBVIOUS
<1>1. Consistent' /\ Fits' /\ pending' = pending /\ store' = store
  BY SensorStep DEF StopJob, Start, vars, writeVars, sensorVars
<1>2. CASE StopJob \/ UNCHANGED vars
  <2>1. UNCHANGED <<pc, job, stage, tid, doomed, user, store, pending, result>> /\ stopped' \in BOOLEAN
    BY <1>2 DEF StopJob, vars, scanVars, writeVars, sensorVars, IInv, TypeOK
  <2>2. /\ Doomed' = Doomed /\ Found(job.sid)' = Found(job.sid)
        /\ \A id : New(id)' = New(id)
    BY <2>1, SameDatabase DEF IInv
  <2>3. Pending'
    BY <1>1, <2>1, <2>2
       DEF IInv, Pending, StoragePending, UserPending, FingerPending, Known, Unknown
  <2> QED
    BY <1>1, <2>1, <2>2, <2>3 DEF IInv, TypeOK, Underway, Clearing, Placing, Known, Unknown
<1>3. CASE \E j \in Jobs : Start(j)
  <2>1. Pending'
    BY <1>1, <1>3 DEF Start, Pending, Replacing
  <2> QED
    BY <1>1, <1>3, <2>1
       DEF Start, scanVars, writeVars, sensorVars, IInv, TypeOK, Underway, Clearing, Placing, Scanning,
           Storing, Jobs
<1> QED
  BY <1>2, <1>3

\* What is pending between two jobs is lost or takes effect.
LEMMA SettledStep == IInv /\ Settled => IInv'
<1> SUFFICES ASSUME IInv, Settled PROVE IInv'
  OBVIOUS
<1>1. Consistent'
  <2>1. CASE store' = store
    BY <2>1 DEF IInv, Consistent, DistinctIds, Owned, OneRecordPerFinger, OneRecordPerUser
  <2>2. CASE store' = Merge(store, pending)
    BY <2>2, MergeKeeps DEF IInv, Pending
  <2> QED
    BY <2>1, <2>2 DEF Settled
<1>2. Pending'
  BY DEF Settled, Pending, Fits, Replacing
<1> QED
  BY <1>1, <1>2, Records
     DEF Settled, IInv, Consistent, TypeOK, Underway, Clearing, Placing, Scanning, Storing, scanVars

\* The inductive invariant holds of every state that enrolments, deletions,
\* failures and restarts lead to.
THEOREM EnrollmentInductive == Spec => []IInv
<1>1. Init => IInv
  <2> SUFFICES ASSUME Init PROVE IInv
    OBVIOUS
  <2>1. store = Nothing /\ Nothing \in Databases /\ 0 \in 0..MaxStages
    BY EnrollmentAssumption, Records DEF EnrollmentAssumption, Init
  <2>2. store.users = {} /\ store.fingers = {}
    BY <2>1 DEF Nothing
  <2>3. Consistent
    BY <2>1, <2>2 DEF Consistent, DistinctIds, Owned, OneRecordPerFinger, OneRecordPerUser
  <2>4. TypeOK
    BY <2>1 DEF Init, TypeOK
  <2>5. Underway /\ Clearing /\ Placing /\ Pending
    BY DEF Init, Underway, Clearing, Placing, Pending, Fits, Scanning, Storing, Replacing
  <2> QED
    BY <2>3, <2>4, <2>5 DEF IInv
<1>2. IInv /\ [Next]_vars => IInv'
  <2> SUFFICES ASSUME IInv, [Next]_vars PROVE IInv'
    OBVIOUS
  <2>1. CASE StopJob \/ (\E j \in Jobs : Start(j)) \/ UNCHANGED vars
    BY <2>1, BeginStep
  <2>2. CASE Scan
    BY <2>2, ScanStep
  <2>3. CASE Replace
    BY <2>3, LookStep, WriteStep, DeleteStep, CommitStep DEF Replace
  <2>4. CASE Fail \/ Killed
    BY <2>4, GiveUpStep DEF Fail, Killed
  <2>5. CASE \E id \in doomed : DeleteUnheard(id)
    BY <2>5, DeleteStep
  <2>6. CASE Settled
    BY <2>6, SettledStep
  <2> QED
    BY <2>1, <2>2, <2>3, <2>4, <2>5, <2>6 DEF Next
<1> QED
  BY <1>1, <1>2, PTL DEF Spec

-----------------------------------------------------------------------------
(* What follows from it.                                                   *)

\* The database changes by a delete, or when what is pending takes effect: the
\* job's own write at its commit, an earlier job's before a job has looked.
LEMMA WhatChanges ==
    ASSUME IInv, [Next]_vars, store' # store
    PROVE  /\ job' = job
           /\ \/ pc = "deleting" /\ \E id \in doomed : store' = [store EXCEPT !.fingers = {f \in @ : f.id # id}]
              \/ pc \in {"idle", "scan", "commit"} /\ store' = Merge(store, pending)
<1> USE DEF sensorVars, CleaningUp, Commit
<1>1. ASSUME NEW how \in {"failed", "killed"}, GiveUp(how)
      PROVE  job' = job /\ pc \in {"scan", "commit"} /\ store' = Merge(store, pending)
  BY <1>1 DEF GiveUp, Return
<1>2. CASE Scan
  BY <1>1, <1>2
     DEF Scan, CreateEnrollment, Touch, Finger, GoodRound, RoundCleanups, BadRound, StoppedRound,
         TooManyStages, writeVars
<1>3. CASE Replace
  BY <1>3
     DEF Replace, Look, Deleted, FindUser, NewStorage, Cleanups, Delete, NewUser, NewFinger,
         Write, Return, writeVars
<1>4. CASE Fail \/ Killed
  BY <1>1, <1>4 DEF Fail, Killed
<1>5. CASE \E id \in doomed : DeleteUnheard(id)
  BY <1>5 DEF DeleteUnheard, Return
<1>6. CASE Settled
  BY <1>6 DEF Settled
<1>7. CASE StopJob \/ (\E j \in Jobs : Start(j)) \/ UNCHANGED vars
  BY <1>7 DEF StopJob, Start, writeVars, vars
<1> QED
  BY <1>2, <1>3, <1>4, <1>5, <1>6, <1>7 DEF Next

\* Only the end of a deletion, and the commit of a finger, return Ok.
LEMMA WhatIsOk ==
    ASSUME IInv, [Next]_vars, pc # "idle", pc' = "idle", result' = "ok"
    PROVE  /\ job' = job
           /\ \/ pc = "deleting" /\ job.kind = "delete" /\ doomed = {} /\ store' = store
              \/ pc = "commit" /\ pending.fingers # {} /\ store' = Merge(store, pending)
<1> USE DEF sensorVars, Commit
<1>1. CASE Scan
  BY <1>1
     DEF Scan, CreateEnrollment, Touch, Finger, GoodRound, BadRound, StoppedRound, TooManyStages,
         GiveUp, Return
<1>2. CASE Replace
  BY <1>2
     DEF Replace, Look, Deleted, FindUser, NewStorage, Cleanups, Delete, NewUser, NewFinger,
         Write, Return, writeVars
<1>3. CASE Fail \/ Killed \/ \E id \in doomed : DeleteUnheard(id)
  BY <1>3 DEF Fail, Killed, GiveUp, DeleteUnheard, Return
<1>4. CASE StopJob \/ (\E j \in Jobs : Start(j)) \/ Settled \/ UNCHANGED vars
  BY <1>4 DEF StopJob, Start, Settled, vars
<1> QED
  BY <1>1, <1>2, <1>3, <1>4 DEF Next

\* A finger that is pending at a commit is the one the job has just written.
LEMMA OwnFinger ==
    ASSUME IInv, pc = "commit", pending.fingers # {}
    PROVE  /\ Known
           /\ \E id \in RecordIds : pending = FingerRecord(id, user, job.finger)
BY DEF IInv, Pending, StoragePending, StorageRecord, UserPending, UserRecord, FingerPending

\* The finger that is committed is found under the user it was enrolled for.
LEMMA CommittedIsFound ==
    ASSUME IInv, pc = "commit", pending.fingers # {}, store' = Merge(store, pending), job' = job
    PROVE  \E f \in FingersOf(job.sid)' : f.finger = job.finger
<1>1. PICK id \in RecordIds : pending = FingerRecord(id, user, job.finger)
  BY OwnFinger
<1>2. PICK u \in Found(job.sid) : u.id = user
  BY OwnFinger DEF Known
<1> DEFINE record == [id |-> id, owner |-> user, finger |-> job.finger]
<1>3. store'.users = store.users /\ store'.fingers = store.fingers \cup {record}
  BY <1>1 DEF FingerRecord, Merge
<1>4. u \in Found(job.sid)'
  BY <1>2, <1>3 DEF Found
<1>5. record \in FingersOf(job.sid)'
  BY <1>2, <1>3, <1>4 DEF FingersOf
<1> QED
  BY <1>5

\* Every variable keeps to its values, whatever a job meets.
THEOREM EnrollmentTyped == Spec => []TypeOK
BY EnrollmentInductive, PTL DEF IInv

\* Re-enrolling a finger replaces it: for any users, fingers and record ids, a
\* user has at most one record of each finger, also after jobs that failed or
\* were killed between the delete, the write and the commit, and when what they
\* left pending is committed under another job.
THEOREM FingersSingle == Spec => []OneRecordPerFinger
BY EnrollmentInductive, PTL DEF IInv, Consistent

\* find_or_create_user's record is the only one of its identity: a user record
\* that a failed job left pending is committed before the next enrolment looks,
\* and found by it, not made again.
THEOREM UsersSingle == Spec => []OneRecordPerUser
BY EnrollmentInductive, PTL DEF IInv, Consistent

\* An enrolment returns Ok with its finger committed under its user, and a
\* deletion with nothing of its user's left: no early Ok on any path.
THEOREM OkIsDone == Spec => OkMeansDone
<1>1. IInv /\ [Next]_vars =>
        [pc # "idle" /\ pc' = "idle" /\ result' = "ok" =>
           IF job.kind = "enroll" THEN \E f \in FingersOf(job.sid)' : f.finger = job.finger
           ELSE FingersOf(job.sid)' = {}]_vars
  <2> SUFFICES ASSUME IInv, [Next]_vars, pc # "idle", pc' = "idle", result' = "ok"
               PROVE  IF job.kind = "enroll" THEN \E f \in FingersOf(job.sid)' : f.finger = job.finger
                      ELSE FingersOf(job.sid)' = {}
    OBVIOUS
  <2>1. CASE pc = "commit" /\ pending.fingers # {} /\ store' = Merge(store, pending) /\ job' = job
    <3>1. job.kind = "enroll"
      BY <2>1 DEF IInv, Underway, Storing
    <3> QED
      BY <2>1, <3>1, CommittedIsFound
  <2>2. CASE /\ pc = "deleting" /\ job.kind = "delete" /\ doomed = {}
             /\ store' = store /\ job' = job
    <3>1. Doomed = {}
      BY <2>2 DEF IInv, Clearing
    <3>2. FingersOf(job.sid) = {}
      BY <2>2, <3>1 DEF Doomed
    <3> QED
      BY <2>2, <3>2 DEF FingersOf, Found
  <2> QED
    BY <2>1, <2>2, WhatIsOk
<1> QED
  BY <1>1, EnrollmentInductive, PTL DEF Spec, OkMeansDone

\* delete_matching_records takes only the finger the job is for, no other user's
\* and in an enrolment none of the user's others; new_finger adds that finger;
\* and a record left by an earlier job comes only before the job has looked.
THEOREM OthersSafe == Spec => OthersUntouched
<1> DEFINE Removed == \A f \in store.fingers \ store'.fingers : Business(f)
           Added == \A f \in store'.fingers \ store.fingers :
                      IF pc = "commit" THEN Business(f) ELSE pc \in {"idle", "scan"} /\ f \in pending.fingers
<1>1. IInv /\ [Next]_vars => [Removed /\ Added]_vars
  <2> SUFFICES ASSUME IInv, [Next]_vars, store' # store
               PROVE  Removed /\ Added
    OBVIOUS
  <2>1. CASE pc = "deleting" /\ \E id \in doomed : store' = [store EXCEPT !.fingers = {g \in @ : g.id # id}]
    <3>1. PICK id \in doomed : store' = [store EXCEPT !.fingers = {g \in @ : g.id # id}]
      BY <2>1
    <3>2. store'.fingers = {g \in store.fingers : g.id # id}
      BY <3>1 DEF IInv, TypeOK, Databases
    <3>3. PICK g \in FingersOf(job.sid) : g.id = id /\ (job.kind = "enroll" => g.finger = job.finger)
      BY <2>1 DEF IInv, Clearing, Doomed
    <3>4. Business(g)
      BY <3>3 DEF Business, FingersOf, Found
    <3>5. \A f \in store.fingers \ store'.fingers : f = g
      BY <3>2, <3>3 DEF FingersOf, IInv, Consistent, DistinctIds
    <3> QED
      BY <3>2, <3>4, <3>5
  <2>2. CASE pc \in {"idle", "scan", "commit"} /\ store' = Merge(store, pending)
    <3>1. store'.fingers = store.fingers \cup pending.fingers
      BY <2>2 DEF Merge
    <3>2. ASSUME pc = "commit", NEW f \in pending.fingers
          PROVE  Business(f)
      <4>1. PICK id \in RecordIds : pending = FingerRecord(id, user, job.finger)
        BY <3>2, OwnFinger
      <4>2. f.owner = user /\ f.finger = job.finger
        BY <3>2, <4>1 DEF FingerRecord
      <4>3. Known
        BY <3>2, OwnFinger
      <4> QED
        BY <4>2, <4>3 DEF Known, Found, Business
    <3> QED
      BY <2>2, <3>1, <3>2
  <2> QED
    BY <2>1, <2>2, WhatChanges
<1> QED
  BY <1>1, EnrollmentInductive, PTL DEF Spec, OthersUntouched

\* Nothing is deleted or written for an enrolment before the sensor has
\* accepted the template, so a scan that is given up costs no stored finger.
THEOREM UnfinishedStoresNothing == Spec => NothingStoredUnfinished
<1> DEFINE Step == job.kind = "enroll" /\ store' # store =>
                     tid \/ (pc \in {"idle", "scan"} /\ store' = Merge(store, pending))
<1>1. IInv /\ [Next]_vars => [Step]_vars
  BY WhatChanges DEF IInv, Underway, Storing
<1> QED
  BY <1>1, EnrollmentInductive, PTL DEF Spec, NothingStoredUnfinished

=============================================================================
