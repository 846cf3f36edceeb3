# validity-fprintd in TLA+

validity-fprintd is a driver and an fprintd-compatible D-Bus daemon for
Synaptics/Validity match-on-chip fingerprint sensors, with command line tools
that provision a sensor, upload its firmware and write its calibration
baseline. These modules model what of it is hard to test: calls, threads and
signals that race in the daemon, a sensor session that breaks under a job, and
writes to a sensor that are cut short and tried again. TLC checks them on
small instances; TLAPS proves the central ones for all.

Paths below are relative to the Rust crate's `src/`.

## The system and its state

| Part | Code | State | Operations | Talks to |
|---|---|---|---|---|
| Device object | `bin/validity-fprintd.rs` | `claimed_by`, `claim_owner`, `busy` behind a tokio mutex | claim, release, enroll/verify start and stop, list, delete | clients, polkit and the bus (awaits); threads (`spawn_blocking`); relays (channel) |
| Operation counter | `capture.rs` `CURRENT`, `MINE` | an atomic counter | `begin`, `stop`, `is_current`, `stopped` | read without the mutex by threads and relays |
| Caller rules | `authorize.rs` | none | `whose` | claim, list, delete |
| Session slot | `with_sensor`, `device.rs` | `Option<Sensor>` behind a std mutex | open, use, drop, shutdown | every job |
| Verification | `device.rs`, `capture.rs` | what is on in the sensor | capture, match, identify, look up | record database |
| Enrolment | `enroll.rs` | stage, template, id | rounds, end, replace | record database, `on_stage` |
| Record database | `db.rs` | storage, users, fingers on the sensor | lookup, new, delete | flash transaction (`write_enable`, `call_cleanups`) |
| Flash | `flash.rs` | partitions | read, erase, write, sign | sensor |
| Baseline | `baseline.rs`, `bin/validity-baseline.rs` | partition 6, the calibration cache on disk | inspect, check, write | daemon, through flash and cache |
| Provisioning | `provision.rs`, `bin/validity-provision.rs` | partition table, pairing record | init, factory reset | session (`open_session`) |
| Firmware | `firmware.rs`, `bin/validity-firmware.rs` | partition 2 and its signature | upload | session |
| Pairing | `pairing.rs`, `crypto.rs` | none | parse, inspect, unseal | `open_session` |
| Session protocol | `tls.rs` | transcript, keys, phase | handshake, records | USB |
| USB | `usb.rs` | device handle | open with a reset, cmd, interrupts | sensor |
| Capture algorithms | `capture.rs`, `timeslot.rs`, `tables.rs` | calibration data | average, calibrate, line update | capture programs |
| Bring-up, identification | `init.rs`, `sensor.rs`, `sid.rs`, `blobs.rs` | none | replies parsed | USB |

What is hard, and what each part has to keep:

- The device object awaits in the middle of handlers (polkit, the bus, its own
  signals), and an operation's end is said by a task that runs long after the
  call. It has to keep a claim with its owner, one operation under a claim, and
  a final signal with the claim that asked for it.
- The counter is the only thing that stops a thread. A stop must be seen by the
  finger loop, and never undone.
- The session is shared by jobs that fail in the middle, on a link that may go
  at any time. A job has to leave nothing running in the sensor for the next.
- Enrolment replaces a stored finger by several transactions, each of which
  may fail, be obeyed and not answered, or stay pending when the process dies.
- Baseline and provisioning write flash in many commands and are run again
  after a cut. What is found must be told from what is whole.

Every hazard met in the code is listed, at its line, in `PROJECT.json`.

## Modules

| Module | Stands for | State and code |
|---|---|---|
| `FprintService` | what the daemon promises a client: one claim, one operation, one answer under it | no code of its own: the abstract specification |
| `FprintDevice` | `Device`, its threads, relays and finish tasks | `claimOwner`, `claimedBy`, `busy` = `DeviceState`; `lock` = the tokio mutex across an await; `current` = `CURRENT`; `phase`, `outcome` = thread and task; `events`, `relay` = channel and relay; `asking`, `jobs` = calls waiting for polkit or the sensor |
| `FprintDeviceRefinement` | the mapping of the second onto the first | a turn is a value of `CURRENT`; an answer is a final signal; `blind` is what the bus did not tell claim() |
| `SensorSession` | `with_sensor`, `Sensor::verify` and the commands of all jobs | `slot`, `holder` = the std mutex; `step` = the next command; `on` = what is switched on in the sensor, `unheeded` = of that, what it was told to end and did not; `torn`, `context` = the link |
| `Enrollment` | `enroll()`, the writes of `db.rs`, deletion | `store` committed, `pending` not yet, of this job or an earlier one; `stage`, `tid`, `doomed`, `user` = the locals |
| `Baseline` | the baseline tool and the daemon's cache | `flash` by chunk, `cache`, `asked` = the flags |
| `OpenSession` | `send_init`, `open_session`, `Tls` | `pc`, `asked` = the command to send or the reply to read; `handshake_hash`, `secure_tx`, `secure_rx`, the randoms = fields of `Tls`; `pipe` = replies not read; `sensor` = its side |
| `Timeslot` | `timeslot.rs` and the two patches of `capture.rs` | no state: operators on tables of bytes; a walk is the set of positions it comes to |
| `CaptureProgram` | `Calibration`, `build_cmd_02`, `probe`'s constants | `calib_data`, `cache`, `iteration`; `sent` = the last capture command |
| `Provisioning` | `init_flash`, `factory_reset`, `upload` | `flash` = table, record, payload, signature, the rest |
| `MC...` | instances for TLC | |
| `FprintDeviceProofs`, `FprintRefinementProofs`, `EnrollmentProofs`, `SensorSessionProofs`, `OpenSessionProofs`, `CaptureProgramProofs`, `BaselineProofs`, `ProvisioningProofs` | theorems | |

A handler that holds the mutex without awaiting is one action; one that awaits
with it or lets go of it first is two or more, with what it carries over in a
variable. `Next` groups actions by who takes them: clients, tasks, threads,
relays. What a definition stands for, line by line, is the `map` of
`PROJECT.json`. Definitions commented "a bug" are the mutations that show
that each property depends on the code.

The sensor, polkit, the bus and the disk are external, modelled by what the
code relies on: any reply, an error, or none.

*The bus.* claim() asks it about the owner of the claim that is there, and an
error counts as gone: `ClaimBegin` takes the claim over when the owner has left
the bus, or when the bus gave no answer (`blind`), be the owner there or not.
`ClaimKept` says of a client that is there that it loses its claim in no other
way, and `FprintService` grants a claim on the same two grounds. The service
speaks of claims, operations and final results; stage signals, and the signal
that names the finger a verification selects, are outside it.

*Ending what was begun.* The replies of `0x04`, `0x62` and `0x69 0` are
discarded, so `Ends` lets a sensor that answers obey or not, and the session is
kept either way. A refusal leaves the thing on in `unheeded` until it is started
again or ended by a later command. `SessionIsClean` says that nothing else is
ever left on, and never a transaction, because the reply of `0x1a` is looked at:
a commit that fails ends a round or the job with an error. A capture that was
not ended may scan whoever touches the sensor (`Stray`), and what it scanned is
not matched for the next job.

*Writes.* A record is pending from its `0x47` to the next `0x1a` that is obeyed,
and outlives the job that wrote it. The rounds of a later enrolment send `0x1a`
before they look anything up, and so does every record that is written; that is
why `OneRecordPerFinger` and `OneRecordPerUser` hold although a job may end
between a write and its commit. A deletion sends none: a finger that was left
pending is not seen by it, and may appear after it. Between jobs a reset, a loss
of power or a tool may also commit or drop what is pending (`Settled`). That
lookups see only what is committed is an assumption about the firmware.

The modules meet at narrow places. The rounds of `FprintDevice` are the scans
of `SensorSession` and of `Enrollment`; a stop is a change of `current` in the
first and the loss of `wanted` or the flag `stopped` in the others, and their
jobs are any the device might start. An opened session of `SensorSession` is
a run of `OpenSession` that ends in "open"; the captures of both are commands
that `CaptureProgram` builds. `Baseline` and `Provisioning` describe
flash while the daemon is not running, which claims the same interface.

## Runs

| Run | Instance | Shows |
|---|---|---|
| `device` | 2 clients, one root; 2 users; `CURRENT` to 3; 1 call waiting; 1 event waiting; fair | claims, busy, naming, final signals; that the device implements the service; a stopped operation leaves the sensor; a result is said |
| `enrollment` | 2 identities, 2 fingers, 5 record ids, 2 stages, fair | one record per finger and user; what a success means; others untouched; a stopped enrolment ends |
| `enrollment_forever` | 1 identity, 1 finger | **violated**: bad scans are not bounded |
| `enrollment_stopped` | 1 identity, 1 finger | **violated**: a stopped enrolment still replaces the finger |
| `session` | 2 threads, 2 users, up to 3 records, fair | nothing left on for the next job; a match is of this scan; a stopped job returns |
| `session_dead` | 1 thread | **violated**: a session that failed is kept |
| `session_shutdown` | 1 thread | **violated**: shutdown leaves a context open |
| `open_session` | 3 attempts, 2 replies left unread, 11 pairing records | a session opens when nothing fails; one called open is the one the sensor is in |
| `capture_program` | the 2 supported sensors and their tables | every line is sampled; the program stays one; data is anchored at the code that uses it; calibration is whole |
| `baseline` | 3 records, 3 chunks | no mixed record; cache belongs to flash; success is whole; `--force` is needed |
| `baseline_torn` | 3 records, 3 chunks | **violated**: a torn record is not repaired |
| `provisioning` | 3 key pairs, 2 machines, 2 files, 3 chunks | record fits table; success is paired; repeats heal; only a reset loses |

**Bounds.** `MaxCurrent` 3 is three changes of `CURRENT`: a
client claims, starts, and then stops, releases or loses the claim to the other;
or both claim in turn and the second starts. The threads, relays and final
results of an operation then meet the claim that follows it, but no second
operation under that claim, which takes a fourth; the theorems hold for any bound. `MaxCalls` 1 keeps one call waiting while any others run
to their end, and `MaxEvents` 1 is enough for an event to outlive its operation. `Enrollment`'s
five ids are one more than two users with a finger each need, so that a
replacement never runs out; two stages tell the first from the last.
`SensorSession` has no counter but the writes of one job. Three chunks have a first, a
middle and a last; three records or keys are the old, the new and one for a
run in between. Three attempts let a session follow one that was left open and
one that was cut short; two unread replies are one more than a reader is behind
by a single timeout. The pairing records are what `make_tls_flash` writes, the
same with anything after its end, and one for each way to be unfit. The two
timeslot tables are those of `tables.rs` up to the last call, Enable Rx and
write of a register, and their end: what is between is neither looked for nor
rewritten. `CaptureProgram` has no counter but the iterations of the sensor. The
counters block only what would begin a new operation or wait for one. The
`FprintDevice`, `SensorSession` and `OpenSession` runs
do not check deadlock: with the bound used up and every client gone, the daemon
exited, or the last session closed, the system really is at rest. `Enrollment`,
`Baseline`, `Provisioning` and `CaptureProgram` can always be run again and are
checked for deadlock.

**Fairness.** Only threads and tasks that run on their own are fair: the
kernel runs a thread, tokio polls a task that is ready. The state mutex of
tokio is first in, first out, which is the strong fairness of the finish task.
A client, a finger and polkit may never come; the std mutex promises nothing
to those that wait, so `StoppedReturns` speaks of its holder alone.

**Violations.** The five violated runs each check what a comment of the code
says, against what it does; `PROJECT.json` quotes both under `findings`. Two
more disagreements have no run. A comment in the relay says "A stopped enrolment
says nothing more", but `is_current` is asked before the signal is emitted, and
a stop fits in between (`RelayReady`, `Stop`, `RelayEmit`). And the
repository's README says an unpaired sensor
"can be provisioned from scratch", but one whose provisioning was cut between
`0x4f` and the record has a partition table, which `--init-flash` refuses;
only `--factory-reset` helps.

## Proofs

All hold for every value of the constants under the named assumptions. Most
(`ClientsAssumption`, `BoundsAssumption`, `EnrollmentAssumption`,
`SessionAssumption`, `OpenAssumption`, `BaselineAssumption`,
`ProvisioningAssumption`) say only that markers such as `NoClient` are not
clients and that bounds are numbers. `PairedAssumption` says what it means for a
record to pair the sensor with this host: `build_material` takes it.
`CaptureAssumption` gives the fields of a sensor their types.
`GeometryAssumption` says of the sensors what `probe`'s constants come to: a
frame is whole calibration lines; the key line fits in the table; and of two
sensors, one that is calibrated never needs as much data as another, unless
they are alike in that. There are two: `0x199` is calibrated three times into
13440 bytes, `0xdb` never and would need 21888.
`TableAssumption` is what the driver takes a timeslot table for without a look:
whole instructions from its head to its end; behind the head, calls that call
the beginning of one; one write of the calibration register; repeat counts that
add up to the lines and, multiplied, still fit in a byte; and the instructions it
looks for in what every one of those calls runs. It speaks of the table of
`tables.rs`, never of what is sent. TLC evaluates both on the two sensors. The
tables TLC has are cut, as *Bounds* says: its stack does not bear the walk over
the 776 bytes of one. Computed from the strings of `tables.rs`, the same
conjuncts hold of both whole tables too.

*Device.* No property here is inductive alone: that the current operation is
one of the claim needs that numbers are never used twice (`Numbering`), that a
result is said with the mutex held, so that `current` stands still
(`SayingHoldsLock`), and that a retry is of an operation of the past
(`RetryIsPast`). `SafetyInv` is their conjunction with the invariants the runs
check. `TypeCorrect` comes first; `ThreadStep`, `RelayStep`, `StopStep` and
`StartStep` say what each kind of step can disturb, `SafetyInductive` goes
through `Next`, and each invariant and action property follows.
`ClaimStillFree` adds what claim() still knows when its caller was resolved.

*Refinement.* `DeviceImplementsService` maps each step of the device, under
`SafetyInv`, to a step of the service or to a stutter. It needs that a device
is busy exactly while the current operation has not been said, and what
`ClaimStillFree` says of a claim in the making: the claim there was is its
own, or its owner's who has left, or the bus was asked and did not answer, which
the service has as a step of its own (`LoseSight`).

*Baseline.* The tool looks at the header alone. `HeaderFirst`, that an erased
header means an erased partition, is why that is right: erasing is one
command and chunks are written in order. `Checked` and `InOrder` carry what
the tool has read to where it writes.

*Provisioning.* `Sound(flash)` is what holds between any two commands, of a
sensor no matter how it was left: without a table it is bare; a record is for
the key of the table; a signature is over whole firmware, or over a chunk that
was spoilt. `Pairing` and `Uploading` are what init_flash and upload know at
each place. `ObeyedIsSound` and `ObeyedKeeps` treat every command once, for
the step that goes on and for the one that is interrupted; `FlashStep` shows
there is nothing else.

*Enrolment.* A record is added after what it would double was looked for, by
a transaction that takes effect at a commit, its own or a later one. `Fits` says
of what is pending, whichever job wrote it, that it is under an id that is free
and doubles nothing that is committed; `MergeKeeps` shows that a commit then
leaves the database consistent, whenever it comes, and `Taken` that a delete
made meanwhile does not spoil that. `Clearing`, `Placing` and `Pending` say what
each place of a job still knows: nothing of the finger is left, the user is
unknown, or known under `user`, and an enrolment that looks at the database has
had every earlier write committed by its last round, so that before a commit the
one pending write is its own. The action properties then need only what each
kind of step may change.

*Session.* What is on in the sensor follows from the command that is next:
`Answerable` lets a capture be on only before the finger or the stop, a match
context before the call that releases it, and so on, but for what the sensor was
told to end, and unless the link is torn, which only a new session mends. A
transaction has no such excuse: one whose commit failed in a round may be open
for the rest of the rounds, but a finger is stored only after a round whose
commits were obeyed, and the way out before that is an error. `ToldStep` and
`EndsStep` are the commands that end something, obeyed or not. `Holding` and
`Placed` tie the step to the one thread that holds the session and to its job.
`LeaveStep` is every way out of a job and `GoOn` every command that is obeyed,
refused or lost, so that each command adds one small step. `Seen`, that the
image in the sensor is of the holder's own scan, which a capture that was left
on cannot have replaced, gives `MatchIsOfThisScan`.

*Opening a session.* What a reply does is a fold over its records, and theirs
over their messages. A fold of the community modules is a `CHOOSE` of a function
of the positions left, about which nothing is known until there is one:
`StepsExist` builds it, by induction over a set of numbers (`Least`, `Along`),
and `MessagesPath` and `RecordsPath` give the states it goes through. Along them
`ParseStep` carries what every reply keeps: a transcript only grows, encryption
is only turned on, and only by a change of cipher. `SessionAgrees` is then an
argument about what is left unread. A sensor accepts a flight only for the random
it gave last; that random is new (`Fresh`), so a host that has it has read all
there was (`CaughtUp`), and the reply that turns encryption on, sent with nothing
before it, is the first to be read (`Switching`): either by the host whose
transcript it confirms, or by an attempt whose first command it cannot answer.
`Undisturbed` follows an attempt without faults from the reset to the open
session; `HelloParsed`, `FinishParsed` and `AnswerParsed` unroll what it reads.

*Calibration.* A cache is judged by its length. `CacheOrigin` says that what is
in it came of a calibration that was complete, of some sensor, and may have
been cut; under `GeometryAssumption` one that has the right length is then a
whole one for this sensor. Without the assumption the theorem is false: a
sensor of another kind with less data would be taken for calibrated by the cut
file of a larger one.

*The capture program.* A walk over a table is a recursive function of the
position, so nothing is known of it until there is one: `WalkExists` builds
it from the end of the table back, and `StartsStep` unrolls it. That
instructions do not overlap (`NoneWithin`, `OneInsn`), and that a walk from an
instruction is the rest of the walk (`StartsRest`), follow. `SameCode` is the
relation the rest turns on: two tables with the same bytes where the
instructions of one begin. Then those of the other begin there too, and the
routines are the same (`SameStarts`, `SameRoutine`). `ScaledCode`, `TrimmedCode`
and `BodyTail` show it of each rewriting, because a byte that is rewritten is
never the first of its instruction: so `BodyCode` and `BodyRoutines`
hold of what is sent, and with them `CapturedProgramKept`. An anchor is the nth
hit of a walk, and `SameFound` finds it at the same place in every version of the
table: `CapturedAnchored`. A sum over calls is a `CHOOSE` like a walk; `SumExists`
and `SumScaled` multiply it, and `RepeatsMultiply` treats the byte that wraps to
0 and so stands for 256: `SampledEveryLine`. All three are of the command in
`sent`; `CaptureBuilt` says that it was built from the sensor and the data there
are now.

Every safety invariant and action property the runs check is a theorem. Model-checked
only:

- `StoppedLeavesSensor`, `ResultSaid`, `StoppedEnds` and `StoppedReturns`:
  liveness under fairness is out of TLAPS' reach.

## A session and a program

*Opening a session.* A command is written in one step and its reply read in
another, and a reply not read stays in `pipe`. So an attempt that timed out
leaves its reply to the next, if the reset of that next attempt fails. Each
side folds messages into its own transcript; a Finished is what the other side
makes of its own. `FaultlessOpens` says that the order in which `Tls::open`
folds, derives and turns on encryption agrees with a sensor that keeps to the
protocol, from any state a reset can be made in; `SessionAgrees` that nothing
short of that is called open. A sensor may answer in one record or in three,
refuse any command, or end a transfer before, inside or after any header.

*The capture program.* `patch_timeslot_table` stops at the first opcode it does
not know, multiplies repeat counts in a byte, and moves addresses on by a word;
then the head of the table is replaced and data is anchored at instructions
found before that. `SamplesEveryLine` holds the table that is sent against the
lines the host reads and averages; `ProgramKept` says that only operands were
changed; `AnchorsPointAtCode` that the calls which are sent run through what
was found. All three rest on what the shipped tables are, which
`TableAssumption` spells out: another table could break each of them, and the
code has no check that would tell.

## Not modelled

Cryptographic primitives and the byte layout of records, certificates and
images; the arithmetic of pixels, `bitpack` and the encoding of chunks; parsers
of replies; the read-only tools; packaging. Seconds are left out: a timeout is a
step that may happen. How many contexts a sensor has is a fact of the firmware
that the code does not show. Inside a session a reply that comes too late counts
as a torn link: in the code it would be read as the answer to the next command,
which a session that was dropped after the error never sends, and one that was
kept (a discarded reply, a failed verification) does. The interrupts of an
abandoned capture may stay queued; the next capture expects another one first
and fails, which `CaptureFails` allows without the queue. How a lookup or a
deletion treats what is pending is the firmware's as well. A sensor without a
partition table is taken to be empty, as the repository's README describes one
after a factory reset, so the four erasures of `init_flash` change nothing in
the states `Provisioning` reaches; they are there as steps that can be
interrupted. A panic, and with it a poisoned mutex, is left out.

## Plan

1. Done: the device object, its service and refinement; enrolment; the session;
   baseline; provisioning and firmware; opening a session; the capture program;
   proofs of all of them but what is listed as model-checked only.
2. The encodings left as recursive functions against reference definitions, on
   bounded inputs: `split_chunks`/`merge_chunks`, `bitpack`, `parse_dict`,
   `read_flash_all` at its boundaries.
3. `SensorSession` and `FprintDevice` composed, for the mutex a stopped
   enrolment holds against the next operation.
