---------------------------- MODULE FprintDevice ----------------------------
(***************************************************************************)
(* The D-Bus device object of validity-fprintd: who holds the claim, which *)
(* operation is going on, the blocking thread that does it, the task that  *)
(* relays its stage events and the task that says how it ended.            *)
(*                                                                         *)
(* Every handler takes the tokio mutex around DeviceState (`lock` here).   *)
(* A handler that awaits nothing while it holds the mutex is one action; a *)
(* handler that awaits while holding it (claim, finish) takes it in one    *)
(* action and gives it back in another, and one that gives it up before an *)
(* await (enroll_start, delete_enrolled_fingers2) is two actions with a    *)
(* record in `asking` between them. The counter CURRENT of capture.rs is   *)
(* read without the mutex by the threads and the relays.                   *)
(*                                                                         *)
(* The sensor itself is abstracted to the rounds of its scans, and the     *)
(* std mutex around its session to `sensor`. Names, logging and which      *)
(* finger is meant are left out. A bus name is never reused: a client that *)
(* has left the bus does not come back.                                    *)
(***************************************************************************)
EXTENDS Naturals, FiniteSets

CONSTANTS
    Clients,        \* unique bus names
    Users,          \* login names
    RootClients,    \* the clients whose process runs with uid 0
    UserOf,         \* the login name of each client's process
    NoClient,       \* claim_owner = None
    NoUser,         \* claimed_by = None
    MaxCurrent,     \* bound on the counter CURRENT
    MaxCalls,       \* bound on the calls in flight past their handler's lock
    MaxEvents       \* bound on the stage events waiting in one relay's channel

ASSUME ClientsAssumption ==
    /\ RootClients \subseteq Clients
    /\ UserOf \in [Clients -> Users]
    /\ NoClient \notin Clients
    /\ NoUser \notin Users
ASSUME BoundsAssumption ==
    MaxCurrent \in Nat /\ MaxCalls \in Nat /\ MaxEvents \in Nat

Ops == 1..MaxCurrent       \* an operation is the value begin() gave it
Free == 0                  \* nobody holds the sensor; no operation is numbered 0
Kinds == {"enroll", "verify"}
EnrollResults == {"enroll-completed", "enroll-failed"}
VerifyResults == {"verify-match", "verify-no-match", "verify-retry-scan",
                  "verify-unknown-error"}
None == "none"
Outcomes == EnrollResults \cup VerifyResults \cup {None}

CallKinds == {"enroll", "named", "delete2"}
Calls == [kind : CallKinds, client : Clients, user : Users \cup {NoUser}]
Claims == [client : Clients, user : Users, blind : BOOLEAN]
NoClaim == [client |-> NoClient, user |-> NoUser, blind |-> FALSE]
Starts == [kind : Kinds, client : Clients, user : Users]
NotStarted == [kind |-> None, client |-> NoClient, user |-> NoUser]

\* Where the task and the blocking thread of an operation are.
InSensor == {"round", "polling", "reading"}  \* inside with_sensor's closure
Phases == {"none", "queued", "bad-scan", "no-finger", "outcome", "saying",
           "ended"} \cup InSensor

VARIABLES
    alive,        \* clients on the bus
    claimOwner,   \* DeviceState.claim_owner
    claimedBy,    \* DeviceState.claimed_by
    busy,         \* DeviceState.busy
    lock,         \* who holds the state mutex across an await
    claiming,     \* what the claim() that holds it asked for, and whether the bus
                  \* told it of the owner or could not be asked (blind)
    current,      \* CURRENT
    begun,        \* what each operation was begun as, by whom and for whom
    phase,        \* where each operation's task and thread are
    outcome,      \* what each operation's thread returned, until finish()
    said,         \* the operations whose final signal was emitted
    events,       \* stage events waiting in each operation's channel
    relay,        \* whether each relay has passed its check and is emitting
    asking,       \* calls awaiting polkit
    jobs,         \* list and delete calls awaiting the sensor
    sensor        \* holder of the session mutex

claimVars == <<claimOwner, claimedBy, busy>>
taskVars == <<phase, outcome, said, sensor>>
relayVars == <<events, relay>>
callVars == <<asking, jobs>>
vars == <<alive, claimVars, lock, claiming, current, begun, taskVars, relayVars, callVars>>

TypeOK ==
    /\ alive \subseteq Clients
    /\ claimOwner \in Clients \cup {NoClient}
    /\ claimedBy \in Users \cup {NoUser}
    /\ busy \in BOOLEAN
    /\ lock \in {"free", "claim", "finish"}
    /\ claiming \in Claims \cup {NoClaim}
    /\ current \in 0..MaxCurrent
    /\ begun \in [Ops -> Starts \cup {NotStarted}]
    /\ phase \in [Ops -> Phases]
    /\ outcome \in [Ops -> Outcomes]
    /\ said \subseteq Ops
    /\ events \in [Ops -> 0..MaxEvents]
    /\ relay \in [Ops -> {"waiting", "emitting"}]
    /\ asking \subseteq Calls
    /\ jobs \subseteq Calls
    /\ sensor \in {Free} \cup Ops

Init ==
    /\ alive = Clients
    /\ claimOwner = NoClient /\ claimedBy = NoUser /\ busy = FALSE
    /\ lock = "free" /\ claiming = NoClaim
    /\ current = 0
    /\ begun = [op \in Ops |-> NotStarted]
    /\ phase = [op \in Ops |-> "none"]
    /\ outcome = [op \in Ops |-> None]
    /\ said = {}
    /\ events = [op \in Ops |-> 0]
    /\ relay = [op \in Ops |-> "waiting"]
    /\ asking = {} /\ jobs = {}
    /\ sensor = Free

-----------------------------------------------------------------------------
(* The claim.                                                              *)

\* A caller may name itself; only root may name anyone else.
Whose(c, user) == user = UserOf[c] \/ c \in RootClients

HoldsClaim(c) == claimOwner = c

IsCurrent(op) == current = op

NeverBlocked(c) == FALSE             \* a bug: the last to claim wins

\* Another client's claim is in the way, and the bus is asked about that client.
AsksBus(c) == claimOwner \notin {NoClient, c}

\* It blocks only while that client is on the bus ...
Blocked(c) == AsksBus(c) /\ claimOwner \in alive

\* The value CURRENT has after begin() or stop().
NextOp == current + 1

StopForgotten == UNCHANGED current   \* a bug: the handler does not stop what goes on
StopCurrent == current' = NextOp     \* capture::stop()

\* A client leaves the bus, at any moment.
Leave(c) ==
    /\ c \in alive
    /\ alive' = alive \ {c}
    /\ UNCHANGED <<claimVars, lock, claiming, current, begun, taskVars, relayVars, callVars>>

\* ... and "errors are treated as gone": a question the bus does not answer
\* takes the owner out of the way too, there or not. claim() takes the state
\* mutex, and keeps it while the bus resolves the caller.
ClaimBegin(c, user, blind) ==
    /\ c \in alive
    /\ lock = "free"
    /\ IF blind THEN AsksBus(c) ELSE ~Blocked(c)
    /\ current < MaxCurrent
    /\ lock' = "claim"
    /\ claiming' = [client |-> c, user |-> user, blind |-> blind]
    /\ UNCHANGED <<alive, claimVars, current, begun, taskVars, relayVars, callVars>>

MayClaimForAnyone == claiming.client \in alive   \* a bug: whose() not asked
Resolves == claiming.client \in alive /\ Whose(claiming.client, claiming.user)

\* The caller resolves: the claim is its, and whatever was going on stops.
ClaimEnd ==
    /\ lock = "claim"
    /\ Resolves
    /\ claimOwner' = claiming.client
    /\ claimedBy' = claiming.user
    /\ busy' = FALSE
    /\ StopCurrent
    /\ lock' = "free"
    /\ claiming' = NoClaim
    /\ UNCHANGED <<alive, begun, taskVars, relayVars, callVars>>

KeepsTheMutex == UNCHANGED lock      \* a bug: the error path keeps the mutex
GiveBack == lock' = "free"

\* The caller does not resolve, or may not act for that user.
ClaimFail ==
    /\ lock = "claim"
    /\ GiveBack
    /\ claiming' = NoClaim
    /\ UNCHANGED <<alive, claimVars, current, begun, taskVars, relayVars, callVars>>

Release(c) ==
    /\ c \in alive
    /\ lock = "free"
    /\ HoldsClaim(c)
    /\ current < MaxCurrent
    /\ claimOwner' = NoClient
    /\ claimedBy' = NoUser
    /\ busy' = FALSE
    /\ StopCurrent
    /\ UNCHANGED <<alive, lock, claiming, begun, taskVars, relayVars, callVars>>

\* EnrollStop and VerifyStop: the same body, whichever operation is going on.
Stop(c) ==
    /\ c \in alive
    /\ lock = "free"
    /\ HoldsClaim(c)
    /\ current < MaxCurrent
    /\ busy' = FALSE
    /\ StopCurrent
    /\ UNCHANGED <<alive, claimOwner, claimedBy, lock, claiming, begun, taskVars,
                   relayVars, callVars>>

-----------------------------------------------------------------------------
(* Starting an operation, and the calls that wait for polkit or the sensor. *)

\* The common end of enroll_start and verify_start, the state mutex held.
StartOp(kind, c) ==
    /\ lock = "free"
    /\ HoldsClaim(c)
    /\ claimedBy # NoUser
    /\ ~busy
    /\ current < MaxCurrent
    /\ busy' = TRUE
    /\ current' = NextOp
    /\ begun' = [begun EXCEPT ![NextOp] =
                    [kind |-> kind, client |-> c, user |-> claimedBy]]
    /\ phase' = [phase EXCEPT ![NextOp] = "queued"]
    /\ UNCHANGED <<alive, claimOwner, claimedBy, lock, claiming, outcome, said, sensor,
                   relayVars>>

VerifyStart(c) ==
    /\ c \in alive
    /\ StartOp("verify", c)
    /\ UNCHANGED callVars

RoomForCall == Cardinality(asking) + Cardinality(jobs) < MaxCalls

\* The calls that look at the claim and then ask polkit, up to that await.
EnrollAsk(c) ==
    /\ c \in alive
    /\ lock = "free"
    /\ HoldsClaim(c)
    /\ RoomForCall
    /\ asking' = asking \cup {[kind |-> "enroll", client |-> c, user |-> NoUser]}
    /\ UNCHANGED <<alive, claimVars, lock, claiming, current, begun, taskVars, relayVars, jobs>>

\* The user is read here, under the claim, and used after polkit answers.
Delete2Ask(c) ==
    /\ c \in alive
    /\ lock = "free"
    /\ HoldsClaim(c)
    /\ claimedBy # NoUser
    /\ RoomForCall
    /\ asking' = asking \cup {[kind |-> "delete2", client |-> c, user |-> claimedBy]}
    /\ UNCHANGED <<alive, claimVars, lock, claiming, current, begun, taskVars, relayVars, jobs>>

\* ListEnrolledFingers and DeleteEnrolledFingers, once the user resolves and,
\* for a deletion, polkit agrees: neither looks at the claim.
Named(c, user) ==
    /\ c \in alive
    /\ Whose(c, user)
    /\ RoomForCall
    /\ jobs' = jobs \cup {[kind |-> "named", client |-> c, user |-> user]}
    /\ UNCHANGED <<alive, claimVars, lock, claiming, current, begun, taskVars, relayVars, asking>>

\* polkit says yes to an enrolment: the claim is looked at again.
EnrollStart(call) ==
    /\ call \in asking /\ call.kind = "enroll"
    /\ StartOp("enroll", call.client)
    /\ asking' = asking \ {call}
    /\ UNCHANGED jobs

\* polkit says yes to a deletion, which goes on to the sensor: the claim is
\* not looked at again.
Delete2Granted(call) ==
    /\ call \in asking /\ call.kind = "delete2"
    /\ asking' = asking \ {call}
    /\ jobs' = jobs \cup {call}
    /\ UNCHANGED <<alive, claimVars, lock, claiming, current, begun, taskVars, relayVars>>

\* polkit says no, or cannot be asked; or an enrolment finds the claim gone
\* or an operation running.
Refused(call) ==
    /\ call \in asking
    /\ asking' = asking \ {call}
    /\ UNCHANGED <<alive, claimVars, lock, claiming, current, begun, taskVars, relayVars, jobs>>

\* A list or delete runs under the session mutex, start to end.
RunJob(call) ==
    /\ call \in jobs
    /\ sensor = Free
    /\ jobs' = jobs \ {call}
    /\ UNCHANGED <<alive, claimVars, lock, claiming, current, begun, taskVars, relayVars, asking>>

-----------------------------------------------------------------------------
(* The blocking thread of an operation.                                    *)

Is(op, kind) == begun[op].kind = kind

\* The closure given to with_sensor returns: the session mutex is released.
LeaveSensor(op, ph) ==
    /\ sensor' = Free
    /\ phase' = [phase EXCEPT ![op] = ph]

\* The thread is done, with the result the task will want to say.
Return(op, result) ==
    /\ LeaveSensor(op, "outcome")
    /\ outcome' = [outcome EXCEPT ![op] = result]

SendEvent(op) ==
    /\ events[op] < MaxEvents
    /\ events' = [events EXCEPT ![op] = @ + 1]

threadRest == <<alive, claimVars, lock, claiming, current, begun, said, relay, callVars>>

\* with_sensor gets the session mutex. A verification waits for a finger at
\* once; an enrolment opens its context on the sensor first.
TakeSensor(op) ==
    /\ phase[op] = "queued"
    /\ sensor = Free
    /\ sensor' = op
    /\ phase' = [phase EXCEPT ![op] = "round"]
    /\ UNCHANGED <<threadRest, outcome, events>>

\* with_sensor cannot open a session, the user has no uid, or the enrolment
\* cannot be created.
CannotBegin(op) ==
    /\ phase[op] = "queued"
    /\ sensor = Free
    /\ Return(op, IF Is(op, "enroll") THEN "enroll-failed" ELSE "verify-unknown-error")
    /\ UNCHANGED <<threadRest, events>>

NeverLooks(op) == TRUE               \* a bug: capture() does not look whether it was stopped
NotStopped(op) == IsCurrent(op)

\* capture() looks whether it was stopped, then polls for 100 ms: a finger
\* may come in that poll, or not, or nothing may be left of the 30 s.
Poll(op) ==
    /\ phase[op] = "round"
    /\ NotStopped(op)
    /\ phase' = [phase EXCEPT ![op] = "polling"]
    /\ UNCHANGED <<threadRest, outcome, sensor, events>>

NoInterrupt(op) ==
    /\ phase[op] = "polling"
    /\ phase' = [phase EXCEPT ![op] = "round"]
    /\ UNCHANGED <<threadRest, outcome, sensor, events>>

Finger(op) ==
    /\ phase[op] = "polling"
    /\ phase' = [phase EXCEPT ![op] = "reading"]
    /\ UNCHANGED <<threadRest, outcome, sensor, events>>

\* A round of an enrolment fails, on no finger too: ask for another scan.
EnrollRetry(op) ==
    /\ Is(op, "enroll") /\ phase[op] \in InSensor
    /\ IsCurrent(op)
    /\ SendEvent(op)
    /\ phase' = [phase EXCEPT ![op] = "round"]
    /\ UNCHANGED <<threadRest, outcome, sensor>>

\* A round fails, and the enrolment was stopped.
EnrollStopped(op) ==
    /\ Is(op, "enroll") /\ phase[op] \in InSensor
    /\ ~IsCurrent(op)
    /\ Return(op, "enroll-failed")
    /\ UNCHANGED <<threadRest, events>>

\* A scan is accepted and the sensor wants more, stopped or not.
EnrollStage(op) ==
    /\ Is(op, "enroll") /\ phase[op] = "reading"
    /\ SendEvent(op)
    /\ phase' = [phase EXCEPT ![op] = "round"]
    /\ UNCHANGED <<threadRest, outcome, sensor>>

\* The last scan is accepted: the finger is stored, or storing it fails.
EnrollLast(op, result) ==
    /\ Is(op, "enroll") /\ phase[op] = "reading"
    /\ SendEvent(op)
    /\ Return(op, result)
    /\ UNCHANGED threadRest

\* The sensor has matched the scan, or has not.
VerifyRead(op, result) ==
    /\ Is(op, "verify") /\ phase[op] = "reading"
    /\ Return(op, result)
    /\ UNCHANGED <<threadRest, events>>

\* The capture fails - stopped, unreadable, or no finger in time: a retry,
\* decided upon after the session mutex is released.
VerifyUnread(op, why) ==
    /\ Is(op, "verify") /\ phase[op] \in InSensor
    /\ why = "no-finger" => phase[op] = "polling"
    /\ LeaveSensor(op, why)
    /\ UNCHANGED <<threadRest, outcome, events>>

VerifyAgain(op) ==
    /\ phase[op] \in {"bad-scan", "no-finger"}
    /\ IsCurrent(op)
    /\ IF phase[op] = "bad-scan" THEN SendEvent(op) ELSE UNCHANGED events
    /\ phase' = [phase EXCEPT ![op] = "queued"]
    /\ UNCHANGED <<threadRest, outcome, sensor>>

\* a bug: a verification gives up when no finger comes in time
GivesUpRetrying(op) == ~IsCurrent(op) \/ phase[op] = "no-finger"
NoLongerWanted(op) == ~IsCurrent(op)

VerifyStopped(op) ==
    /\ phase[op] \in {"bad-scan", "no-finger"}
    /\ NoLongerWanted(op)
    /\ phase' = [phase EXCEPT ![op] = "outcome"]
    /\ outcome' = [outcome EXCEPT ![op] = "verify-retry-scan"]
    /\ UNCHANGED <<threadRest, sensor, events>>

-----------------------------------------------------------------------------
(* The relay of stage events, and finish().                                *)

RelayEager(op) == relay[op] = "waiting"   \* a bug: takes from an empty channel
RelayReady(op) == events[op] > 0 /\ relay[op] = "waiting"

\* The relay receives an event and looks whether its operation goes on ...
RelayTake(op) ==
    /\ RelayReady(op)
    /\ events' = [events EXCEPT ![op] = @ - 1]
    /\ relay' = [relay EXCEPT ![op] = IF IsCurrent(op) THEN "emitting" ELSE "waiting"]
    /\ UNCHANGED <<alive, claimVars, lock, claiming, current, begun, taskVars, callVars>>

\* ... and then emits the signal, holding no lock in between.
RelayEmit(op) ==
    /\ relay[op] = "emitting"
    /\ relay' = [relay EXCEPT ![op] = "waiting"]
    /\ UNCHANGED <<alive, claimVars, lock, claiming, current, begun, taskVars, events, callVars>>

finishRest == <<alive, claimOwner, claimedBy, claiming, current, begun, sensor, relayVars,
                callVars>>

EndTask(op) ==
    /\ phase' = [phase EXCEPT ![op] = "ended"]
    /\ outcome' = [outcome EXCEPT ![op] = None]

SaidUnlocked == UNCHANGED lock       \* a bug: the mutex released before the signal
KeepLock == lock' = "finish"

\* finish() takes the state mutex, finds its operation current, and keeps the
\* mutex while the signal is sent.
FinishBegin(op) ==
    /\ phase[op] = "outcome"
    /\ lock = "free"
    /\ IsCurrent(op)
    /\ KeepLock
    /\ phase' = [phase EXCEPT ![op] = "saying"]
    /\ UNCHANGED <<finishRest, outcome, busy, said>>

StaysBusy == UNCHANGED busy          \* a bug: the device is not freed
FreeDevice == busy' = FALSE

FinishSay(op) ==
    /\ phase[op] = "saying"
    /\ said' = said \cup {op}
    /\ FreeDevice
    /\ lock' = "free"
    /\ EndTask(op)
    /\ UNCHANGED finishRest

\* One that was stopped, released or replaced says nothing.
FinishSilent(op) ==
    /\ phase[op] = "outcome"
    /\ lock = "free"
    /\ ~IsCurrent(op)
    /\ EndTask(op)
    /\ UNCHANGED <<finishRest, busy, said, lock>>

-----------------------------------------------------------------------------
Client(c) ==
    \/ Leave(c) \/ Release(c) \/ Stop(c) \/ VerifyStart(c) \/ EnrollAsk(c) \/ Delete2Ask(c)
    \/ \E user \in Users, blind \in BOOLEAN : ClaimBegin(c, user, blind)
    \/ \E user \in Users : Named(c, user)

Answer(call) == EnrollStart(call) \/ Delete2Granted(call) \/ Refused(call) \/ RunJob(call)

Scan(op) ==
    \/ Poll(op) \/ NoInterrupt(op) \/ Finger(op)
    \/ EnrollRetry(op) \/ EnrollStopped(op) \/ EnrollStage(op)
    \/ \E result \in EnrollResults : EnrollLast(op, result)
    \/ \E result \in {"verify-match", "verify-no-match"} : VerifyRead(op, result)
    \/ \E why \in {"bad-scan", "no-finger"} : VerifyUnread(op, why)

Thread(op) == TakeSensor(op) \/ CannotBegin(op) \/ Scan(op) \/ VerifyAgain(op) \/ VerifyStopped(op)

Relay(op) == RelayTake(op) \/ RelayEmit(op)

Finish(op) == FinishBegin(op) \/ FinishSay(op) \/ FinishSilent(op)

Next ==
    \/ \E c \in Clients : Client(c)
    \/ ClaimEnd \/ ClaimFail
    \/ \E call \in asking \cup jobs : Answer(call)
    \/ \E op \in Ops : Thread(op) \/ Relay(op) \/ Finish(op)

Spec == Init /\ [][Next]_vars

\* The bus answers a claim; tokio polls every task; its mutex is first in,
\* first out, so one who waits for it gets it; the kernel runs every thread.
Fairness ==
    /\ WF_vars(ClaimEnd \/ ClaimFail)
    /\ \A op \in Ops :
        /\ WF_vars(Scan(op))
        /\ WF_vars(VerifyAgain(op) \/ VerifyStopped(op))
        /\ WF_vars(Relay(op))
        /\ SF_vars(FinishBegin(op) \/ FinishSilent(op))
        /\ WF_vars(FinishSay(op))

FairSpec == Spec /\ Fairness

-----------------------------------------------------------------------------
(* Properties.                                                             *)

\* The operation going on was begun under the claim that stands now: whoever
\* claims, releases or takes over the device has stopped what was going on.
CurrentUnderClaim ==
    \A op \in Ops : IsCurrent(op) /\ begun[op] # NotStarted =>
        begun[op].client = claimOwner /\ begun[op].user = claimedBy

\* The device is busy exactly while the operation going on has yet to say how
\* it ended, and that operation still has a task that will: "busy" can
\* neither outlive its operation and lock everyone out, nor be lost under one.
BusyWhileUnsaid ==
    busy <=> \E op \in Ops : /\ IsCurrent(op)
                             /\ phase[op] \notin {"none", "ended"}

\* An operation, a deletion and a claim are for a user their client may name.
OnlyForWhoMayBeNamed ==
    /\ claimOwner # NoClient => Whose(claimOwner, claimedBy)
    /\ \A op \in Ops : begun[op] # NotStarted => Whose(begun[op].client, begun[op].user)
    /\ \A call \in asking \cup jobs : call.kind # "enroll" => Whose(call.client, call.user)

\* A final signal is said for the operation going on, under the very claim it
\* was begun under, and frees the device: a match is never heard by another
\* client than the one that asked, nor for another user.
FinalUnderItsClaim ==
    [][\A op \in said' \ said :
        /\ IsCurrent(op)
        /\ begun[op].client = claimOwner /\ begun[op].user = claimedBy
        /\ busy /\ ~busy']_vars

\* "Only a stopped one gets here, and it says nothing": a verification never
\* ends by telling its client to scan again.
RetryIsNotFinal ==
    \A op \in Ops : outcome[op] = "verify-retry-scan" => ~IsCurrent(op)

\* A claim passes from a client that is on the bus to another only by a claim()
\* that asked the bus about it and had no answer ("failing open"): whatever
\* happens between the question and the claim, a live owner else gives its
\* claim up or claims again.
ClaimKept ==
    [][(claimOwner \in alive) => claimOwner' \in {claimOwner, NoClient} \/ claiming.blind]_vars

\* "Stopped" holds for good: once an operation is not the current one no
\* later call makes it so again, and it never has a finger read that it was
\* not already polling for.
StoppedTakesNoFinger ==
    [][\A op \in Ops : op <= current /\ ~IsCurrent(op) =>
        /\ current' # op
        /\ phase'[op] = "polling" => phase[op] = "polling"]_vars

\* A stopped operation gives the sensor up: "its capture gives up waiting for
\* a finger within one poll".
StoppedLeavesSensor ==
    \A op \in Ops : sensor = op /\ ~IsCurrent(op) ~> sensor # op

\* A result is said, unless the operation is stopped first: the device does
\* not stay busy behind a thread that has returned.
ResultSaid ==
    \A op \in Ops : phase[op] = "outcome" /\ IsCurrent(op) ~> op \in said \/ ~IsCurrent(op)

=============================================================================
