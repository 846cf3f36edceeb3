------------------------- MODULE FprintDeviceProofs -------------------------
(***************************************************************************)
(* The safety of the device object, for any number of clients, users,      *)
(* operations, calls and events.                                           *)
(***************************************************************************)
EXTENDS FprintDevice, TLAPS

\* A claim in the making has room in CURRENT for the stop it will end with:
\* it was looked for when the claim took the mutex, and CURRENT moves only
\* with the mutex free.
ClaimHasRoom == lock = "claim" => current < MaxCurrent

TypeInv == TypeOK /\ ClaimHasRoom

\* Every variable keeps its type, whatever the clients, threads and relays do.
THEOREM TypeCorrect == Spec => []TypeInv
<1> USE ClientsAssumption, BoundsAssumption DEF ClientsAssumption, BoundsAssumption
<1> USE DEF TypeInv, TypeOK, ClaimHasRoom
<1>1. Init => TypeInv
  <2> SUFFICES ASSUME Init PROVE TypeInv
    OBVIOUS
  <2>1. current \in 0..MaxCurrent
    BY DEF Init
  <2>5. busy \in BOOLEAN
    BY DEF Init
  <2>2. phase \in [Ops -> Phases] /\ outcome \in [Ops -> Outcomes]
    BY DEF Init, Phases, Outcomes
  <2>3. begun \in [Ops -> Starts \cup {NotStarted}]
    BY DEF Init
  <2>4. events \in [Ops -> 0..MaxEvents] /\ relay \in [Ops -> {"waiting", "emitting"}]
    BY DEF Init
  <2> QED
    BY <2>1, <2>2, <2>3, <2>4, <2>5 DEF Init
<1>2. TypeInv /\ [Next]_vars => TypeInv'
  <2> SUFFICES ASSUME TypeInv, [Next]_vars
               PROVE  TypeInv'
    OBVIOUS
  <2> USE DEF claimVars, taskVars, relayVars, callVars, threadRest, finishRest
  <2>1. ASSUME NEW c \in Clients, Client(c)
        PROVE  TypeInv'
    <3>1. CASE Leave(c)
      BY <3>1 DEF Leave
    <3>2. CASE Release(c)
      <4>1. busy' \in BOOLEAN
        BY <3>2 DEF Release
      <4>2. current' \in 0..MaxCurrent
        BY <3>2 DEF Release, StopCurrent, NextOp
      <4> QED
        BY <3>2, <4>1, <4>2 DEF Release
    <3>3. CASE Stop(c)
      <4>1. busy' \in BOOLEAN
        BY <3>3 DEF Stop
      <4>2. current' \in 0..MaxCurrent
        BY <3>3 DEF Stop, StopCurrent, NextOp
      <4> QED
        BY <3>3, <4>1, <4>2 DEF Stop
    <3>4. CASE VerifyStart(c)
      BY <3>4 DEF VerifyStart, StartOp, NextOp, Ops, Starts, Kinds, Phases
    <3>5. CASE EnrollAsk(c)
      BY <3>5 DEF EnrollAsk, Calls, CallKinds
    <3>6. CASE Delete2Ask(c)
      BY <3>6 DEF Delete2Ask, Calls, CallKinds
    <3>7. ASSUME NEW user \in Users, NEW blind \in BOOLEAN, ClaimBegin(c, user, blind)
          PROVE  TypeInv'
      BY <3>7 DEF ClaimBegin, Claims
    <3>8. ASSUME NEW user \in Users, Named(c, user)
          PROVE  TypeInv'
      BY <3>8 DEF Named, Calls, CallKinds
    <3> QED
      BY <2>1, <3>1, <3>2, <3>3, <3>4, <3>5, <3>6, <3>7, <3>8 DEF Client
  <2>2. CASE ClaimEnd
    <3>1. busy' \in BOOLEAN
      BY <2>2 DEF ClaimEnd
    <3>2. current' \in 0..MaxCurrent
      BY <2>2 DEF ClaimEnd, StopCurrent, NextOp
    <3>3. claiming \in Claims
      BY <2>2 DEF ClaimEnd, Resolves, NoClaim
    <3> QED
      BY <2>2, <3>1, <3>2, <3>3 DEF ClaimEnd, Claims, NoClaim
  <2>3. CASE ClaimFail
    BY <2>3 DEF ClaimFail, GiveBack
  <2>4. ASSUME NEW call \in asking \cup jobs, Answer(call)
        PROVE  TypeInv'
    <3>1. CASE EnrollStart(call)
      BY <3>1 DEF EnrollStart, StartOp, NextOp, Ops, Starts, Kinds, Calls, Phases
    <3> QED
      BY <2>4, <3>1 DEF Answer, Delete2Granted, Refused, RunJob
  <2>5. ASSUME NEW op \in Ops, Thread(op)
        PROVE  TypeInv'
    <3> USE DEF LeaveSensor, Return, SendEvent, Phases, InSensor
    <3>1. CASE TakeSensor(op) \/ CannotBegin(op)
      BY <3>1 DEF TakeSensor, CannotBegin, Free, Outcomes, EnrollResults, VerifyResults
    <3>2. CASE Poll(op) \/ NoInterrupt(op) \/ Finger(op)
      BY <3>2 DEF Poll, NoInterrupt, Finger
    <3>3. CASE EnrollRetry(op) \/ EnrollStage(op)
      BY <3>3 DEF EnrollRetry, EnrollStage
    <3>8. CASE EnrollStopped(op)
      BY <3>8 DEF EnrollStopped, Free, Outcomes, EnrollResults
    <3>4. ASSUME NEW result \in EnrollResults, EnrollLast(op, result)
          PROVE  TypeInv'
      BY <3>4 DEF EnrollLast, Free, Outcomes
    <3>5. ASSUME NEW result \in {"verify-match", "verify-no-match"}, VerifyRead(op, result)
          PROVE  TypeInv'
      BY <3>5 DEF VerifyRead, Free, Outcomes, VerifyResults
    <3>6. ASSUME NEW why \in {"bad-scan", "no-finger"}, VerifyUnread(op, why)
          PROVE  TypeInv'
      BY <3>6 DEF VerifyUnread, Free
    <3>7. CASE VerifyAgain(op)
      BY <3>7 DEF VerifyAgain
    <3>9. CASE VerifyStopped(op)
      BY <3>9 DEF VerifyStopped, Outcomes, VerifyResults
    <3> QED
      BY <2>5, <3>1, <3>2, <3>3, <3>4, <3>5, <3>6, <3>7, <3>8, <3>9 DEF Thread, Scan
  <2>6. ASSUME NEW op \in Ops, Relay(op)
        PROVE  TypeInv'
    <3>1. CASE RelayTake(op)
      BY <3>1 DEF RelayTake, RelayReady
    <3>2. CASE RelayEmit(op)
      BY <3>2 DEF RelayEmit
    <3> QED
      BY <2>6, <3>1, <3>2 DEF Relay
  <2>7. ASSUME NEW op \in Ops, Finish(op)
        PROVE  TypeInv'
    <3> USE DEF EndTask, Phases, Outcomes
    <3>1. CASE FinishBegin(op)
      BY <3>1 DEF FinishBegin, KeepLock
    <3>2. CASE FinishSay(op)
      BY <3>2 DEF FinishSay, FreeDevice
    <3>3. CASE FinishSilent(op)
      BY <3>3 DEF FinishSilent
    <3> QED
      BY <2>7, <3>1, <3>2, <3>3 DEF Finish
  <2>8. CASE UNCHANGED vars
    BY <2>8 DEF vars
  <2> QED
    BY <2>1, <2>2, <2>3, <2>4, <2>5, <2>6, <2>7, <2>8 DEF Next
<1> QED
  BY <1>1, <1>2, PTL DEF Spec

-----------------------------------------------------------------------------
(* What the threads and the relays leave alone.                            *)

\* The session mutex is held by the one thread that is inside with_sensor.
OneInSensor == \A op \in Ops : phase[op] \in InSensor <=> sensor = op

deviceVars == <<alive, claimVars, lock, claiming, current, begun, said, callVars>>

\* A step of an operation's thread moves that thread on, inside or outside the
\* sensor, neither starts nor ends its task, and touches no claim. The thread
\* settles on a final retry only when its operation was stopped.
LEMMA ThreadStep ==
    ASSUME TypeInv, OneInSensor, NEW op \in Ops, Thread(op)
    PROVE  /\ UNCHANGED deviceVars
           /\ phase[op] \notin {"none", "outcome", "saying", "ended"}
           /\ phase'[op] \notin {"none", "saying", "ended"}
           /\ \A other \in Ops \ {op} : phase'[other] = phase[other] /\ outcome'[other] = outcome[other]
           /\ outcome'[op] = "verify-retry-scan" =>
                outcome[op] = "verify-retry-scan" \/ ~IsCurrent(op)
           /\ OneInSensor'
<1> DEFINE Goal == /\ UNCHANGED deviceVars
                   /\ phase[op] \notin {"none", "outcome", "saying", "ended"}
                   /\ phase'[op] \notin {"none", "saying", "ended"}
                   /\ \A other \in Ops \ {op} : /\ phase'[other] = phase[other]
                                                /\ outcome'[other] = outcome[other]
                   /\ outcome'[op] = "verify-retry-scan" =>
                        outcome[op] = "verify-retry-scan" \/ ~IsCurrent(op)
<1> SUFFICES Goal /\ OneInSensor'
  BY DEF Goal
<1> USE DEF TypeInv, TypeOK, deviceVars, claimVars, callVars, threadRest, LeaveSensor, Return,
            SendEvent, InSensor
<1>1. Goal
  <2>1. CASE TakeSensor(op)
    BY <2>1 DEF TakeSensor
  <2>2. CASE CannotBegin(op)
    BY <2>2 DEF CannotBegin
  <2>3. CASE Poll(op) \/ NoInterrupt(op) \/ Finger(op)
    BY <2>3 DEF Poll, NoInterrupt, Finger
  <2>4. CASE EnrollRetry(op) \/ EnrollStage(op)
    BY <2>4 DEF EnrollRetry, EnrollStage
  <2>5. CASE EnrollStopped(op)
    BY <2>5 DEF EnrollStopped
  <2>6. ASSUME NEW result \in EnrollResults, EnrollLast(op, result)
        PROVE  Goal
    BY <2>6 DEF EnrollLast, EnrollResults
  <2>7. ASSUME NEW result \in {"verify-match", "verify-no-match"}, VerifyRead(op, result)
        PROVE  Goal
    BY <2>7 DEF VerifyRead
  <2>8. ASSUME NEW why \in {"bad-scan", "no-finger"}, VerifyUnread(op, why)
        PROVE  Goal
    BY <2>8 DEF VerifyUnread
  <2>9. CASE VerifyAgain(op)
    BY <2>9 DEF VerifyAgain
  <2>10. CASE VerifyStopped(op)
    BY <2>10 DEF VerifyStopped, NoLongerWanted
  <2> QED
    BY <2>1, <2>2, <2>3, <2>4, <2>5, <2>6, <2>7, <2>8, <2>9, <2>10 DEF Thread, Scan
<1>2. OneInSensor'
  <2> USE DEF OneInSensor, Free, Ops
  <2>1. CASE TakeSensor(op)
    BY <2>1 DEF TakeSensor
  <2>2. CASE CannotBegin(op)
    BY <2>2 DEF CannotBegin
  <2>3. CASE Poll(op) \/ NoInterrupt(op) \/ Finger(op)
    BY <2>3 DEF Poll, NoInterrupt, Finger
  <2>4. CASE EnrollRetry(op) \/ EnrollStage(op)
    BY <2>4 DEF EnrollRetry, EnrollStage
  <2>5. CASE EnrollStopped(op)
    BY <2>5 DEF EnrollStopped
  <2>6. ASSUME NEW result \in EnrollResults, EnrollLast(op, result)
        PROVE  OneInSensor'
    BY <2>6 DEF EnrollLast
  <2>7. ASSUME NEW result \in {"verify-match", "verify-no-match"}, VerifyRead(op, result)
        PROVE  OneInSensor'
    BY <2>7 DEF VerifyRead
  <2>8. ASSUME NEW why \in {"bad-scan", "no-finger"}, VerifyUnread(op, why)
        PROVE  OneInSensor'
    BY <2>8 DEF VerifyUnread
  <2>9. CASE VerifyAgain(op)
    BY <2>9 DEF VerifyAgain
  <2>10. CASE VerifyStopped(op)
    BY <2>10 DEF VerifyStopped
  <2> QED
    BY <2>1, <2>2, <2>3, <2>4, <2>5, <2>6, <2>7, <2>8, <2>9, <2>10 DEF Thread, Scan
<1> QED
  BY <1>1, <1>2

\* A relay's step moves its own events only.
LEMMA RelayStep ==
    ASSUME NEW op \in Ops, Relay(op)
    PROVE  UNCHANGED <<deviceVars, phase, outcome, sensor>>
BY DEF Relay, RelayTake, RelayEmit, deviceVars, taskVars, claimVars, callVars

-----------------------------------------------------------------------------
(* The inductive invariant.                                                *)

\* begin() hands out numbers nobody has used, and a task has been begun.
Numbering ==
    \A op \in Ops :
        /\ op > current => phase[op] = "none" /\ begun[op] = NotStarted /\ op \notin said
        /\ phase[op] # "none" => begun[op] \in Starts

\* Between finish()'s check and its signal the mutex is held, so nothing moves
\* CURRENT.
SayingHoldsLock ==
    \A op \in Ops : phase[op] = "saying" => lock = "finish" /\ IsCurrent(op)

\* Only a stopped verification ends in a retry, and CURRENT never comes back.
RetryIsPast ==
    \A op \in Ops : outcome[op] = "verify-retry-scan" => op < current

SafetyInv ==
    /\ TypeInv
    /\ Numbering
    /\ SayingHoldsLock
    /\ RetryIsPast
    /\ OneInSensor
    /\ CurrentUnderClaim
    /\ BusyWhileUnsaid
    /\ OnlyForWhoMayBeNamed

\* What every handler that stops what goes on does to the invariant.
LEMMA StopStep ==
    ASSUME SafetyInv, StopCurrent, current < MaxCurrent, lock \in {"free", "claim"},
           busy' = FALSE, UNCHANGED <<begun, taskVars>>
    PROVE  /\ Numbering' /\ SayingHoldsLock' /\ RetryIsPast' /\ OneInSensor'
           /\ CurrentUnderClaim' /\ BusyWhileUnsaid'
<1> USE DEF IsCurrent
<1>0. /\ current \in Nat /\ current' = current + 1
      /\ UNCHANGED <<begun, phase, outcome, said, sensor>>
      /\ \A op \in Ops : op \in Nat
  BY BoundsAssumption
     DEF BoundsAssumption, SafetyInv, TypeInv, TypeOK, Ops, StopCurrent, NextOp, taskVars
<1>1. Numbering'
  BY <1>0 DEF SafetyInv, Numbering
<1>2. SayingHoldsLock'
  BY <1>0 DEF SafetyInv, SayingHoldsLock
<1>3. RetryIsPast'
  BY <1>0 DEF SafetyInv, RetryIsPast
<1>4. OneInSensor'
  BY <1>0 DEF SafetyInv, OneInSensor
<1>5. \A op \in Ops : op = current' => phase'[op] = "none" /\ begun'[op] = NotStarted
  BY <1>0 DEF SafetyInv, Numbering
<1>6. CurrentUnderClaim'
  BY <1>0, <1>5 DEF CurrentUnderClaim
<1>7. BusyWhileUnsaid'
  BY <1>0, <1>5 DEF BusyWhileUnsaid
<1> QED
  BY <1>1, <1>2, <1>3, <1>4, <1>6, <1>7

\* What starting an operation does to it.
LEMMA StartStep ==
    ASSUME SafetyInv, TypeInv', NEW kind \in Kinds, NEW c \in Clients, StartOp(kind, c),
           asking' \subseteq asking, jobs' = jobs
    PROVE  SafetyInv'
<1> USE BoundsAssumption DEF BoundsAssumption, SafetyInv, TypeInv, TypeOK, Ops, StartOp, NextOp, HoldsClaim,
        IsCurrent
<1> DEFINE start == [kind |-> kind, client |-> c, user |-> claimedBy]
<1>0. start \in Starts /\ c = claimOwner
  BY DEF Starts
<1>1. Numbering'
  <2> SUFFICES ASSUME NEW op \in Ops
               PROVE  /\ op > current' => /\ phase'[op] = "none" /\ begun'[op] = NotStarted
                                          /\ op \notin said'
                      /\ phase'[op] # "none" => begun'[op] \in Starts
    BY DEF Numbering
  <2>1. CASE op = current + 1
    BY <1>0, <2>1
  <2>2. CASE op # current + 1
    BY <2>2 DEF Numbering
  <2> QED
    BY <2>1, <2>2
<1>2. SayingHoldsLock'
  BY DEF SayingHoldsLock
<1>3. RetryIsPast'
  BY DEF RetryIsPast
<1>4. OneInSensor'
  BY DEF OneInSensor, InSensor, Numbering
<1>5. CurrentUnderClaim'
  BY DEF CurrentUnderClaim
<1>6. BusyWhileUnsaid'
  BY DEF BusyWhileUnsaid
<1>7. OnlyForWhoMayBeNamed'
  BY <1>0, ClientsAssumption DEF OnlyForWhoMayBeNamed, Whose, ClientsAssumption, NotStarted
<1> QED
  BY <1>1, <1>2, <1>3, <1>4, <1>5, <1>6, <1>7

\* A step of a thread keeps the invariant.
LEMMA ThreadSafe ==
    ASSUME SafetyInv, TypeInv', NEW op \in Ops, Thread(op)
    PROVE  SafetyInv'
<1>1. /\ UNCHANGED deviceVars
      /\ phase[op] \notin {"none", "outcome", "saying", "ended"}
      /\ phase'[op] \notin {"none", "saying", "ended"}
      /\ \A other \in Ops \ {op} : phase'[other] = phase[other] /\ outcome'[other] = outcome[other]
      /\ outcome'[op] = "verify-retry-scan" =>
            outcome[op] = "verify-retry-scan" \/ ~IsCurrent(op)
      /\ OneInSensor'
  BY ThreadStep DEF SafetyInv
<1> USE <1>1 DEF deviceVars, claimVars, callVars, IsCurrent
<1>2. Numbering'
  BY DEF SafetyInv, Numbering
<1>3. SayingHoldsLock'
  BY DEF SafetyInv, SayingHoldsLock
<1>4. RetryIsPast'
  <2>1. current \in Nat /\ op \in Nat /\ ~(op > current)
    BY BoundsAssumption
       DEF BoundsAssumption, SafetyInv, TypeInv, TypeOK, Ops, Numbering
  <2>2. outcome'[op] = "verify-retry-scan" => op < current
    BY <2>1 DEF SafetyInv, RetryIsPast
  <2> QED
    BY <2>2 DEF SafetyInv, RetryIsPast
<1>5. CurrentUnderClaim'
  BY DEF SafetyInv, CurrentUnderClaim
<1>6. BusyWhileUnsaid'
  BY DEF SafetyInv, BusyWhileUnsaid
<1>7. OnlyForWhoMayBeNamed'
  BY DEF SafetyInv, OnlyForWhoMayBeNamed, Whose
<1> QED
  BY <1>1, <1>2, <1>3, <1>4, <1>5, <1>6, <1>7 DEF SafetyInv

\* So does a step of finish().
LEMMA FinishSafe ==
    ASSUME SafetyInv, TypeInv', NEW op \in Ops, Finish(op)
    PROVE  SafetyInv'
<1> USE DEF IsCurrent
<1>1. /\ UNCHANGED <<alive, claimOwner, claimedBy, current, begun, sensor, callVars>>
      /\ phase[op] \in {"outcome", "saying"} /\ phase'[op] \in {"saying", "ended"}
      /\ \A other \in Ops \ {op} : phase'[other] = phase[other] /\ outcome'[other] = outcome[other]
      /\ outcome'[op] \in {outcome[op], None}
  BY DEF Finish, FinishBegin, FinishSay, FinishSilent, EndTask, finishRest, relayVars, SafetyInv,
         TypeInv, TypeOK
<1>2. Numbering'
  <2>1. said' \subseteq said \cup {op}
    BY DEF Finish, FinishBegin, FinishSay, FinishSilent
  <2> QED
    BY <1>1, <2>1 DEF SafetyInv, Numbering
<1>3. SayingHoldsLock' /\ BusyWhileUnsaid'
  <2>1. CASE FinishBegin(op)
    BY <1>1, <2>1 DEF FinishBegin, KeepLock, SafetyInv, SayingHoldsLock, BusyWhileUnsaid
  <2>2. CASE FinishSay(op)
    <3>1. IsCurrent(op) /\ phase'[op] = "ended" /\ busy' = FALSE
      BY <2>2 DEF FinishSay, FreeDevice, EndTask, SafetyInv, SayingHoldsLock, TypeInv, TypeOK
    <3>2. SayingHoldsLock'
      BY <1>1, <3>1 DEF SafetyInv, SayingHoldsLock
    <3>3. BusyWhileUnsaid'
      BY <1>1, <3>1 DEF BusyWhileUnsaid
    <3> QED
      BY <3>2, <3>3
  <2>3. CASE FinishSilent(op)
    <3>1. ~IsCurrent(op) /\ phase'[op] = "ended" /\ UNCHANGED <<busy, lock>>
      BY <2>3 DEF FinishSilent, EndTask, SafetyInv, TypeInv, TypeOK
    <3> QED
      BY <1>1, <3>1 DEF SafetyInv, SayingHoldsLock, BusyWhileUnsaid
  <2> QED
    BY <2>1, <2>2, <2>3 DEF Finish
<1>4. RetryIsPast'
  BY <1>1 DEF SafetyInv, RetryIsPast, None
<1>5. OneInSensor'
  BY <1>1 DEF SafetyInv, OneInSensor, InSensor
<1>6. CurrentUnderClaim'
  BY <1>1 DEF SafetyInv, CurrentUnderClaim
<1>7. OnlyForWhoMayBeNamed'
  BY <1>1 DEF SafetyInv, OnlyForWhoMayBeNamed, Whose, callVars
<1> QED
  BY <1>2, <1>3, <1>4, <1>5, <1>6, <1>7 DEF SafetyInv

\* A call or a claim that neither starts nor stops anything keeps it.
LEMMA QuietSafe ==
    ASSUME SafetyInv, TypeInv', OnlyForWhoMayBeNamed',
           UNCHANGED <<claimVars, current, begun, taskVars>>,
           lock' = lock \/ lock \in {"free", "claim"}
    PROVE  SafetyInv'
<1> USE DEF claimVars, taskVars, IsCurrent
<1>1. Numbering' /\ RetryIsPast' /\ OneInSensor'
  BY DEF SafetyInv, Numbering, RetryIsPast, OneInSensor
<1>2. SayingHoldsLock'
  BY DEF SafetyInv, SayingHoldsLock
<1>3. CurrentUnderClaim' /\ BusyWhileUnsaid'
  BY DEF SafetyInv, CurrentUnderClaim, BusyWhileUnsaid
<1> QED
  BY <1>1, <1>2, <1>3 DEF SafetyInv

\* The invariant is inductive.
LEMMA SafetyInductive ==
    ASSUME SafetyInv, [Next]_vars, TypeInv'
    PROVE  SafetyInv'
<1> USE DEF SafetyInv
<1>1. ASSUME NEW c \in Clients, Client(c)
      PROVE  SafetyInv'
  <2>1. CASE Leave(c)
    BY <2>1, QuietSafe DEF Leave, OnlyForWhoMayBeNamed, Whose, claimVars, callVars
  <2>2. CASE Release(c)
    <3>1. OnlyForWhoMayBeNamed'
      BY <2>2 DEF Release, OnlyForWhoMayBeNamed, Whose, callVars
    <3> QED
      BY <2>2, <3>1, StopStep DEF Release
  <2>3. CASE Stop(c)
    <3>1. OnlyForWhoMayBeNamed'
      BY <2>3 DEF Stop, OnlyForWhoMayBeNamed, Whose, callVars
    <3> QED
      BY <2>3, <3>1, StopStep DEF Stop
  <2>4. CASE VerifyStart(c)
    BY <2>4, StartStep DEF VerifyStart, callVars, Kinds
  <2>5. CASE EnrollAsk(c)
    BY <2>5, QuietSafe DEF EnrollAsk, OnlyForWhoMayBeNamed, Whose, claimVars
  <2>6. CASE Delete2Ask(c)
    <3>1. OnlyForWhoMayBeNamed'
      BY <2>6, ClientsAssumption
         DEF ClientsAssumption, Delete2Ask, HoldsClaim, OnlyForWhoMayBeNamed, Whose, claimVars
    <3> QED
      BY <2>6, <3>1, QuietSafe DEF Delete2Ask
  <2>7. ASSUME NEW user \in Users, NEW blind \in BOOLEAN, ClaimBegin(c, user, blind)
        PROVE  SafetyInv'
    BY <2>7, QuietSafe DEF ClaimBegin, OnlyForWhoMayBeNamed, Whose, claimVars, callVars
  <2>8. ASSUME NEW user \in Users, Named(c, user)
        PROVE  SafetyInv'
    BY <2>8, QuietSafe DEF Named, OnlyForWhoMayBeNamed, Whose, claimVars
  <2> QED
    BY <1>1, <2>1, <2>2, <2>3, <2>4, <2>5, <2>6, <2>7, <2>8 DEF Client
<1>2. CASE ClaimEnd
  <2>1. OnlyForWhoMayBeNamed'
    BY <1>2 DEF ClaimEnd, Resolves, OnlyForWhoMayBeNamed, Whose, callVars
  <2>2. current < MaxCurrent
    BY <1>2 DEF ClaimEnd, TypeInv, ClaimHasRoom
  <2> QED
    BY <1>2, <2>1, <2>2, StopStep DEF ClaimEnd
<1>3. CASE ClaimFail
  BY <1>3, QuietSafe DEF ClaimFail, GiveBack, OnlyForWhoMayBeNamed, Whose, claimVars, callVars
<1>4. ASSUME NEW call \in asking \cup jobs, Answer(call)
      PROVE  SafetyInv'
  <2>1. CASE EnrollStart(call)
    <3>1. call.client \in Clients
      BY <2>1 DEF EnrollStart, TypeInv, TypeOK, Calls
    <3> QED
      BY <2>1, <3>1, StartStep DEF EnrollStart, Kinds
  <2>2. CASE Delete2Granted(call) \/ Refused(call) \/ RunJob(call)
    <3>1. OnlyForWhoMayBeNamed'
      BY <2>2 DEF Delete2Granted, Refused, RunJob, OnlyForWhoMayBeNamed, Whose, claimVars
    <3> QED
      BY <2>2, <3>1, QuietSafe DEF Delete2Granted, Refused, RunJob
  <2> QED
    BY <1>4, <2>1, <2>2 DEF Answer
<1>5. ASSUME NEW op \in Ops, Thread(op)
      PROVE  SafetyInv'
  BY <1>5, ThreadSafe
<1>6. ASSUME NEW op \in Ops, Relay(op)
      PROVE  SafetyInv'
  <2>1. UNCHANGED <<deviceVars, phase, outcome, sensor>>
    BY <1>6, RelayStep
  <2>2. OnlyForWhoMayBeNamed'
    BY <2>1 DEF deviceVars, claimVars, callVars, OnlyForWhoMayBeNamed, Whose
  <2> QED
    BY <2>1, <2>2, QuietSafe DEF deviceVars, taskVars
<1>7. ASSUME NEW op \in Ops, Finish(op)
      PROVE  SafetyInv'
  BY <1>7, FinishSafe
<1>8. CASE UNCHANGED vars
  BY <1>8, QuietSafe DEF vars, OnlyForWhoMayBeNamed, Whose, claimVars, callVars
<1> QED
  BY <1>1, <1>2, <1>3, <1>4, <1>5, <1>6, <1>7, <1>8 DEF Next

-----------------------------------------------------------------------------
(* What follows for every behaviour.                                       *)

\* The inductive invariant holds of every state the daemon reaches.
THEOREM SafetyCorrect == Spec => []SafetyInv
<1>1. Init /\ TypeInv => SafetyInv
  BY ClientsAssumption
     DEF ClientsAssumption, Init, SafetyInv, Numbering, SayingHoldsLock, RetryIsPast, OneInSensor,
         CurrentUnderClaim, BusyWhileUnsaid, OnlyForWhoMayBeNamed, IsCurrent, Ops, Free,
         InSensor, None, NotStarted
<1>2. SafetyInv /\ TypeInv' /\ [Next]_vars => SafetyInv'
  BY SafetyInductive
<1>3. Spec => []TypeInv
  BY TypeCorrect
<1> QED
  BY <1>1, <1>2, <1>3, PTL DEF Spec

\* Every field of DeviceState, and every thread, task and relay, keeps its type.
THEOREM DeviceTyped == Spec => []TypeOK
BY TypeCorrect, PTL DEF TypeInv

\* The operation going on is always one that was begun under the claim that
\* stands: the claim handlers of validity-fprintd.rs stop what they outdate.
THEOREM ClaimOwnsOperation == Spec => []CurrentUnderClaim
BY SafetyCorrect, PTL DEF SafetyInv

\* "busy" and an operation that has yet to say its result come and go
\* together: DeviceState.busy never wedges the device.
THEOREM BusyIsExact == Spec => []BusyWhileUnsaid
BY SafetyCorrect, PTL DEF SafetyInv

\* whose() decides for whom every claim, operation and deletion is.
THEOREM UsersAreNamed == Spec => []OnlyForWhoMayBeNamed
BY SafetyCorrect, PTL DEF SafetyInv

\* verify-retry-scan is never a verification's last word to a client.
THEOREM RetryNeverEnds == Spec => []RetryIsNotFinal
<1>1. SafetyInv => RetryIsNotFinal
  BY BoundsAssumption
     DEF BoundsAssumption, SafetyInv, TypeInv, TypeOK, RetryIsPast, RetryIsNotFinal, IsCurrent, Ops
<1> QED
  BY <1>1, SafetyCorrect, PTL

\* Only finish() says a final signal.
LEMMA OnlyFinishSays ==
    ASSUME SafetyInv, [Next]_vars, said' # said
    PROVE  \E op \in Ops : FinishSay(op)
<1> USE DEF taskVars, finishRest, deviceVars
<1>1. ASSUME NEW c \in Clients, Client(c)
      PROVE  FALSE
  BY <1>1 DEF Client, Leave, Release, Stop, VerifyStart, StartOp, EnrollAsk, Delete2Ask, ClaimBegin,
              Named
<1>2. CASE ClaimEnd \/ ClaimFail
  BY <1>2 DEF ClaimEnd, ClaimFail, GiveBack
<1>3. ASSUME NEW call \in asking \cup jobs, Answer(call)
      PROVE  FALSE
  BY <1>3 DEF Answer, EnrollStart, StartOp, Delete2Granted, Refused, RunJob
<1>4. ASSUME NEW op \in Ops, Thread(op) \/ Relay(op)
      PROVE  FALSE
  BY <1>4, ThreadStep, RelayStep DEF SafetyInv
<1>5. ASSUME NEW op \in Ops, Finish(op)
      PROVE  FinishSay(op)
  BY <1>5 DEF Finish, FinishBegin, FinishSilent
<1>6. CASE UNCHANGED vars
  BY <1>6 DEF vars
<1> QED
  BY <1>1, <1>2, <1>3, <1>4, <1>5, <1>6 DEF Next

\* finish(): the final signal of an operation is said while that operation is
\* the one going on, under the very claim it was begun under.
THEOREM FinalIsHeardByItsClaim == Spec => FinalUnderItsClaim
<1> DEFINE Step == \A op \in said' \ said :
                     /\ IsCurrent(op)
                     /\ begun[op].client = claimOwner /\ begun[op].user = claimedBy
                     /\ busy /\ ~busy'
<1>1. SafetyInv /\ [Next]_vars => [Step]_vars
  <2> SUFFICES ASSUME SafetyInv, [Next]_vars, NEW op \in said' \ said
               PROVE  /\ IsCurrent(op)
                      /\ begun[op].client = claimOwner /\ begun[op].user = claimedBy
                      /\ busy /\ ~busy'
    OBVIOUS
  <2>1. PICK o \in Ops : FinishSay(o)
    BY OnlyFinishSays
  <2>2. op = o /\ phase[op] = "saying" /\ ~busy'
    BY <2>1 DEF FinishSay, FreeDevice
  <2>3. IsCurrent(op) /\ begun[op] # NotStarted
    BY <2>1, <2>2
       DEF SafetyInv, SayingHoldsLock, Numbering, Starts, Kinds, NotStarted, None
  <2> QED
    BY <2>1, <2>2, <2>3 DEF SafetyInv, CurrentUnderClaim, BusyWhileUnsaid
<1> QED
  BY <1>1, SafetyCorrect, PTL DEF Spec, FinalUnderItsClaim

\* While a claim is in the making the one it looked at still is not in its
\* way: the mutex keeps the claim, and a client gone from the bus stays gone.
\* Only a claim that had no answer about the owner may find it there.
ClaimStillFree ==
    lock = "claim" =>
        claimOwner \in {NoClient, claiming.client} \/ claimOwner \notin alive \/ claiming.blind

LEMMA ClaimStillFreeInductive ==
    ASSUME SafetyInv, ClaimStillFree, [Next]_vars
    PROVE  ClaimStillFree'
<1> USE DEF ClaimStillFree
<1>1. ASSUME NEW c \in Clients, Client(c)
      PROVE  ClaimStillFree'
  <2>1. CASE Leave(c)
    BY <2>1 DEF Leave, claimVars
  <2>2. CASE Release(c) \/ Stop(c) \/ VerifyStart(c)
    BY <2>2 DEF Release, Stop, VerifyStart, StartOp
  <2>3. CASE EnrollAsk(c) \/ Delete2Ask(c)
    BY <2>3 DEF EnrollAsk, Delete2Ask
  <2>4. ASSUME NEW user \in Users, NEW blind \in BOOLEAN, ClaimBegin(c, user, blind)
        PROVE  ClaimStillFree'
    BY <2>4 DEF ClaimBegin, Blocked, AsksBus, claimVars
  <2>5. ASSUME NEW user \in Users, Named(c, user)
        PROVE  ClaimStillFree'
    BY <2>5 DEF Named, claimVars
  <2> QED
    BY <1>1, <2>1, <2>2, <2>3, <2>4, <2>5 DEF Client
<1>2. CASE ClaimEnd \/ ClaimFail
  BY <1>2 DEF ClaimEnd, ClaimFail, GiveBack
<1>3. ASSUME NEW call \in asking \cup jobs, Answer(call)
      PROVE  ClaimStillFree'
  BY <1>3 DEF Answer, EnrollStart, StartOp, Delete2Granted, Refused, RunJob, claimVars
<1>4. ASSUME NEW op \in Ops, Thread(op) \/ Relay(op)
      PROVE  ClaimStillFree'
  BY <1>4, ThreadStep, RelayStep DEF SafetyInv, deviceVars, claimVars
<1>5. ASSUME NEW op \in Ops, Finish(op)
      PROVE  ClaimStillFree'
  BY <1>5 DEF Finish, FinishBegin, FinishSay, FinishSilent, KeepLock, finishRest
<1>6. CASE UNCHANGED vars
  BY <1>6 DEF vars, claimVars
<1> QED
  BY <1>1, <1>2, <1>3, <1>4, <1>5, <1>6 DEF Next

\* Only the owner's release and a granted claim change who holds the device.
LEMMA OnlyClaimsMoveTheClaim ==
    ASSUME SafetyInv, [Next]_vars, claimOwner' # claimOwner
    PROVE  claimOwner' = NoClient \/ ClaimEnd
<1> USE DEF claimVars, finishRest, deviceVars
<1>1. ASSUME NEW c \in Clients, Client(c)
      PROVE  claimOwner' = NoClient
  BY <1>1 DEF Client, Leave, Release, Stop, VerifyStart, StartOp, EnrollAsk, Delete2Ask, ClaimBegin,
              Named
<1>2. CASE ClaimFail
  BY <1>2 DEF ClaimFail, GiveBack
<1>3. ASSUME NEW call \in asking \cup jobs, Answer(call)
      PROVE  FALSE
  BY <1>3 DEF Answer, EnrollStart, StartOp, Delete2Granted, Refused, RunJob
<1>4. ASSUME NEW op \in Ops, Thread(op) \/ Relay(op)
      PROVE  FALSE
  BY <1>4, ThreadStep, RelayStep DEF SafetyInv
<1>5. ASSUME NEW op \in Ops, Finish(op)
      PROVE  FALSE
  BY <1>5 DEF Finish, FinishBegin, FinishSay, FinishSilent
<1>6. CASE UNCHANGED vars
  BY <1>6 DEF vars
<1> QED
  BY <1>1, <1>2, <1>3, <1>4, <1>5, <1>6 DEF Next

\* claim(): a live owner's claim goes to another only where the bus gave no
\* answer about that owner, for any clients and however the calls interleave.
THEOREM ClaimIsKept == Spec => ClaimKept
<1> DEFINE Step == (claimOwner \in alive) => claimOwner' \in {claimOwner, NoClient} \/ claiming.blind
<1>1. SafetyInv /\ ClaimStillFree /\ [Next]_vars => [Step]_vars
  <2> SUFFICES ASSUME SafetyInv, ClaimStillFree, [Next]_vars, claimOwner \in alive, ClaimEnd
               PROVE  claimOwner' \in {claimOwner, NoClient} \/ claiming.blind
    BY OnlyClaimsMoveTheClaim
  <2> QED
    BY ClientsAssumption
       DEF ClientsAssumption, ClaimEnd, ClaimStillFree, SafetyInv, TypeInv, TypeOK
<1>2. Init => ClaimStillFree
  BY DEF Init, ClaimStillFree
<1>3. SafetyInv /\ ClaimStillFree /\ [Next]_vars => ClaimStillFree'
  BY ClaimStillFreeInductive
<1> QED
  BY <1>1, <1>2, <1>3, SafetyCorrect, PTL DEF Spec, ClaimKept

\* CURRENT never goes back, and a thread polls for a finger only right after
\* it has found its operation current.
LEMMA CurrentOnlyGrows ==
    ASSUME SafetyInv, [Next]_vars
    PROVE  /\ current' \in {current, NextOp}
           /\ \A op \in Ops : phase'[op] = "polling" /\ phase[op] # "polling" => IsCurrent(op)
<1> DEFINE Goal == /\ current' \in {current, NextOp}
                   /\ \A op \in Ops :
                        phase'[op] = "polling" /\ phase[op] # "polling" => IsCurrent(op)
<1> SUFFICES Goal
  OBVIOUS
<1> USE DEF taskVars, finishRest, deviceVars, SafetyInv, TypeInv, TypeOK
<1>1. ASSUME NEW c \in Clients, Client(c)
      PROVE  Goal
  BY <1>1 DEF Client, Leave, Release, Stop, StopCurrent, VerifyStart, StartOp, EnrollAsk, Delete2Ask,
              ClaimBegin, Named
<1>2. CASE ClaimEnd \/ ClaimFail
  BY <1>2 DEF ClaimEnd, StopCurrent, ClaimFail, GiveBack
<1>3. ASSUME NEW call \in asking \cup jobs, Answer(call)
      PROVE  Goal
  BY <1>3 DEF Answer, EnrollStart, StartOp, Delete2Granted, Refused, RunJob
<1>4. ASSUME NEW op \in Ops, Thread(op)
      PROVE  Goal
  <2>1. current' = current /\ \A other \in Ops \ {op} : phase'[other] = phase[other]
    BY <1>4, ThreadStep
  <2>2. phase'[op] = "polling" /\ phase[op] # "polling" => IsCurrent(op)
    BY <1>4 DEF Thread, Scan, TakeSensor, CannotBegin, Poll, NotStopped, NoInterrupt, Finger,
                EnrollRetry, EnrollStopped, EnrollStage, EnrollLast, VerifyRead, VerifyUnread,
                VerifyAgain, VerifyStopped, Return, LeaveSensor
  <2> QED
    BY <2>1, <2>2
<1>5. ASSUME NEW op \in Ops, Relay(op)
      PROVE  Goal
  BY <1>5, RelayStep
<1>6. ASSUME NEW op \in Ops, Finish(op)
      PROVE  Goal
  BY <1>6 DEF Finish, FinishBegin, FinishSay, FinishSilent, EndTask
<1>7. CASE UNCHANGED vars
  BY <1>7 DEF vars
<1> QED
  BY <1>1, <1>2, <1>3, <1>4, <1>5, <1>6, <1>7 DEF Next

\* capture(): once stopped, always stopped, and no further poll for a finger.
THEOREM StoppedIsForGood == Spec => StoppedTakesNoFinger
<1> DEFINE Step == \A op \in Ops : op <= current /\ ~IsCurrent(op) =>
                     /\ current' # op
                     /\ phase'[op] = "polling" => phase[op] = "polling"
<1>1. SafetyInv /\ [Next]_vars => [Step]_vars
  <2> SUFFICES ASSUME SafetyInv, [Next]_vars, NEW op \in Ops, op <= current, ~IsCurrent(op)
               PROVE  current' # op /\ (phase'[op] = "polling" => phase[op] = "polling")
    OBVIOUS
  <2>1. current \in Nat /\ op \in Nat
    BY BoundsAssumption DEF BoundsAssumption, SafetyInv, TypeInv, TypeOK, Ops
  <2> QED
    BY <2>1, CurrentOnlyGrows DEF NextOp, IsCurrent
<1> QED
  BY <1>1, SafetyCorrect, PTL DEF Spec, StoppedTakesNoFinger

=============================================================================
