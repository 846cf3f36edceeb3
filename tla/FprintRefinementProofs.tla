----------------------- MODULE FprintRefinementProofs -----------------------
(***************************************************************************)
(* The device object implements FprintService, for all constants: its      *)
(* initial state is one of the service's, and each of its steps is a step  *)
(* of the service or changes nothing the service shows.                    *)
(***************************************************************************)
EXTENDS FprintDeviceRefinement, FprintDeviceProofs

serviceState == <<alive, claiming.blind, claimOwner, claimedBy, current, RunningKind, Answers>>

\* A step that touches neither the claim, CURRENT nor the said signals shows
\* nothing to the service.
LEMMA Unseen ==
    ASSUME UNCHANGED <<alive, claimVars, claiming, current, begun, said>>
    PROVE  UNCHANGED serviceState
BY DEF serviceState, RunningKind, Answers, claimVars

\* A claim in the making shows the service only whether the bus told of the
\* owner.
LEMMA SightSeen ==
    ASSUME claiming'.blind \in BOOLEAN, UNCHANGED <<alive, claimVars, current, begun, said>>
    PROVE  Service!LoseSight
BY DEF Service!LoseSight, RunningKind, Answers, claimVars

\* A stop is seen as a new turn in which nothing runs.
LEMMA StopSeen ==
    ASSUME StopCurrent, busy' = FALSE, UNCHANGED <<begun, said>>
    PROVE  current' = current + 1 /\ RunningKind' = None /\ Answers' = Answers
BY DEF StopCurrent, NextOp, RunningKind, Answers

\* Nothing runs, for the service, just when the device is not busy.
LEMMA RunningWhileBusy ==
    ASSUME SafetyInv, busy
    PROVE  /\ current \in Ops /\ begun[current] \in Starts
           /\ RunningKind \in Kinds /\ RunningKind # None
<1>1. PICK op \in Ops : IsCurrent(op) /\ phase[op] \notin {"none", "ended"}
  BY DEF SafetyInv, BusyWhileUnsaid
<1> QED
  BY <1>1 DEF SafetyInv, Numbering, IsCurrent, RunningKind, Starts, Kinds, None

\* A start is seen as a new turn in which it runs.
LEMMA StartSeen ==
    ASSUME SafetyInv, NEW kind \in Kinds, NEW c \in Clients, StartOp(kind, c)
    PROVE  Service!Begin
<1>1. said \subseteq Ops /\ current \in Nat /\ begun \in [Ops -> Starts \cup {NotStarted}]
  BY BoundsAssumption DEF BoundsAssumption, SafetyInv, TypeInv, TypeOK
<1>2. NextOp \in Ops /\ NextOp \notin said
  BY <1>1, BoundsAssumption DEF BoundsAssumption, StartOp, NextOp, Ops, SafetyInv, Numbering
<1>3. \A op \in said : begun'[op] = begun[op]
  BY <1>1, <1>2 DEF StartOp
<1>4. Answers' = Answers
  BY <1>3 DEF StartOp, Answers
<1>5. RunningKind = None /\ RunningKind' = kind
  BY <1>1, <1>2 DEF StartOp, RunningKind
<1> QED
  BY <1>4, <1>5, ClientsAssumption
     DEF ClientsAssumption, Service!Begin, StartOp, HoldsClaim, NextOp

\* A final signal is the service's reply to the claim that stands.
LEMMA SayingSeen ==
    ASSUME SafetyInv, NEW op \in Ops, FinishSay(op)
    PROVE  Service!Reply
<1>1. IsCurrent(op) /\ begun[op] # NotStarted /\ busy
  <2>1. IsCurrent(op) /\ phase[op] = "saying"
    BY DEF FinishSay, SafetyInv, SayingHoldsLock
  <2> QED
    BY <2>1 DEF SafetyInv, Numbering, BusyWhileUnsaid, Starts, Kinds, NotStarted, None
<1>2. RunningKind # None /\ RunningKind' = None
  BY <1>1, RunningWhileBusy DEF FinishSay, FreeDevice, RunningKind
<1>3. op = current /\ begun[op].client = claimOwner /\ begun[op].user = claimedBy
  BY <1>1 DEF SafetyInv, CurrentUnderClaim, IsCurrent
<1>4. Answers' = Answers \cup {[turn |-> current, client |-> claimOwner, user |-> claimedBy]}
  BY <1>3 DEF Answers, FinishSay, finishRest
<1> QED
  BY <1>2, <1>4 DEF Service!Reply, FinishSay, finishRest

\* Every step of the device is a step of the service, or is not seen.
LEMMA StepSeen ==
    ASSUME SafetyInv, ClaimStillFree, [Next]_vars
    PROVE  Service!Next \/ UNCHANGED serviceState
<1> USE DEF Service!Next
<1>1. ASSUME NEW c \in Clients, Client(c)
      PROVE  Service!Next \/ UNCHANGED serviceState
  <2>1. CASE Leave(c)
    <3>1. RunningKind' = RunningKind /\ Answers' = Answers
      BY <2>1 DEF Leave, RunningKind, Answers, claimVars, taskVars
    <3> QED
      BY <2>1, <3>1 DEF Leave, Service!Leave, claimVars
  <2>2. CASE Release(c)
    <3>1. current' = current + 1 /\ RunningKind' = None /\ Answers' = Answers
      BY <2>2, StopSeen DEF Release, taskVars
    <3> QED
      BY <2>2, <3>1 DEF Release, HoldsClaim, Service!GiveUp
  <2>3. CASE Stop(c)
    <3>1. current' = current + 1 /\ RunningKind' = None /\ Answers' = Answers
      BY <2>3, StopSeen DEF Stop, taskVars
    <3> QED
      BY <2>3, <3>1 DEF Stop, HoldsClaim, Service!Abort
  <2>4. CASE VerifyStart(c)
    BY <2>4, StartSeen DEF VerifyStart, Kinds
  <2>5. CASE EnrollAsk(c) \/ Delete2Ask(c)
    BY <2>5, Unseen DEF EnrollAsk, Delete2Ask, taskVars
  <2>6. ASSUME NEW user \in Users, NEW blind \in BOOLEAN, ClaimBegin(c, user, blind)
        PROVE  Service!LoseSight
    BY <2>6, SightSeen DEF ClaimBegin, taskVars
  <2>7. ASSUME NEW user \in Users, Named(c, user)
        PROVE  UNCHANGED serviceState
    BY <2>7, Unseen DEF Named, taskVars
  <2> QED
    BY <1>1, <2>1, <2>2, <2>3, <2>4, <2>5, <2>6, <2>7 DEF Client
<1>2. CASE ClaimEnd
  <2>1. current' = current + 1 /\ RunningKind' = None /\ Answers' = Answers
    BY <1>2, StopSeen DEF ClaimEnd, taskVars
  <2>2. claiming.client \in alive /\ claiming.user \in Users
    BY <1>2, ClientsAssumption
       DEF ClientsAssumption, ClaimEnd, Resolves, SafetyInv, TypeInv, TypeOK, Claims, NoClaim
  <2>3. \/ claimOwner \in {NoClient, claiming.client}
        \/ claimOwner \notin alive
        \/ claiming.blind
    BY <1>2 DEF ClaimEnd, ClaimStillFree
  <2> QED
    BY <1>2, <2>1, <2>2, <2>3 DEF ClaimEnd, NoClaim, Service!Grant
<1>3. CASE ClaimFail
  BY <1>3, SightSeen DEF ClaimFail, NoClaim, GiveBack, taskVars
<1>4. ASSUME NEW call \in asking \cup jobs, Answer(call)
      PROVE  Service!Next \/ UNCHANGED serviceState
  <2>1. CASE EnrollStart(call)
    <3>1. call.client \in Clients
      BY <2>1 DEF EnrollStart, SafetyInv, TypeInv, TypeOK, Calls
    <3> QED
      BY <2>1, <3>1, StartSeen DEF EnrollStart, Kinds
  <2>2. CASE Delete2Granted(call) \/ Refused(call) \/ RunJob(call)
    BY <2>2, Unseen DEF Delete2Granted, Refused, RunJob, taskVars
  <2> QED
    BY <1>4, <2>1, <2>2 DEF Answer
<1>5. ASSUME NEW op \in Ops, Thread(op) \/ Relay(op)
      PROVE  UNCHANGED serviceState
  BY <1>5, ThreadStep, RelayStep, Unseen DEF SafetyInv, deviceVars
<1>6. ASSUME NEW op \in Ops, Finish(op)
      PROVE  Service!Next \/ UNCHANGED serviceState
  <2>1. CASE FinishSay(op)
    BY <2>1, SayingSeen
  <2>2. CASE FinishBegin(op) \/ FinishSilent(op)
    BY <2>2, Unseen DEF FinishBegin, FinishSilent, finishRest, claimVars
  <2> QED
    BY <1>6, <2>1, <2>2 DEF Finish
<1>7. CASE UNCHANGED vars
  BY <1>7, Unseen DEF vars, taskVars
<1> QED
  BY <1>1, <1>2, <1>3, <1>4, <1>5, <1>6, <1>7 DEF Next

\* The device object with all its threads does nothing that FprintService
\* does not allow.
THEOREM DeviceImplementsService == Spec => ImplementsService
<1>1. Init => Service!Init
  BY DEF Init, NoClaim, Service!Init, RunningKind, Answers
<1>2. SafetyInv /\ ClaimStillFree /\ [Next]_vars => [Service!Next]_(Service!serviceVars)
  BY StepSeen DEF serviceState, Service!serviceVars
<1>3. Init => ClaimStillFree
  BY DEF Init, ClaimStillFree
<1>4. SafetyInv /\ ClaimStillFree /\ [Next]_vars => ClaimStillFree'
  BY ClaimStillFreeInductive
<1> QED
  BY <1>1, <1>2, <1>3, <1>4, SafetyCorrect, PTL DEF Spec, ImplementsService, Service!Spec

=============================================================================
