--------------------------- MODULE FprintService ----------------------------
(***************************************************************************)
(* What the daemon promises its clients, with no thread, lock or counter:  *)
(* one claim at a time, at most one operation under it, and an answer that *)
(* is given once, while that operation runs, to the claim it runs under.   *)
(*                                                                         *)
(* A turn is the stretch between two changes of mind: every claim, release,*)
(* start and stop begins the next one.                                     *)
(***************************************************************************)
EXTENDS Naturals

CONSTANTS Clients, Users, NoClient, NoUser, Kinds, Idle

VARIABLES
    present,     \* clients on the bus
    blind,       \* whether the bus failed to say if the owner is there
    owner,       \* the client that holds the claim
    user,        \* the user it is for
    turn,        \* number of the present turn
    running,     \* kind of the operation going on, or Idle
    answered     \* the turns that had an answer, with the claim it was given to

serviceVars == <<present, blind, owner, user, turn, running, answered>>

Init ==
    /\ present = Clients
    /\ blind = FALSE
    /\ owner = NoClient /\ user = NoUser
    /\ turn = 0
    /\ running = Idle
    /\ answered = {}

Leave ==
    /\ \E c \in present : present' = present \ {c}
    /\ UNCHANGED <<blind, owner, user, turn, running, answered>>

\* The bus may fail to answer, and may answer the next time.
LoseSight ==
    /\ blind' \in BOOLEAN
    /\ UNCHANGED <<present, owner, user, turn, running, answered>>

\* A claim is granted when no other client that the bus can tell of holds one,
\* to a client that is there, and ends whatever was running.
Grant ==
    /\ \E c \in present, u \in Users :
        /\ owner \in {NoClient, c} \/ owner \notin present \/ blind
        /\ owner' = c /\ user' = u
    /\ blind' = FALSE
    /\ turn' = turn + 1
    /\ running' = Idle
    /\ UNCHANGED <<present, answered>>

GiveUp ==
    /\ owner \in present
    /\ owner' = NoClient /\ user' = NoUser
    /\ turn' = turn + 1
    /\ running' = Idle
    /\ UNCHANGED <<present, blind, answered>>

Begin ==
    /\ owner # NoClient
    /\ running = Idle
    /\ running' \in Kinds
    /\ turn' = turn + 1
    /\ UNCHANGED <<present, blind, owner, user, answered>>

Abort ==
    /\ owner \in present
    /\ running' = Idle
    /\ turn' = turn + 1
    /\ UNCHANGED <<present, blind, owner, user, answered>>

\* The answer goes to the claim that stands, for the turn that runs.
Reply ==
    /\ running # Idle
    /\ answered' = answered \cup {[turn |-> turn, client |-> owner, user |-> user]}
    /\ running' = Idle
    /\ UNCHANGED <<present, blind, owner, user, turn>>

Next == Leave \/ LoseSight \/ Grant \/ GiveUp \/ Begin \/ Abort \/ Reply

Spec == Init /\ [][Next]_serviceVars

=============================================================================
