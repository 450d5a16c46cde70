--------------------------------- MODULE Alarms ---------------------------------
(***************************************************************************)
(* What a scheduler promises its users: a goal is delivered once for every *)
(* time it was scheduled, when that time has come, unless it was removed   *)
(* before.  Time may be anticipated by what the scheduler has learned of   *)
(* its own lateness, if it was told to.                                    *)
(***************************************************************************)
EXTENDS Integers

CONSTANTS Messages, Goals, goal, MaxTime

VARIABLES
    armed,          \* messages that wait, each with its time
    rung,           \* messages delivered
    now,
    adjusting, ahead    \* may time be anticipated, and by how much it is

alarm_vars == <<armed, rung, now, adjusting, ahead>>

Init ==
    /\ armed = {} /\ rung = {}
    /\ now = 0
    /\ adjusting \in BOOLEAN
    /\ ahead = 0

Due(x) == x.time <= now + ahead

Arm(m, t) ==
    /\ m \notin rung \cup {x.message : x \in armed}
    /\ armed' = armed \cup {[message |-> m, time |-> t]}
    /\ UNCHANGED <<rung, now, adjusting, ahead>>

Ring(x) ==
    /\ Due(x)
    /\ armed' = armed \ {x}
    /\ rung' = rung \cup {x.message}
    /\ UNCHANGED <<now, adjusting, ahead>>

\* Messages are removed for certain as long as they are not due.
Cancel(S) ==
    /\ armed' \subseteq armed
    /\ \A x \in armed \ armed' : x.message \in S
    /\ \A x \in armed' : x.message \in S => Due(x)
    /\ UNCHANGED <<rung, now, adjusting, ahead>>

Tick ==
    /\ now' = now + 1
    /\ UNCHANGED <<armed, rung, adjusting, ahead>>

\* A scheduler that was late by some time may be early by half of it.
Adjust ==
    /\ adjusting
    /\ 2 * ahead' <= now
    /\ ahead' >= 0
    /\ UNCHANGED <<armed, rung, now, adjusting>>

Next ==
    \/ \E m \in Messages, t \in 0 .. MaxTime : Arm(m, t)
    \/ \E x \in armed : Ring(x)
    \/ \E g \in Goals : Cancel({m \in Messages : goal[m] = g})
    \/ Cancel(Messages)
    \/ Tick
    \/ Adjust

Spec == Init /\ [][Next]_alarm_vars

===============================================================================
