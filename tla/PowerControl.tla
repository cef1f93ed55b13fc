---------------------------- MODULE PowerControl ----------------------------
(***************************************************************************)
(* What the checks of the service promise, without goroutines, mutex,      *)
(* channels or timers: one controller that takes one turn at a time.  A    *)
(* turn stores the traffic it decides on, deals with the instances of its  *)
(* decision, stores its result and publishes what it stored; it may be     *)
(* given up at any point.  The module CheckRefinement shows that the       *)
(* goroutines of CheckCycle implement it.                                  *)
(***************************************************************************)
CONSTANTS
    Instance,      \* the instances of the account
    Target,        \* the instance the calendar and the modes govern
    Listed,        \* the instances a protection covers
    Owner,         \* TRUE if the owner starts instances by hand
    StartReason, StopReason, ProtectReason  \* the decisions

VARIABLES
    ecs,       \* status of every instance
    metrics,   \* the stored traffic: "none", "under" or "over" the cap
    stored,    \* the stored result
    published, \* the result the service shows
    turn       \* the turn being taken

vars == <<ecs, metrics, stored, published, turn>>

NoTurn == [kind |-> "none", reason |-> "", handled |-> {}, stage |-> "none"]

Report(result) == result.ecs = "" /\ result.reason = ""

\* The instances a decision is about.
Scope(reason) == IF reason \in ProtectReason THEN Listed ELSE {Target}

\* A full turn begins: nothing is started over the cap.
Decide ==
    /\ turn = NoTurn
    /\ metrics' \in {"under", "over"}
    /\ \E reason \in StartReason \cup StopReason \cup ProtectReason :
         /\ metrics' = "over" => reason \in ProtectReason
         /\ turn' = [kind |-> "run", reason |-> reason, handled |-> {},
                     stage |-> "act"]
    /\ UNCHANGED <<ecs, stored, published>>

\* A quick turn begins: it keeps the decision that is shown.
Follow ==
    /\ turn = NoTurn
    /\ turn' = [kind |-> "refresh", reason |-> published.reason, handled |-> {},
                stage |-> "act"]
    /\ UNCHANGED <<ecs, metrics, stored, published>>

\* The traffic is stored, then the turn fails before it begins.
Sample ==
    /\ turn = NoTurn
    /\ metrics' \in {"under", "over"}
    /\ UNCHANGED <<ecs, stored, published, turn>>

\* The instance goes the way of the decision; a start needs room under the cap.
Moves(i) ==
    /\ turn.kind = "run" /\ turn.stage = "act" /\ i \in Scope(turn.reason)
    /\ ecs[i] # "Released"
    /\ turn.reason \in StartReason => metrics = "under"
    /\ ecs' = [ecs EXCEPT ![i] =
         IF turn.reason \in StartReason
         THEN IF @ = "Stopped" THEN "Starting" ELSE @
         ELSE IF @ = "Stopped" THEN @ ELSE "Stopping"]

\* The turn deals with an instance: it is where it should be, or it moves.
Deal(i) ==
    /\ turn.kind = "run" /\ turn.stage = "act" /\ i \in Scope(turn.reason)
    /\ \/ ecs[i] = (IF turn.reason \in StartReason THEN "Running" ELSE "Stopped")
          /\ UNCHANGED ecs
       \/ Moves(i)
    /\ turn' = [turn EXCEPT !.handled = @ \cup {i}]
    /\ UNCHANGED <<metrics, stored, published>>

\* The instance moves, but the turn does not learn of it and is given up.
Lose(i) ==
    /\ Moves(i)
    /\ turn' = NoTurn
    /\ UNCHANGED <<metrics, stored, published>>

\* The turn is given up.
GiveUp ==
    /\ turn # NoTurn
    /\ turn' = NoTurn
    /\ UNCHANGED <<ecs, metrics, stored, published>>

\* The result is stored once every instance of the decision is dealt with.
Save ==
    /\ turn.stage = "act"
    /\ turn.kind = "run" =>
         \A i \in Scope(turn.reason) : i \in turn.handled \/ ecs[i] = "Released"
    /\ stored'.reason = turn.reason
    /\ turn' = [turn EXCEPT !.stage = "saved"]
    /\ UNCHANGED <<ecs, metrics, published>>

\* The turn ends: what was stored is shown.
Show ==
    /\ turn.stage = "saved"
    /\ published' = stored
    /\ turn' = NoTurn
    /\ UNCHANGED <<ecs, metrics, stored>>

\* A failure, or the want of a configuration, is shown; never during a quick turn.
Excuse ==
    /\ turn.kind # "refresh"
    /\ Report(published')
    /\ UNCHANGED <<ecs, metrics, stored, turn>>

\* The process starts again.
Restart ==
    /\ Report(published')
    /\ turn' = NoTurn
    /\ UNCHANGED <<ecs, metrics, stored>>

\* The cloud and the owner move an instance.
Outside(i) ==
    /\ \E status \in {"Running", "Starting", "Stopped", "Stopping", "Released"} :
         /\ ecs' = [ecs EXCEPT ![i] = status]
         /\ \/ ecs[i] = "Starting" /\ status \in {"Running", "Stopped"}
            \/ ecs[i] = "Stopping" /\ status = "Stopped"
            \/ ecs[i] = "Running" /\ status \in {"Stopping", "Stopped"}
            \/ ecs[i] # "Released" /\ status = "Released"
            \/ Owner /\ ecs[i] = "Stopped" /\ status = "Starting"
    /\ UNCHANGED <<metrics, stored, published, turn>>

Init ==
    /\ ecs \in [Instance -> {"Running", "Starting", "Stopped", "Stopping"}]
    /\ metrics = "none" /\ turn = NoTurn
    /\ Report(stored) /\ published = stored

Next ==
    \/ Decide \/ Follow \/ Sample \/ GiveUp \/ Save \/ Show \/ Excuse \/ Restart
    \/ \E i \in Instance : Deal(i) \/ Lose(i) \/ Outside(i)

Spec == Init /\ [][Next]_vars

=============================================================================
