----------------------------- MODULE FixedDelay -----------------------------
(***************************************************************************)
(* What the scheduler promises, free of its table, its JoinSet and its     *)
(* select! loop: a registered and enabled check alternates between idle    *)
(* and executing; it starts no earlier than its ready time; when an        *)
(* execution ends the ready time becomes that instant plus the delay; and  *)
(* once draining begins nothing starts, and the run returns only when      *)
(* nothing executes.  An execution that crashes retires its check.         *)
(***************************************************************************)
EXTENDS Integers

CONSTANTS
  CheckIds, None,
  Delays  \* a set of natural numbers

VARIABLES
  now,      \* the time
  stage,    \* "open", "draining" or "returned"
  promise   \* per check: None, or its phase, its delay, its ready time

fdVars == <<now, stage, promise>>

Promise == [phase : {"idle", "executing", "retired"}, enabled : BOOLEAN,
            delay : Delays, ready : Nat]

Init ==
  /\ now = 0
  /\ stage = "open"
  /\ promise = [c \in CheckIds |-> None]

Add(c, e, d) ==
  /\ promise[c] = None
  /\ promise' = [promise EXCEPT ![c] = [phase |-> "idle", enabled |-> e,
                                        delay |-> d, ready |-> now]]
  /\ UNCHANGED <<now, stage>>

MayStart(c) ==
  /\ promise[c] # None
  /\ promise[c].phase = "idle"
  /\ promise[c].enabled
  /\ promise[c].ready <= now

Start ==
  /\ stage = "open"
  /\ \E S \in SUBSET {c \in CheckIds : MayStart(c)} :
       promise' = [c \in CheckIds |-> IF c \in S
                                      THEN [promise[c] EXCEPT !.phase = "executing"]
                                      ELSE promise[c]]
  /\ UNCHANGED <<now, stage>>

Finish(c) ==
  /\ promise[c] # None
  /\ promise[c].phase = "executing"
  /\ promise' = [promise EXCEPT ![c].phase = "idle",
                                ![c].ready = now + promise[c].delay]
  /\ UNCHANGED <<now, stage>>

Crash(c) ==
  /\ promise[c] # None
  /\ promise[c].phase = "executing"
  /\ promise' = [promise EXCEPT ![c].phase = "retired"]
  /\ UNCHANGED <<now, stage>>

Close ==
  /\ stage = "open"
  /\ stage' = "draining"
  /\ UNCHANGED <<now, promise>>

GiveBack ==
  /\ stage = "draining"
  /\ \A c \in CheckIds : promise[c] # None => promise[c].phase # "executing"
  /\ stage' = "returned"
  /\ UNCHANGED <<now, promise>>

Pass == now' = now + 1 /\ UNCHANGED <<stage, promise>>

Next ==
  \/ \E c \in CheckIds, e \in BOOLEAN, d \in Delays : Add(c, e, d)
  \/ Start
  \/ \E c \in CheckIds : Finish(c) \/ Crash(c)
  \/ Close
  \/ GiveBack
  \/ Pass

Spec == Init /\ [][Next]_fdVars
=============================================================================
