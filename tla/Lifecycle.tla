------------------------------ MODULE Lifecycle ------------------------------
(***************************************************************************)
(* What the supervisor promises about the life of each managed command,    *)
(* whatever the health checker, the guard, the user and the commands do:   *)
(* the README's "Exit Behavior" and --max-restarts without threads, locks  *)
(* and process ids.                                                        *)
(***************************************************************************)
EXTENDS Integers

CONSTANTS Children, MaxRestarts

VARIABLES
    phase,    \* where each command is in its life
    starts,   \* how many processes were started for it
    open      \* FALSE once the shutdown of the children has begun

lifeVars == <<phase, starts, open>>

\* "ending": spm decided to kill it; "down": waiting for its restart;
\* "abandoned": shot at the end of the shutdown and no longer waited for.
Phases == {"fresh", "up", "ending", "down", "completed", "failed", "abandoned"}

Init ==
    /\ phase = [c \in Children |-> "fresh"]
    /\ starts = [c \in Children |-> 0]
    /\ open = TRUE

Becomes(c, ph) == phase' = [phase EXCEPT ![c] = ph]

\* A process is started, the first time or again.
Start(c) ==
    /\ open
    /\ phase[c] \in {"fresh", "down"}
    /\ Becomes(c, "up")
    /\ starts' = [starts EXCEPT ![c] = @ + 1]
    /\ UNCHANGED open

\* Starting one fails, which is never retried.
Refuse(c) ==
    /\ open
    /\ phase[c] \in {"fresh", "down"}
    /\ Becomes(c, "failed")
    /\ UNCHANGED <<starts, open>>

Stop(c) ==
    /\ phase[c] = "up"
    /\ Becomes(c, "ending")
    /\ UNCHANGED <<starts, open>>

\* It ends with exit code 0 and nobody meant to kill it.
Complete(c) ==
    /\ phase[c] = "up"
    /\ Becomes(c, "completed")
    /\ UNCHANGED <<starts, open>>

\* Restarts are left and no shutdown began.
MayRestart(c) == open /\ starts[c] <= MaxRestarts

\* It ends otherwise.
Fall(c) ==
    /\ phase[c] \in {"up", "ending"}
    /\ IF MayRestart(c)
       THEN Becomes(c, "down")
       ELSE Becomes(c, "failed")
    /\ UNCHANGED <<starts, open>>

Close == open /\ open' = FALSE /\ UNCHANGED <<phase, starts>>

\* The end of the shutdown gives up on all that still run.
Abandon ==
    /\ ~open
    /\ phase' = [c \in Children |->
                    IF phase[c] \in {"up", "ending"} THEN "abandoned" ELSE phase[c]]
    /\ UNCHANGED <<starts, open>>

Next ==
    \/ \E c \in Children :
          Start(c) \/ Refuse(c) \/ Stop(c) \/ Complete(c) \/ Fall(c)
    \/ Close
    \/ Abandon

Spec == Init /\ [][Next]_lifeVars

-----------------------------------------------------------------------------
\* No command is started more than MaxRestarts + 1 times in all.
StartBound == \A c \in Children : starts[c] <= MaxRestarts + 1
=============================================================================
