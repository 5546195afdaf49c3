------------------------------ MODULE Processes ------------------------------
(***************************************************************************)
(* The processes pane of the read-only TUI: what a tick remembers of each  *)
(* process to show its CPU, its disk rates and its growth, and the kill    *)
(* dialog.  proc.rs 22-115 and 243-345, app.rs 198-226 and 727-741, main.rs *)
(* 143-180 and 325-345, process.rs 1-18.                                   *)
(*                                                                         *)
(* All of it is kept by pid, and a pid may belong to another process at    *)
(* the next tick, or at the next key.  The counters of a process (CPU time, *)
(* bytes read, bytes written) only grow and are one number here.  Sorting  *)
(* and filtering come after the samples are taken and are left out.        *)
(***************************************************************************)
EXTENDS Integers, Sequences

CONSTANTS
    Pids,        \* of processes SIGKILL ends: not 1, the init of the namespace
    None,        \* no sample, no dialog
    Window,      \* samples kept for the growth rate, 10
    MinSamples,  \* samples it takes to show one, 3
    MaxWork      \* bound of the counters

ASSUME ProcessesAssumption ==
    /\ MinSamples \in Nat \ {0} /\ Window \in Nat /\ MinSamples =< Window
    /\ MaxWork \in Nat
    /\ None \notin Pids \cup Int

VARIABLES
    proc,     \* the process with each pid: "free" (none), "up", "shot"
    work,     \* its counter
    listed,   \* the pids of app.processes
    cpu,      \* CPU_SAMPLES: the counter at the last listing
    disk,     \* DISK_SAMPLES: the same, 0 if /proc/<pid>/io could not be read
    windows,  \* growth_windows: for each sample, whether it is of this process
    ui,       \* "keys", or "killing" in the 3 s of terminate_process
    dialog,   \* the pid in app.confirm_kill
    base,     \* history: the counter when this process was last listed, else 0
    blind,    \* history: its io could not be read then
    kept,     \* history: the listings of this process in a row, up to Window
    sent      \* history: it got SIGTERM by terminate_process

samples == <<listed, cpu, disk, windows>>
kernel == <<proc, work>>
history == <<base, blind, kept, sent>>
vars == <<proc, work, listed, cpu, disk, windows, ui, dialog, base, blind, kept, sent>>

Whose == {"own", "other"}

Up == {p \in Pids : proc[p] # "free"}

Init ==
    /\ proc \in [Pids -> {"free", "up"}]
    /\ work = [p \in Pids |-> 0]
    /\ listed = {}
    /\ cpu = [p \in Pids |-> None]
    /\ disk = [p \in Pids |-> None]
    /\ windows = [p \in Pids |-> <<>>]
    /\ ui = "keys"
    /\ dialog = None
    /\ base = [p \in Pids |-> 0]
    /\ blind = [p \in Pids |-> FALSE]
    /\ kept = [p \in Pids |-> 0]
    /\ sent = [p \in Pids |-> FALSE]

-----------------------------------------------------------------------------
(* The kernel *)

Starts(p) ==
    /\ proc[p] = "free"
    /\ proc' = [proc EXCEPT ![p] = "up"]
    /\ UNCHANGED <<work, samples, ui, dialog, history>>

Works(p) ==
    /\ proc[p] # "free" /\ work[p] < MaxWork
    /\ work' = [work EXCEPT ![p] = @ + 1]
    /\ UNCHANGED <<proc, samples, ui, dialog, history>>

\* The end of a process, of itself, by SIGTERM or by SIGKILL.  What was
\* sampled of it is not its successor's.
Ends(p) ==
    /\ proc[p] # "free"
    /\ proc' = [proc EXCEPT ![p] = "free"]
    /\ work' = [work EXCEPT ![p] = 0]
    /\ windows' = [windows EXCEPT ![p] = [j \in DOMAIN @ |-> "other"]]
    /\ base' = [base EXCEPT ![p] = 0]
    /\ blind' = [blind EXCEPT ![p] = FALSE]
    /\ kept' = [kept EXCEPT ![p] = 0]
    /\ sent' = [sent EXCEPT ![p] = FALSE]
    /\ UNCHANGED <<listed, cpu, disk, ui, dialog>>

Killed(p) == proc[p] = "shot" /\ Ends(p)

-----------------------------------------------------------------------------
(* What a listing would show of the process with pid p *)

\* saturating_sub
Delta_Wrapping(now, before) ==  \* mutant: wrapping_sub
    (now - before) % (4 * (MaxWork + 1))
Delta(now, before) == IF now >= before THEN now - before ELSE 0

\* compute_cpu_percent and compute_disk_rates, before the division by the
\* time since the sample; 0 and nothing without a sample.
CpuShown(p) == IF cpu[p] = None THEN 0 ELSE Delta(work[p], cpu[p])
DiskShown(p) == IF disk[p] = None THEN 0 ELSE Delta(work[p], disk[p])

\* compute_growth_rate: from the first to the last sample of the window.
GrowthShown(p) == Len(windows[p]) >= MinSamples

-----------------------------------------------------------------------------
(* App::tick with collect_processes *)

Pushed_Untrimmed(window) ==  \* mutant: pop_front is forgotten
    Append(window, "own")
Pushed(window) ==
    LET longer == Append(window, "own")
    IN  IF Len(longer) > Window THEN Tail(longer) ELSE longer

\* retain: only of the pids on the list something is kept.
Retained(list) == list

\* A process whose stat cannot be read (it ended meanwhile) is not listed, one
\* whose io cannot be read is listed with 0 bytes.
Tick ==
    /\ ui = "keys"
    /\ \E list \in SUBSET Up : \E unread \in SUBSET list :
          /\ listed' = list
          /\ cpu' = [p \in Pids |-> IF p \in list THEN work[p]
                                    ELSE IF p \in Retained(list) THEN cpu[p] ELSE None]
          /\ disk' = [p \in Pids |-> IF p \in unread THEN 0
                                     ELSE IF p \in list THEN work[p]
                                     ELSE IF p \in Retained(list) THEN disk[p] ELSE None]
          /\ windows' = [p \in Pids |-> IF p \in list THEN Pushed(windows[p]) ELSE <<>>]
          /\ base' = [p \in Pids |-> IF p \in list THEN work[p] ELSE base[p]]
          /\ blind' = [p \in Pids |-> IF p \in list THEN p \in unread ELSE blind[p]]
          /\ kept' = [p \in Pids |-> IF p \notin list THEN 0
                                     ELSE IF kept[p] < Window THEN kept[p] + 1 ELSE Window]
    /\ UNCHANGED <<kernel, ui, dialog, sent>>

\* /proc itself cannot be read: the list is empty, and collect_processes
\* returns before it drops a sample.
TickFails ==
    /\ ui = "keys"
    /\ listed' = {}
    /\ windows' = [p \in Pids |-> <<>>]
    /\ kept' = [p \in Pids |-> 0]
    /\ UNCHANGED <<kernel, cpu, disk, ui, dialog, base, blind, sent>>

-----------------------------------------------------------------------------
(* The kill dialog *)

\* k: of a process on the list, which may have ended since.
KeyKill ==
    /\ ui = "keys" /\ dialog = None
    /\ dialog' \in listed
    /\ UNCHANGED <<kernel, samples, ui, history>>

KeyNo ==
    /\ ui = "keys" /\ dialog # None
    /\ dialog' = None
    /\ UNCHANGED <<kernel, samples, ui, history>>

\* y: SIGTERM, which a process may ignore, and a sleep of 3 s.
KeyYes ==
    /\ ui = "keys" /\ dialog # None
    /\ proc[dialog] # "free"
    /\ ui' = "killing"
    /\ sent' = [sent EXCEPT ![dialog] = TRUE]
    /\ UNCHANGED <<kernel, samples, dialog, base, blind, kept>>

\* y: there is no such process, or spm may not signal it.
KeyYesFails ==
    /\ ui = "keys" /\ dialog # None
    /\ dialog' = None
    /\ UNCHANGED <<kernel, samples, ui, history>>

\* kill(pid, 0), and SIGKILL to whatever process has the pid by now.
StillThere_Inverted ==  \* mutant: the check is the wrong way round
    proc[dialog] = "free"
StillThere == proc[dialog] # "free"

ForceKill ==
    /\ ui = "killing"
    /\ proc' = IF StillThere THEN [proc EXCEPT ![dialog] = "shot"] ELSE proc
    /\ ui' = "keys"
    /\ dialog' = None
    /\ UNCHANGED <<work, samples, history>>

-----------------------------------------------------------------------------
Next ==
    \/ \E p \in Pids : Starts(p) \/ Works(p) \/ Ends(p)
    \/ Tick \/ TickFails
    \/ KeyKill \/ KeyNo \/ KeyYes \/ KeyYesFails \/ ForceKill

Spec == Init /\ [][Next]_vars

\* The main thread wakes up, SIGKILL takes effect.  Of the init of a pid
\* namespace it does not; Pids are those of other processes.
FairSpec ==
    Spec /\ WF_vars(ForceKill) /\ \A p \in Pids : WF_vars(Killed(p))
-----------------------------------------------------------------------------
ProcTypeOK ==
    /\ proc \in [Pids -> {"free", "up", "shot"}]
    /\ work \in [Pids -> 0 .. MaxWork]
    /\ listed \subseteq Pids
    /\ cpu \in [Pids -> 0 .. MaxWork \cup {None}]
    /\ disk \in [Pids -> 0 .. MaxWork \cup {None}]
    /\ windows \in [Pids -> Seq(Whose)]
    /\ \A p \in Pids : Len(windows[p]) =< Window
    /\ ui \in {"keys", "killing"} /\ dialog \in Pids \cup {None}
    /\ ui = "killing" => dialog # None
    /\ base \in [Pids -> 0 .. MaxWork] /\ blind \in [Pids -> BOOLEAN]
    /\ kept \in [Pids -> 0 .. Window] /\ sent \in [Pids -> BOOLEAN]

\* What is shown of a process is not more than it did since it was last
\* listed, even if the sample is that of a predecessor with the same pid; the
\* exception is its disk rate after its io could not be read, which counts
\* everything since it started (compute_cpu_percent, compute_disk_rates).
RatesAreOwn ==
    \A p \in Up :
        /\ CpuShown(p) =< work[p] - base[p]
        /\ DiskShown(p) =< IF blind[p] THEN work[p] ELSE work[p] - base[p]

\* The growth shown of a process that was listed Window times in a row is its
\* own (growth_windows, keyed by pid).
GrowthIsOwn ==
    \A p \in Up :
        kept[p] = Window /\ GrowthShown(p)
            => \A j \in DOMAIN windows[p] : windows[p][j] = "own"

\* The maps do not grow with the pids that come and go: a sample outlives its
\* process only if /proc could not be read at all (the three retain calls).
SamplesAreListed ==
    /\ \A p \in Pids : windows[p] # <<>> <=> p \in listed
    /\ \A p \in Pids : cpu[p] # None <=> disk[p] # None
    /\ listed # {} => \A p \in Pids : cpu[p] # None => p \in listed

\* A process the user confirmed to kill ends, ignoring SIGTERM or not
\* (terminate_process), unless it is the init of the pod, which the kernel
\* shields and which Pids leaves out.
ConfirmedDies == \A p \in Pids : sent[p] ~> ~sent[p]
=============================================================================
