----------------------------- MODULE SharedState -----------------------------
(***************************************************************************)
(* The files /tmp/spm-state-<pid>.json through which instances of spm show *)
(* each other their children.  A supervisor's monitor thread writes the    *)
(* file of its own pid in every iteration (monitor.rs 277-295, 583-586)    *)
(* and every TUI reads the files of the others, trusts a timestamp for     *)
(* MaxAge seconds and removes a file whose timestamp is older (app.rs       *)
(* 303-401).  Nothing locks the files.                                     *)
(*                                                                         *)
(* An instance is named by its pid, which a later one may have again.  A   *)
(* file is the age of its timestamp, in seconds; what else is in it         *)
(* decides nothing but the number of its rows, which is Kids for every     *)
(* supervisor.  The wall clock is not set back.                            *)
(***************************************************************************)
EXTENDS Integers, Sequences, FiniteSets

CONSTANTS
    Inst,      \* the pids an instance of spm may have
    Headless, Tuis, Viewers,   \* what may run with which pid
    Kids,      \* children of a supervisor
    MaxAge,    \* the 5 of is_timestamp_fresh(&timestamp, 5)
    MaxRows,   \* bound on the rows a tick may append to
    None       \* no file, nothing doomed

ASSUME SharedAssumption ==
    /\ Headless \subseteq Inst /\ Tuis \subseteq Inst /\ Viewers \subseteq Inst
    /\ Kids \in Nat \ {0} /\ MaxAge \in Nat /\ MaxRows \in Nat
    /\ None \notin Inst \cup Int

VARIABLES
    role,      \* what runs with a pid: "off" if nothing does
    monitor,   \* where its monitor thread is between two calls on the file
    tmp,       \* age of the timestamp in its .json.tmp, Empty when that is not used
    file,      \* the same of its .json: Empty after a full disk, None if it is gone
    update,    \* a StateUpdate waits in the channel of a TUI
    scan,      \* the pass of its main thread over the directory
    rows,      \* app.managed_children: whose child each row is, and its index
    dead       \* history: seconds since an instance with the pid ended

vars == <<role, monitor, tmp, file, update, scan, rows, dead>>

Ages == 0 .. MaxAge + 1        \* MaxAge + 1 is anything older
Empty == -1                    \* a file without a timestamp

Roles == {"off", "headless", "leaving", "tui", "viewer"}

\* Instances with children, and those that look for the children of others.
Supervises(i) == role[i] \in {"headless", "leaving", "tui"}
Reads(i) == role[i] \in {"tui", "viewer"}

Row == [of : Inst, child : 0 .. Kids - 1, index : Nat]

Idle == [open |-> FALSE, todo |-> {}, doomed |-> None, found |-> <<>>]

\* The rows of one file, with indices from `offset' on.
Block(i, offset) ==
    [k \in 1 .. Kids |-> [of |-> i, child |-> k - 1, index |-> offset + k - 1]]

Init ==
    /\ role = [i \in Inst |-> "off"]
    /\ monitor = [i \in Inst |-> "idle"]
    /\ tmp = [i \in Inst |-> Empty]
    /\ file = [i \in Inst |-> None]
    /\ update = [i \in Inst |-> FALSE]
    /\ scan = [i \in Inst |-> Idle]
    /\ rows = [i \in Inst |-> <<>>]
    /\ dead = [i \in Inst |-> MaxAge + 1]

-----------------------------------------------------------------------------
(* Instances come and go *)

\* A TUI begins with a copy of its own children.
Starts(i, r) ==
    /\ role[i] = "off"
    /\ role' = [role EXCEPT ![i] = r]
    /\ rows' = [rows EXCEPT ![i] = IF r = "tui" THEN Block(i, 0) ELSE <<>>]
    /\ dead' = [dead EXCEPT ![i] = 0]
    /\ UNCHANGED <<monitor, tmp, file, update, scan>>

\* The process ends wherever its threads are: by SIGKILL, or when the main
\* thread of a TUI returns, which does not wait for the monitor thread.
Dies(i) ==
    /\ role[i] # "off"
    /\ role' = [role EXCEPT ![i] = "off"]
    /\ monitor' = [monitor EXCEPT ![i] = "idle"]
    /\ tmp' = [tmp EXCEPT ![i] = Empty]
    /\ update' = [update EXCEPT ![i] = FALSE]
    /\ scan' = [scan EXCEPT ![i] = Idle]
    /\ rows' = [rows EXCEPT ![i] = <<>>]
    /\ UNCHANGED <<file, dead>>

\* The headless main thread removes the file and breaks out of its loop; its
\* monitor thread may run on until the process ends.
HeadlessLeaves(i) ==
    /\ role[i] = "headless"
    /\ role' = [role EXCEPT ![i] = "leaving"]
    /\ file' = [file EXCEPT ![i] = None]
    /\ UNCHANGED <<monitor, tmp, update, scan, rows, dead>>

\* A second passes.
Older(age) == IF age \in 0 .. MaxAge THEN age + 1 ELSE age

Tick ==
    /\ tmp' = [i \in Inst |-> Older(tmp[i])]
    /\ file' = [i \in Inst |-> Older(file[i])]
    /\ dead' = [i \in Inst |-> IF role[i] = "off" THEN Older(dead[i]) ELSE 0]
    /\ UNCHANGED <<role, monitor, update, scan, rows>>

-----------------------------------------------------------------------------
(* The monitor thread: write_shared_state and what follows it *)

\* build_shared_state takes the timestamp, File::create truncates.
Create(i) ==
    /\ Supervises(i) /\ monitor[i] = "idle"
    /\ monitor' = [monitor EXCEPT ![i] = "write"]
    /\ tmp' = [tmp EXCEPT ![i] = 0]
    /\ UNCHANGED <<role, file, update, scan, rows, dead>>

\* No file can be created: nothing is written, and StateUpdate is sent.
CreateFails(i) ==
    /\ Supervises(i) /\ monitor[i] = "idle"
    /\ update' = [update EXCEPT ![i] = role[i] = "tui"]
    /\ UNCHANGED <<role, monitor, tmp, file, scan, rows, dead>>

\* write_all and rename, and StateUpdate at the end of the iteration.  Nobody
\* reads the .tmp between the two.  That write_all failed is not looked at: a
\* full disk leaves the file empty.
Renamed_InPlace(i) ==  \* mutant: only a file that is there is replaced
    IF file[i] = None THEN {None} ELSE {tmp[i], Empty}
Renamed(i) == {tmp[i], Empty}

Write(i) ==
    /\ monitor[i] = "write"
    /\ \E written \in Renamed(i) : file' = [file EXCEPT ![i] = written]
    /\ tmp' = [tmp EXCEPT ![i] = Empty]
    /\ monitor' = [monitor EXCEPT ![i] = "idle"]
    /\ update' = [update EXCEPT ![i] = role[i] = "tui"]
    /\ UNCHANGED <<role, scan, rows, dead>>

\* The end of shutdown_children after a signal: the thread removes the file
\* and ends, and a TUI goes on without it.
MonitorEnds(i) ==
    /\ Supervises(i) /\ monitor[i] = "idle"
    /\ monitor' = [monitor EXCEPT ![i] = "ended"]
    /\ file' = [file EXCEPT ![i] = None]
    /\ UNCHANGED <<role, tmp, update, scan, rows, dead>>

-----------------------------------------------------------------------------
(* The main thread of a TUI: read_shared_state, read_other_instances_state *)

\* A supervisor leaves out its own file.  A file that is not there when its
\* turn comes is passed over, so every name can be on the list: what appears
\* after read_dir has begun may be visited before or after it appears.
Names(i) == IF role[i] = "tui" THEN Inst \ {i} ELSE Inst

Open(i) ==
    /\ ~scan[i].open
    /\ scan' = [scan EXCEPT ![i] = [Idle EXCEPT !.open = TRUE, !.todo = Names(i)]]

\* The tick of either kind of TUI.
TickScan(i) ==
    /\ Reads(i) /\ Open(i)
    /\ Len(rows[i]) < MaxRows
    /\ UNCHANGED <<role, monitor, tmp, file, update, rows, dead>>

\* After a StateUpdate the supervisor takes a new copy of its own children.
Renew(i) ==
    /\ update[i] /\ Open(i)
    /\ rows' = [rows EXCEPT ![i] = Block(i, 0)]
    /\ update' = [update EXCEPT ![i] = FALSE]
    /\ UNCHANGED <<role, monitor, tmp, file, dead>>

Fresh_OneMore(age) ==  \* mutant: one second too many
    age \in 0 .. MaxAge + 1
Fresh(age) == age \in 0 .. MaxAge

\* A file with a timestamp that is too old is to be removed, one without a
\* timestamp is skipped.
Doomed_Never(age) ==  \* mutant: a file that is too old is skipped as well
    FALSE
Doomed(age) == age \in Ages /\ ~Fresh(age)

\* The rows a scan begins with: a supervisor appends to those it has, ticks
\* included, the read-only TUI replaces them.
Kept_Always(i) ==  \* mutant: the read-only TUI appends too
    rows[i]
Kept(i) == IF role[i] = "tui" THEN rows[i] ELSE <<>>

Offset_PerFile(i) ==  \* mutant: the files read before this one are forgotten
    Len(Kept(i))
Offset(i) == Len(Kept(i)) + Len(scan[i].found)

\* Read one file and judge its timestamp.
Visit(i) ==
    /\ scan[i].open /\ scan[i].doomed = None
    /\ \E s \in scan[i].todo :
          scan' = [scan EXCEPT
              ![i].todo = @ \ {s},
              ![i].doomed = IF Doomed(file[s]) THEN s ELSE None,
              ![i].found = IF Fresh(file[s]) THEN @ \o Block(s, Offset(i)) ELSE @]
    /\ UNCHANGED <<role, monitor, tmp, file, update, rows, dead>>

\* Remove by name what was read as too old, whatever the name stands for now.
RemoveStale(i) ==
    /\ scan[i].doomed # None
    /\ file' = [file EXCEPT ![scan[i].doomed] = None]
    /\ scan' = [scan EXCEPT ![i].doomed = None]
    /\ UNCHANGED <<role, monitor, tmp, update, rows, dead>>

Close(i) ==
    /\ scan[i].open /\ scan[i].todo = {} /\ scan[i].doomed = None
    /\ rows' = [rows EXCEPT ![i] = Kept(i) \o scan[i].found]
    /\ scan' = [scan EXCEPT ![i] = Idle]
    /\ UNCHANGED <<role, monitor, tmp, file, update, dead>>

-----------------------------------------------------------------------------
MonitorStep(i) == Create(i) \/ CreateFails(i) \/ Write(i)
ReaderStep(i) == Visit(i) \/ RemoveStale(i) \/ Close(i)

Next ==
    \/ Tick
    \/ \E i \in Inst :
          \/ i \in Headless /\ Starts(i, "headless")
          \/ i \in Tuis /\ Starts(i, "tui")
          \/ i \in Viewers /\ Starts(i, "viewer")
          \/ Dies(i) \/ HeadlessLeaves(i) \/ MonitorEnds(i)
          \/ MonitorStep(i) \/ TickScan(i) \/ Renew(i) \/ ReaderStep(i)

Spec == Init /\ [][Next]_vars

\* Time passes, threads keep running, and a file can be created again and
\* again.  A main thread takes the StateUpdate that waits for it.
Fairness ==
    /\ WF_vars(Tick)
    /\ \A i \in Inst :
          /\ WF_vars(MonitorStep(i)) /\ SF_vars(Create(i))
          /\ WF_vars(ReaderStep(i)) /\ WF_vars(TickScan(i)) /\ SF_vars(Renew(i))

FairSpec == Spec /\ Fairness

-----------------------------------------------------------------------------
SharedTypeOK ==
    /\ role \in [Inst -> Roles]
    /\ monitor \in [Inst -> {"idle", "write", "ended"}]
    /\ tmp \in [Inst -> Ages \cup {Empty}]
    /\ file \in [Inst -> Ages \cup {Empty, None}]
    /\ update \in [Inst -> BOOLEAN]
    /\ scan \in [Inst -> [open : BOOLEAN, todo : SUBSET Inst,
                          doomed : Inst \cup {None}, found : Seq(Row)]]
    /\ rows \in [Inst -> Seq(Row)]
    /\ dead \in [Inst -> Ages]

\* No row comes from an instance that ended more than MaxAge seconds ago,
\* whoever wrote, removed or renamed its file since (is_timestamp_fresh).
NoGhostRows ==
    [][\A i \in Inst :
          LET found == scan'[i].found
              last == found[Len(found)].of
          IN  Len(found) > Len(scan[i].found)
                  => role[last] # "off" \/ dead[last] =< MaxAge]_vars

\* r restarts children.get_mut(index): the index of a row is that of the own
\* child it shows, and beyond the own children for a child of another
\* instance, also in rows that are there twice (app.rs 361, 392-397).
RowsNameChildren ==
    \A i \in Inst : \A j \in DOMAIN rows[i] :
        LET row == rows[i][j]
        IN  /\ row.index = j - 1
            /\ role[i] = "tui" => /\ row.of = i <=> row.index < Kids
                                  /\ row.of = i => row.child = row.index

\* A reader may remove the file of a supervisor that is merely slow, even one
\* that was renamed into place after the reader had read the old one; it comes
\* back while the monitor thread runs (app.rs 387-390).
LiveFileReturns ==
    \A i \in Inst :
        (Supervises(i) /\ monitor[i] # "ended")
            ~> (file[i] # None \/ ~Supervises(i) \/ monitor[i] = "ended")

\* The file an instance leaves behind, because it was killed or because its
\* monitor wrote once more after main had removed it, goes when somebody
\* looks, unless the disk was full when it was written.
DeadFileGoes ==
    \A i \in Inst : \A v \in Inst \ {i} :
        (role[i] = "off" /\ file[i] \in Ages /\ Reads(v))
            ~> (role[i] # "off" \/ file[i] = None \/ ~Reads(v) \/ monitor[v] = "ended")

\* Rows of an instance that has ended disappear from every TUI whose own
\* monitor still runs, although a tick only adds to them.
Shows(v, i) == \E j \in DOMAIN rows[v] : rows[v][j].of = i

DeadLeavesRows ==
    \A i \in Inst : \A v \in Inst \ {i} :
        (role[i] = "off" /\ Shows(v, i))
            ~> (role[i] # "off" \/ ~Shows(v, i) \/ monitor[v] = "ended")
=============================================================================
