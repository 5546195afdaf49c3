------------------------------ MODULE Recording ------------------------------
(***************************************************************************)
(* Recordings of the TUI: the list of processes that App::tick renews every *)
(* second, the watched pids, the rolling window of snapshots, the files    *)
(* with their storage cap, and the list and replay modes.  app.rs, main.rs *)
(* 104-434 (run_app; run_supervisor_app has the same keys) and recording.rs *)
(*                                                                         *)
(* A process is its pid and the number of its birth, so that a recycled    *)
(* pid is another process.  A snapshot is counted and has no content; a    *)
(* file is as large as it has snapshots.  Writing a file does not fail.    *)
(* Other instances of spm delete recordings but save none.                 *)
(***************************************************************************)
EXTENDS Integers, SequencesExt

CONSTANTS
    Pids,        \* pids that are listed
    Window,      \* max_snapshots (300)
    MaxStorage,  \* max_storage_bytes, in snapshots
    Page,        \* snapshots per PageUp or PageDown (10)
    MaxBirths,   \* processes per pid (bound)
    MaxWatches   \* how often the user watches a process (bound)

Debounce == 2    \* seconds between two recordings of one pid
Long == 3        \* elapsed seconds are not followed further

ASSUME RecordingAssumption ==
    /\ Window \in Nat /\ MaxStorage \in Nat /\ Page \in Nat \ {0}
    /\ MaxBirths \in Nat \ {0} /\ MaxWatches \in Nat

VARIABLES
    living,   \* kernel: the pids that name a process
    births,   \* kernel: how many processes each pid has named
    hidden,   \* the living pids that view_state.filter hides
    shown,    \* app.processes and all_pids: the process listed per pid, 0 for none
    watching, \* watched_pids, with the process the user chose, 0 if not watched
    kept,     \* buffer.len()
    since,    \* seconds since last_saved_pids, Long if longer ago or never
    files,    \* the recordings, oldest first
    mode,     \* app.mode
    saves,    \* history: recordings saved
    watches   \* history: how often the user watched a process

recordingVars == <<living, births, hidden, shown, watching, kept, since, files, mode,
                   saves, watches>>

kernelState == <<living, births>>
history     == <<saves, watches>>

AtMost(n, bound) == IF n < bound THEN n ELSE bound

Live == [kind |-> "live"]
Listing(ids, i) == [kind |-> "list", ids |-> ids, selected |-> i]
Playing(n, i, on) == [kind |-> "replay", size |-> n, index |-> i, playing |-> on]

\* list_recordings: the newest first.
ListOf(fs) == [i \in 1..Len(fs) |-> Reverse(fs)[i].id]

Watched == {p \in Pids : watching[p] # 0}

\* collect_processes, filtered.
Collected ==
    [p \in Pids |-> IF p \in living \ hidden THEN births[p] ELSE 0]

\* RecordingManager::new may find files of earlier runs; --record starts in the
\* list, --replay in the replay of one of them.
RecordingInit ==
    /\ living \in SUBSET Pids
    /\ births = [p \in Pids |-> IF p \in living THEN 1 ELSE 0]
    /\ hidden = {}
    /\ shown = [p \in Pids |-> 0]
    /\ watching = [p \in Pids |-> 0]
    /\ kept = 0
    /\ since = [p \in Pids |-> Long]
    /\ files \in {<<>>} \cup {<<[id |-> 0, size |-> n]>> : n \in 1..AtMost(Window, MaxStorage)}
    /\ mode \in {Live, Listing(ListOf(files), 0)}
                  \cup {Playing(files[i].size, 0, FALSE) : i \in DOMAIN files}
    /\ saves = 0
    /\ watches = 0

-----------------------------------------------------------------------------
(* App::tick and RecordingManager *)

\* The snapshots in the files: <<i, k>> is the k-th one of the i-th file.  There
\* are as many as the sizes add up to.
Stored(fs) == UNION {{i} \X (1..fs[i].size) : i \in DOMAIN fs}
Total(fs) == Cardinality(Stored(fs))

\* enforce_storage_cap: remove the oldest files until the rest fits or none is
\* left.
Capped_Newest(fs) ==  \* mutant: the newest are removed
    SubSeq(fs, 1, Max({n \in 0..Len(fs) : Total(SubSeq(fs, 1, n)) <= MaxStorage}))
Capped(fs) ==
    LET Fits(n) == Total(SubSeq(fs, n + 1, Len(fs))) <= MaxStorage
    IN  SubSeq(fs, Min({n \in 0..Len(fs) : Fits(n) \/ n = Len(fs)}) + 1, Len(fs))

\* The recordings of one tick, one file each.
NewFiles(n) == [i \in 1..n |-> [id |-> saves + i, size |-> kept]]

\* The watched pids that are listed no more.
Gone == {p \in Watched : shown[p] # 0 /\ Collected[p] = 0}

\* last_saved_pids says that the pid was saved a moment ago.
Debounced_Longer(elapsed) == elapsed <= Debounce  \* mutant
Debounced(elapsed) == elapsed < Debounce

Elapsed(dt) == [p \in Pids |-> AtMost(since[p] + dt, Long)]

\* save_recording does nothing without a snapshot.
Saved(dt) == {p \in Gone : kept > 0 /\ ~Debounced(Elapsed(dt)[p])}

\* add_snapshot.
AfterSnapshot == AtMost(kept + 1, Window)

\* watched_pids.remove, whether or not the recording was saved.
Unwatched_Never(P) == watching  \* mutant: forgotten
Unwatched(P) == [p \in Pids |-> IF p \in P THEN 0 ELSE watching[p]]

\* A tick comes at least a second after the one before.
LiveTick ==
    /\ mode = Live
    /\ \E dt \in 1..Long :
          LET n == Cardinality(Saved(dt)) IN
          /\ since' = [p \in Pids |-> IF p \in Saved(dt) THEN 0 ELSE Elapsed(dt)[p]]
          /\ files' = IF n = 0 THEN files ELSE Capped(files \o NewFiles(n))
          /\ saves' = saves + n
    /\ watching' = Unwatched(Gone)
    /\ shown' = Collected
    /\ kept' = AfterSnapshot
    /\ UNCHANGED <<kernelState, hidden, mode, watches>>

\* In the other modes the list of processes is renewed and nothing else.
OtherTick ==
    /\ mode # Live
    /\ \E dt \in 1..Long : since' = Elapsed(dt)
    /\ shown' = Collected
    /\ UNCHANGED <<kernelState, hidden, watching, kept, files, mode, history>>

Tick == LiveTick \/ OtherTick

-----------------------------------------------------------------------------
(* Keys of the Live mode *)

\* w: toggle_watch, for a process that is listed.
Watch ==
    /\ mode = Live
    /\ watches < MaxWatches
    /\ \E p \in Pids \ Watched :
          /\ shown[p] # 0
          /\ watching' = [watching EXCEPT ![p] = shown[p]]
    /\ watches' = watches + 1
    /\ UNCHANGED <<kernelState, hidden, shown, kept, since, files, mode, saves>>

Unwatch ==
    /\ mode = Live
    /\ \E p \in Watched :
          /\ shown[p] # 0
          /\ watching' = [watching EXCEPT ![p] = 0]
    /\ UNCHANGED <<kernelState, hidden, shown, kept, since, files, mode, history>>

\* Edit the filter, which the next tick applies.
Filter ==
    /\ mode = Live
    /\ hidden' \in SUBSET living
    /\ UNCHANGED <<kernelState, shown, watching, kept, since, files, mode, history>>

-----------------------------------------------------------------------------
(* Keys of the list and of the replay *)

ModeOnly ==
    UNCHANGED <<kernelState, hidden, shown, watching, kept, since, files, history>>

\* R.
OpenList ==
    /\ mode = Live
    /\ mode' = Listing(ListOf(files), 0)
    /\ ModeOnly

\* Up and Down.
Select ==
    /\ mode.kind = "list" /\ mode.ids # <<>>
    /\ \E i \in {mode.selected - 1, mode.selected + 1} :
          mode' = [mode EXCEPT !.selected = AtMost(IF i < 0 THEN 0 ELSE i, Len(mode.ids) - 1)]
    /\ ModeOnly

HasSelection == mode.kind = "list" /\ mode.selected < Len(mode.ids)
SelectedId == mode.ids[mode.selected + 1]

\* Enter: load the recording, if its file is still there.
Load ==
    /\ HasSelection
    /\ \E i \in DOMAIN files :
          /\ files[i].id = SelectedId
          /\ mode' = Playing(files[i].size, 0, FALSE)
    /\ ModeOnly

\* d: delete the file, if it is still there, read the list again and keep the
\* selection in it.
Reselected_Kept(n) == mode.selected  \* mutant: not clamped
Reselected(n) == IF n = 0 THEN 0 ELSE AtMost(mode.selected, n - 1)

Delete ==
    /\ HasSelection
    /\ \/ \E i \in DOMAIN files :
             files[i].id = SelectedId /\ files' = RemoveAt(files, i)
       \/ (\A i \in DOMAIN files : files[i].id # SelectedId) /\ UNCHANGED files
    /\ mode' = Listing(ListOf(files'), Reselected(Len(files')))
    /\ UNCHANGED <<kernelState, hidden, shown, watching, kept, since, history>>

\* Left, Right, PageUp, PageDown, Home and End.
Seek ==
    /\ mode.kind = "replay"
    /\ \E i \in {mode.index - 1, mode.index + 1, mode.index - Page, mode.index + Page,
                 0, mode.size - 1} :
          mode' = [mode EXCEPT !.index = AtMost(IF i < 0 THEN 0 ELSE i, mode.size - 1)]
    /\ ModeOnly

\* Space.
TogglePlay ==
    /\ mode.kind = "replay"
    /\ mode' = [mode EXCEPT !.playing = ~@]
    /\ ModeOnly

\* The interval of the speed has passed: the next snapshot, or stop at the last.
Advance ==
    /\ mode.kind = "replay" /\ mode.playing
    /\ mode' = IF mode.index < mode.size - 1
               THEN [mode EXCEPT !.index = @ + 1]
               ELSE [mode EXCEPT !.playing = FALSE]
    /\ ModeOnly

\* Esc, and q in the replay.
BackToLive ==
    /\ mode # Live
    /\ mode' = Live
    /\ ModeOnly

Keys ==
    \/ Watch \/ Unwatch \/ Filter \/ OpenList
    \/ Select \/ Load \/ Delete \/ Seek \/ TogglePlay \/ BackToLive

-----------------------------------------------------------------------------
(* The other processes of the pod: outside src/ *)

\* A process starts; whether the filter hides it depends on its name.
Spawn ==
    /\ \E p \in Pids \ living :
          /\ births[p] < MaxBirths
          /\ living' = living \cup {p}
          /\ births' = [births EXCEPT ![p] = @ + 1]
          /\ hidden' \in {hidden, hidden \cup {p}}
    /\ UNCHANGED <<shown, watching, kept, since, files, mode, history>>

Exit ==
    /\ \E p \in living :
          /\ living' = living \ {p}
          /\ hidden' = hidden \ {p}
    /\ UNCHANGED <<births, shown, watching, kept, since, files, mode, history>>

\* Another instance of spm deletes a recording.
OtherDeletes ==
    /\ \E i \in DOMAIN files : files' = RemoveAt(files, i)
    /\ UNCHANGED <<kernelState, hidden, shown, watching, kept, since, mode, history>>

Pod == Spawn \/ Exit \/ OtherDeletes

-----------------------------------------------------------------------------
RecordingNext == Tick \/ Advance \/ Keys \/ Pod

RecordingSpec == RecordingInit /\ [][RecordingNext]_recordingVars

-----------------------------------------------------------------------------
Births == 0..MaxBirths

\* Every variable has its type; in particular the window never holds more than
\* max_snapshots.
RecordingTypeOK ==
    /\ living \subseteq Pids /\ hidden \subseteq living
    /\ births \in [Pids -> Births] /\ shown \in [Pids -> Births]
    /\ watching \in [Pids -> Births]
    /\ kept \in 0..Window
    /\ since \in [Pids -> 0..Long]
    /\ files \in Seq([id : 0..saves, size : 1..Window])
    /\ saves \in 0..MaxWatches /\ watches \in 0..MaxWatches

\* The selection is in the list and the snapshot shown is in the recording,
\* whatever is deleted, by whom, and however the user jumps (main.rs 183-264,
\* 384-402 and 411-428).
PlaysInRange ==
    /\ mode.kind = "list" => mode.selected = 0 \/ mode.selected < Len(mode.ids)
    /\ mode.kind = "replay" => mode.index \in 0..(mode.size - 1)

\* The files never take more than the storage cap (README,
\* SPM_RECORDING_MAX_SIZE_MB), and making room for a recording does not remove
\* that very one, unless it alone exceeds the cap: enforce_storage_cap runs
\* after the file was written.
RoomIsMade ==
    [][/\ Total(files') <= MaxStorage
       /\ saves' > saves /\ kept <= MaxStorage =>
              files' # <<>> /\ files'[Len(files')].id = saves']_recordingVars

\* Each watch gives one recording at most, although pids are recycled and
\* filters hide and show processes (tick and toggle_watch).
OncePerWatch == saves + Cardinality(Watched) <= watches

\* The exit of a watched process that a Live tick sees is saved: the debounce,
\* meant for repetitions, never swallows a recording.
SeenExitIsSaved ==
    [][LiveTick /\ kept > 0 => saves' = saves + Cardinality(Gone)]_recordingVars

\* README, Recording & Replay: when a watched process exits, the recording is
\* saved; at the latest by the first Live tick after its exit, if there is
\* anything to save.
ExitIsRecorded ==
    [][LiveTick /\ kept > 0 => \A p \in Watched :
          p \notin living \/ births[p] # watching[p] => since'[p] = 0]_recordingVars
=============================================================================
