--------------------------- MODULE FileDataSource ---------------------------
(* file_data_source.js: loads the flags of several files, and loads them all again when
   fs.watch reports a change of one.  The file system is external: a read or a stat
   looks at the file at some moment before its callback runs.  Every write gives the file
   another modification time and is reported; two writes before the first report is
   looked at are the change that fs.watch reports twice.

   The callbacks of a chain of promises run at once after the callback that resolves
   the first, and are part of its action.  Operators named <name>_<variant> are
   mistakes the runs must detect.                                            *)
EXTENDS Naturals, Sequences, FiniteSets

CONSTANTS
  Paths,       \* options.paths
  Loads,       \* bound: loads under way at a time, the one of start() included
  Checks,      \* bound: stat calls of maybeReloadForPath under way at a time
  FirstLoad,   \* the load of start()
  States,      \* bound: states a file may be in
  MaxWrites,   \* bound: changes of the files
  None         \* no value

Path == {Paths[i] : i \in DOMAIN Paths}

ASSUME FileAssumption ==
  /\ Paths \in Seq(Path) /\ Paths # <<>>
  /\ States \subseteq {"good", "bad", "missing"}
  /\ FirstLoad \in Loads /\ MaxWrites \in Nat
  /\ None \notin 0..MaxWrites /\ None \notin [Path -> 0..MaxWrites]

VARIABLES
  file,            \* modification time and state of every file
  events,          \* reports of fs.watch, not delivered yet
  checks,          \* stat calls of maybeReloadForPath
  load,            \* calls of loadAllPromise
  timers,          \* reload timers that are set
  timestamps,      \* of that name; None is undefined
  pendingUpdate,   \* of that name
  stored,          \* modification times of the contents init() was last given, or None
  outcome,         \* what start() reported
  watching,        \* the watchers are open
  raced            \* history: two loads overlapped, or a file changed between read and stat

diskVars == <<file, events>>
sourceVars == <<checks, load, timers, timestamps, pendingUpdate>>
resultVars == <<stored, outcome, raced>>
vars == <<diskVars, sourceVars, resultVars, watching>>

Nothing == [p \in Path |-> None]
Idle == [stage |-> "idle", at |-> 1, read |-> Nothing, mtime |-> None]
Started == [Idle EXCEPT !.stage = "reading"]
NoCheck == [stage |-> "free", path |-> None, mtime |-> None]

\* start() has opened the watchers and begun to load.
Init ==
  /\ \E state \in [Path -> States] :
       file = [p \in Path |-> [mtime |-> 0, state |-> state[p]]]
  /\ events = [p \in Path |-> 0]
  /\ checks = [c \in Checks |-> NoCheck]
  /\ load = [l \in Loads |-> IF l = FirstLoad THEN Started ELSE Idle]
  /\ timers = 0 /\ timestamps = Nothing /\ pendingUpdate = FALSE
  /\ stored = None /\ outcome = "none" /\ raced = FALSE
  /\ watching \in BOOLEAN     \* autoUpdate; fs.watch throws for a file it cannot find
  /\ watching => \A p \in Path : file[p].state # "missing"

-----------------------------------------------------------------------------
(* The file system *)

Written == Cardinality({w \in Path \X (1..MaxWrites) : w[2] <= file[w[1]].mtime})

\* A file that was removed does not come back: its watcher would not see it.
Write(p, state) ==
  /\ Written < MaxWrites /\ file[p].state # "missing"
  /\ file' = [file EXCEPT ![p] = [mtime |-> file[p].mtime + 1, state |-> state]]
  /\ events' = IF watching THEN [events EXCEPT ![p] = @ + 1] ELSE events
  /\ UNCHANGED <<sourceVars, resultVars, watching>>

Mtime(p) == IF file[p].state = "missing" THEN None ELSE file[p].mtime

-----------------------------------------------------------------------------
(* loadFilePromise, loadAllPromise *)

FileOf(l) == Paths[load[l].at]

\* A load that fails leaves the time stamps of the files before behind.  start() reports
\* it, a reload does not.
Fail_Silently(l) == load' = [load EXCEPT ![l] = Idle] /\ UNCHANGED outcome
Fail(l) ==
  /\ load' = [load EXCEPT ![l] = Idle]
  /\ outcome' = IF l = FirstLoad /\ outcome = "none" THEN "failed" ELSE outcome

\* The file is read, parsed and added to the load's data, then its stat is asked for.
ReadFile(l) ==
  /\ load[l].stage = "reading"
  /\ IF file[FileOf(l)].state = "good"
       THEN /\ load' = [load EXCEPT ![l].stage = "statting",
                                    ![l].read[FileOf(l)] = file[FileOf(l)].mtime]
            /\ UNCHANGED outcome
       ELSE Fail(l)
  /\ UNCHANGED <<diskVars, checks, timers, timestamps, pendingUpdate, stored, raced, watching>>

StatFile(l) ==
  /\ load[l].stage = "statting"
  /\ load' = [load EXCEPT ![l].stage = "statted", ![l].mtime = Mtime(FileOf(l))]
  /\ UNCHANGED <<diskVars, checks, timers, timestamps, pendingUpdate, resultVars, watching>>

HasMore_OneTooMany(l) == load[l].at <= Len(Paths)
HasMore(l) == load[l].at < Len(Paths)

\* The time stamp is kept; the next file is read, or the data goes to the store.
StatCallback(l) ==
  /\ load[l].stage = "statted"
  /\ IF load[l].mtime = None
       THEN Fail(l) /\ UNCHANGED <<timestamps, stored, raced>>
       ELSE /\ timestamps' = [timestamps EXCEPT ![FileOf(l)] = load[l].mtime]
            /\ IF HasMore(l)
                 THEN /\ load' = [load EXCEPT ![l].stage = "reading", ![l].at = @ + 1,
                                              ![l].mtime = None]
                      /\ UNCHANGED <<stored, outcome, raced>>
                 ELSE /\ load' = [load EXCEPT ![l] = Idle]
                      /\ stored' = load[l].read
                      /\ raced' = (raced \/ timestamps' # stored')
                      /\ outcome' = IF outcome = "none" /\ l = FirstLoad THEN "ready" ELSE outcome
  /\ UNCHANGED <<diskVars, checks, timers, pendingUpdate, watching>>

-----------------------------------------------------------------------------
(* maybeReloadForPath *)

\* A report of fs.watch: the file's stat is asked for, unless a reload is pending.
WatchEvent(p) ==
  /\ watching /\ events[p] > 0
  /\ events' = [events EXCEPT ![p] = @ - 1]
  /\ IF pendingUpdate THEN UNCHANGED checks
     ELSE \E c \in Checks :
            /\ checks[c].stage = "free"
            /\ checks' = [checks EXCEPT ![c] = [stage |-> "asked", path |-> p, mtime |-> None]]
  /\ UNCHANGED <<file, load, timers, timestamps, pendingUpdate, resultVars, watching>>

StatCheck(c) ==
  /\ checks[c].stage = "asked"
  /\ checks' = [checks EXCEPT ![c].stage = "answered", ![c].mtime = Mtime(checks[c].path)]
  /\ UNCHANGED <<diskVars, load, timers, timestamps, pendingUpdate, resultVars, watching>>

Outdated_IfKnown(c) ==
  timestamps[checks[c].path] \notin {None, checks[c].mtime}
Outdated(c) == timestamps[checks[c].path] # checks[c].mtime

\* A stat that failed is only logged.
CheckCallback(c) ==
  /\ checks[c].stage = "answered"
  /\ checks' = [checks EXCEPT ![c] = NoCheck]
  /\ IF checks[c].mtime # None /\ Outdated(c)
       THEN pendingUpdate' = TRUE /\ timers' = timers + 1
       ELSE UNCHANGED <<pendingUpdate, timers>>
  /\ UNCHANGED <<diskVars, load, timestamps, resultVars, watching>>

PendingAfterReload_Kept == pendingUpdate
PendingAfterReload == FALSE

\* The timer of a reload.
Reload ==
  /\ timers > 0
  /\ timers' = timers - 1
  /\ pendingUpdate' = PendingAfterReload
  /\ \E l \in Loads : /\ load[l].stage = "idle"
                      /\ load' = [load EXCEPT ![l] = Started]
  /\ raced' = (raced \/ \E l \in Loads : load[l].stage # "idle")
  /\ UNCHANGED <<diskVars, checks, timestamps, stored, outcome, watching>>

\* stop() closes the watchers; timers and loads go on.
Stop ==
  /\ watching
  /\ watching' = FALSE
  /\ events' = [p \in Path |-> 0]
  /\ UNCHANGED <<file, sourceVars, resultVars>>

Next ==
  \/ \E p \in Path, state \in States : Write(p, state)
  \/ \E l \in Loads : ReadFile(l) \/ StatFile(l) \/ StatCallback(l)
  \/ \E p \in Path : WatchEvent(p)
  \/ \E c \in Checks : StatCheck(c) \/ CheckCallback(c)
  \/ Reload
  \/ Stop

\* Everything that was asked of the file system or of a timer happens.
Fairness ==
  /\ \A l \in Loads : WF_vars(ReadFile(l)) /\ WF_vars(StatFile(l)) /\ WF_vars(StatCallback(l))
  /\ \A p \in Path : WF_vars(WatchEvent(p))
  /\ \A c \in Checks : WF_vars(StatCheck(c)) /\ WF_vars(CheckCallback(c))
  /\ WF_vars(Reload)

Spec == Init /\ [][Next]_vars /\ Fairness

-----------------------------------------------------------------------------
(* Properties *)

Stamp == 0..MaxWrites \cup {None}

\* Every variable has a value of its type; in particular no load walks past the last path.
TypeOK ==
  /\ file \in [Path -> [mtime : 0..MaxWrites, state : States]]
  /\ events \in [Path -> Nat] /\ timers \in Nat
  /\ checks \in [Checks -> {NoCheck} \cup
                           [stage : {"asked", "answered"}, path : Path, mtime : Stamp]]
  /\ load \in [Loads -> [stage : {"idle", "reading", "statting", "statted"},
                         at : DOMAIN Paths, read : [Path -> Stamp], mtime : Stamp]]
  /\ timestamps \in [Path -> Stamp] /\ pendingUpdate \in BOOLEAN
  /\ stored \in [Path -> 0..MaxWrites] \cup {None}
  /\ outcome \in {"none", "ready", "failed"}
  /\ watching \in BOOLEAN /\ raced \in BOOLEAN

Current == stored # None /\ \A p \in Path : stored[p] = file[p].mtime
Readable == \A p \in Path : file[p].state = "good"

Quiet ==
  /\ timers = 0 /\ \A p \in Path : events[p] = 0
  /\ \A c \in Checks : checks[c].stage = "free"
  /\ \A l \in Loads : load[l].stage = "idle"

\* With the watchers open and nothing under way, the store has the files' contents,
\* although the time stamps alone decide what is loaded again.  Excused are files that
\* cannot be read now, and the races that raced records.
CurrentWhenQuiet == (watching /\ Quiet) => (raced \/ ~Readable \/ Current)

\* The loads come to an end, and with them the files' contents are in the store.
EventuallyCurrent == <>[](Quiet /\ (watching => raced \/ ~Readable \/ Current))

\* start() calls back, whatever the files hold and whatever reloads overtake it.
StartAnswered == <>(outcome # "none")

\* index.d.ts says that the flags are reloaded whenever one of the files is modified: in
\* the end the store has the contents of files that can be read.
ReloadsWheneverModified == <>[](watching /\ Readable => Current)
=============================================================================
