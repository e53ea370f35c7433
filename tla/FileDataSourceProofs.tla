------------------------ MODULE FileDataSourceProofs ------------------------
(* The store ends up with the files' contents, for any number of files, loads, checks
   and changes, whatever the order of reads, stats, reports and timers.

   What makes CurrentWhenQuiet inductive is that the source always owes a reload or a
   look at what has changed since the stat of the file (Notice), or that the file which
   made the last load fail is as bad as it was (Follows).                    *)
EXTENDS FileDataSource, FiniteSetTheorems, SequenceTheorems, TLAPS

Active(l) == load[l].stage # "idle"

\* A load has read the files up to the one it has come to.
LoadInv ==
  \A l \in Loads :
    /\ \A i \in 1..load[l].at - 1 : load[l].read[Paths[i]] # None
    /\ load[l].stage \in {"statting", "statted"} => load[l].read[FileOf(l)] # None

PendingInv == pendingUpdate => timers > 0

\* No stat is of the future.
PastOf(t, p) == t = None \/ t <= file[p].mtime
StampInv ==
  /\ \A p \in Path : PastOf(timestamps[p], p)
  /\ \A l \in Loads : load[l].stage = "statted" => PastOf(load[l].mtime, FileOf(l))

OneLoad == ~raced => \A l, m \in Loads : Active(l) /\ Active(m) => l = m

\* The state of file p as it is now has been, or will be, compared with its time stamp.
Notice(p) ==
  \/ events[p] > 0
  \/ \E c \in Checks :
       /\ checks[c].path = p
       /\ \/ checks[c].stage = "asked"
          \/ checks[c].stage = "answered" /\ checks[c].mtime = file[p].mtime

Known(p) == timestamps[p] = file[p].mtime \/ Notice(p)
WillReload(p) == Notice(p) /\ timestamps[p] # file[p].mtime

\* A load that is under way, has ended well, or has failed.
Loading ==
  \E l \in Loads :
    /\ Active(l)
    /\ \A i \in 1..load[l].at - 1 : Known(Paths[i])
    /\ load[l].stage = "statted" =>
         load[l].mtime = file[FileOf(l)].mtime \/ WillReload(FileOf(l))
Loaded ==
  /\ \A l \in Loads : ~Active(l)
  /\ stored # None /\ \A p \in Path : stored[p] = timestamps[p] /\ Known(p)
Failed ==
  /\ \A l \in Loads : ~Active(l)
  /\ \E p \in Path : file[p].state # "good" \/ WillReload(p)

Follows ==
  watching /\ ~raced =>
    \/ timers > 0
    \/ \E p \in Path : file[p].state = "missing"
    \/ Loading \/ Loaded \/ Failed

Inv == TypeOK /\ LoadInv /\ PendingInv /\ StampInv /\ OneLoad /\ Follows

-----------------------------------------------------------------------------
(* Types *)

LEMMA PathFacts ==
  /\ DOMAIN Paths = 1..Len(Paths) /\ Len(Paths) \in Nat /\ Len(Paths) > 0
  /\ \A i \in 1..Len(Paths) : Paths[i] \in Path
  /\ \A p \in Path : \E i \in 1..Len(Paths) : p = Paths[i]
  /\ IsFiniteSet(Path)
<1>1. Paths \in Seq(Path) /\ Paths # <<>>
  BY FileAssumption
<1>2. DOMAIN Paths = 1..Len(Paths) /\ Len(Paths) \in Nat /\ Len(Paths) > 0
  BY <1>1, EmptySeq
<1>3. \A i \in 1..Len(Paths) : Paths[i] \in Path
  BY <1>2 DEF Path
<1>4. \A p \in Path : \E i \in 1..Len(Paths) : p = Paths[i]
  BY <1>2 DEF Path
<1>5. IsFiniteSet(Path)
  <2>1. IsFiniteSet(DOMAIN Paths)
    BY <1>2, FS_Interval
  <2>2. Paths \in Surjection(DOMAIN Paths, Path)
    BY <1>1 DEF Surjection, Path
  <2> QED
    BY <2>1, <2>2, FS_Surjection
<1> QED
  BY <1>2, <1>3, <1>4, <1>5

LEMMA LoadFacts ==
  ASSUME TypeOK, NEW l \in Loads
  PROVE  /\ load[l].at \in 1..Len(Paths) /\ FileOf(l) \in Path
         /\ load[l].read \in [Path -> Stamp] /\ load[l].mtime \in Stamp
         /\ load[l].stage \in {"idle", "reading", "statting", "statted"}
  BY PathFacts DEF TypeOK, FileOf

\* The bound on the writes bounds the modification times.
LEMMA WriteBound ==
  ASSUME TypeOK, NEW p \in Path, Written < MaxWrites PROVE file[p].mtime + 1 \in 0..MaxWrites
<1> DEFINE all == {w \in Path \X (1..MaxWrites) : w[2] <= file[w[1]].mtime}
           mine == {<<p, t>> : t \in 1..MaxWrites}
<1>1. MaxWrites \in Nat /\ file[p].mtime \in 0..MaxWrites
  BY FileAssumption DEF TypeOK
<1> SUFFICES ASSUME file[p].mtime = MaxWrites PROVE FALSE
  BY <1>1
<1>2. IsFiniteSet(all)
  <2>1. IsFiniteSet(1..MaxWrites)
    BY <1>1, FS_Interval
  <2>2. IsFiniteSet(Path \X (1..MaxWrites))
    BY <2>1, PathFacts, FS_Product
  <2> QED
    BY <2>2, FS_Subset
<1>3. mine \subseteq all
  BY <1>1
<1>4. Cardinality(mine) = MaxWrites
  <2> DEFINE f == [t \in 1..MaxWrites |-> <<p, t>>]
  <2>1. f \in Bijection(1..MaxWrites, mine)
    BY DEF Bijection, Injection, Surjection, IsInjective
  <2>2. IsFiniteSet(1..MaxWrites) /\ Cardinality(1..MaxWrites) = MaxWrites
    BY <1>1, FS_Interval
  <2> QED
    BY <2>1, <2>2, FS_Bijection DEF ExistsBijection
<1>5. Cardinality(mine) <= Cardinality(all)
  BY <1>2, <1>3, FS_Subset
<1> QED
  BY <1>1, <1>2, <1>4, <1>5, FS_CardinalityType DEF Written

LEMMA InitType == Init => TypeOK
<1> SUFFICES ASSUME Init PROVE TypeOK
  OBVIOUS
<1>1. file \in [Path -> [mtime : 0..MaxWrites, state : States]]
  BY FileAssumption DEF Init
<1>2. Nothing \in [Path -> Stamp] /\ 1 \in DOMAIN Paths
  BY PathFacts DEF Nothing, Stamp
<1>3. load \in [Loads -> [stage : {"idle", "reading", "statting", "statted"},
                          at : DOMAIN Paths, read : [Path -> Stamp], mtime : Stamp]]
  BY <1>2 DEF Init, Started, Idle, Stamp
<1> QED
  BY <1>1, <1>2, <1>3 DEF Init, TypeOK, NoCheck, Stamp

CheckRecord == [stage : {"asked", "answered"}, path : Path, mtime : Stamp]

LEMMA CheckFacts ==
  ASSUME TypeOK, NEW c \in Checks
  PROVE  \/ checks[c] = NoCheck /\ checks[c].stage = "free"
         \/ checks[c] \in CheckRecord
  BY DEF TypeOK, NoCheck, CheckRecord

\* What a handler makes of the record of a load is one again.
LoadRecord == [stage : {"idle", "reading", "statting", "statted"},
               at : DOMAIN Paths, read : [Path -> Stamp], mtime : Stamp]

LEMMA IdleType == {Idle, Started} \subseteq LoadRecord
  BY PathFacts DEF Idle, Started, Nothing, Stamp, LoadRecord

LEMMA ReadType ==
  ASSUME NEW r \in LoadRecord, NEW p \in Path, NEW t \in Stamp
  PROVE  [r EXCEPT !.stage = "statting", !.read = [r.read EXCEPT ![p] = t]] \in LoadRecord
<1>1. [r.read EXCEPT ![p] = t] \in [Path -> Stamp]
  BY DEF LoadRecord
<1> QED
  BY <1>1 DEF LoadRecord

\* At its last file a load has read all of them.
LEMMA AllRead ==
  ASSUME TypeOK, LoadInv, NEW l \in Loads, StatCallback(l), ~HasMore(l)
  PROVE  load[l].read \in [Path -> 0..MaxWrites]
<1>1. load[l].at = Len(Paths)
  BY LoadFacts, PathFacts DEF HasMore
<1>2. \A i \in 1..Len(Paths) : load[l].read[Paths[i]] # None
  BY <1>1, PathFacts DEF LoadInv, StatCallback, FileOf
<1>3. \A p \in Path : load[l].read[p] # None
  BY <1>2, PathFacts
<1>4. load[l].read \in [Path -> Stamp]
  BY LoadFacts
<1> QED
  BY <1>3, <1>4 DEF Stamp

LEMMA NextType == ASSUME TypeOK, LoadInv, [Next]_vars PROVE TypeOK'
<1> USE DEF diskVars, sourceVars, resultVars
<1>0. load \in [Loads -> LoadRecord]
  BY DEF TypeOK, LoadRecord
<1>1. ASSUME NEW p \in Path, NEW state \in States, Write(p, state) PROVE TypeOK'
  <2>1. file[p].mtime + 1 \in 0..MaxWrites
    BY <1>1, WriteBound DEF Write
  <2>2. file' \in [Path -> [mtime : 0..MaxWrites, state : States]]
    BY <1>1, <2>1 DEF Write, TypeOK
  <2>3. events' \in [Path -> Nat]
    BY <1>1 DEF Write, TypeOK
  <2> QED
    BY <1>1, <2>2, <2>3 DEF Write, TypeOK
<1>2. ASSUME NEW l \in Loads, ReadFile(l) PROVE TypeOK'
  <2>1. FileOf(l) \in Path /\ file[FileOf(l)].mtime \in Stamp
    BY LoadFacts DEF TypeOK, Stamp
  <2>2. load' \in [Loads -> LoadRecord]
    <3>1. CASE file[FileOf(l)].state = "good"
      <4> DEFINE r == [load[l] EXCEPT
             !.stage = "statting",
             !.read = [load[l].read EXCEPT ![FileOf(l)] = file[FileOf(l)].mtime]]
      <4>1. r \in LoadRecord
        BY <1>0, <2>1, ReadType
      <4>2. load' = [load EXCEPT ![l] = r]
        BY <1>0, <1>2, <3>1 DEF ReadFile, LoadRecord
      <4> QED
        BY <1>0, <4>1, <4>2
    <3>2. CASE file[FileOf(l)].state # "good"
      BY <1>0, <1>2, <3>2, IdleType DEF ReadFile, Fail
    <3> QED
      BY <3>1, <3>2
  <2>3. outcome' \in {"none", "ready", "failed"}
    BY <1>2 DEF ReadFile, Fail, TypeOK
  <2> QED
    BY <1>2, <2>2, <2>3 DEF ReadFile, TypeOK, LoadRecord
<1>3. ASSUME NEW l \in Loads, StatFile(l) PROVE TypeOK'
  <2>1. FileOf(l) \in Path /\ Mtime(FileOf(l)) \in Stamp
    BY LoadFacts DEF TypeOK, Stamp, Mtime
  <2>2. load' \in [Loads -> LoadRecord]
    BY <1>0, <1>3, <2>1 DEF StatFile, LoadRecord
  <2> QED
    BY <1>3, <2>2 DEF StatFile, TypeOK, LoadRecord
<1>4. ASSUME NEW l \in Loads, StatCallback(l) PROVE TypeOK'
  <2>1. load[l].at \in 1..Len(Paths) /\ FileOf(l) \in Path /\ load[l].mtime \in Stamp
    BY LoadFacts
  <2>2. load' \in [Loads -> LoadRecord]
    <3>1. CASE load[l].mtime # None /\ HasMore(l)
      <4>1. load[l].at + 1 \in DOMAIN Paths
        BY <2>1, <3>1, PathFacts DEF HasMore
      <4> DEFINE r == [load[l] EXCEPT !.stage = "reading", !.at = @ + 1, !.mtime = None]
      <4>2. r \in LoadRecord
        BY <1>0, <4>1 DEF LoadRecord, Stamp
      <4>3. load' = [load EXCEPT ![l] = r]
        BY <1>0, <1>4, <3>1 DEF StatCallback, LoadRecord
      <4> QED
        BY <1>0, <4>2, <4>3
    <3>2. CASE ~(load[l].mtime # None /\ HasMore(l))
      BY <1>0, <1>4, <3>2, IdleType DEF StatCallback, Fail
    <3> QED
      BY <3>1, <3>2
  <2>3. timestamps' \in [Path -> Stamp]
    BY <1>4, <2>1 DEF StatCallback, TypeOK
  <2>4. stored' \in [Path -> 0..MaxWrites] \cup {None}
    <3>1. CASE load[l].mtime # None /\ ~HasMore(l)
      <4>1. load[l].read \in [Path -> 0..MaxWrites]
        BY <1>4, <3>1, AllRead
      <4> QED
        BY <1>4, <3>1, <4>1 DEF StatCallback
    <3>2. CASE ~(load[l].mtime # None /\ ~HasMore(l))
      BY <1>4, <3>2 DEF StatCallback, TypeOK
    <3> QED
      BY <3>1, <3>2
  <2>5. outcome' \in {"none", "ready", "failed"} /\ raced' \in BOOLEAN
    BY <1>4 DEF StatCallback, Fail, TypeOK
  <2> QED
    BY <1>4, <2>2, <2>3, <2>4, <2>5 DEF StatCallback, TypeOK, LoadRecord
<1>5. ASSUME NEW p \in Path, WatchEvent(p) PROVE TypeOK'
  <2>1. events' \in [Path -> Nat]
    BY <1>5 DEF WatchEvent, TypeOK
  <2>2. [stage |-> "asked", path |-> p, mtime |-> None] \in CheckRecord
    BY DEF CheckRecord, Stamp
  <2>3. checks' \in [Checks -> {NoCheck} \cup CheckRecord]
    BY <1>5, <2>2 DEF WatchEvent, TypeOK, CheckRecord
  <2> QED
    BY <1>5, <2>1, <2>3 DEF WatchEvent, TypeOK, CheckRecord
<1>6. ASSUME NEW c \in Checks, StatCheck(c) PROVE TypeOK'
  <2>1. checks[c] \in CheckRecord
    BY <1>6, CheckFacts DEF StatCheck
  <2>2. Mtime(checks[c].path) \in Stamp
    BY <2>1 DEF Mtime, TypeOK, Stamp, CheckRecord
  <2> DEFINE r == [checks[c] EXCEPT !.stage = "answered", !.mtime = Mtime(checks[c].path)]
  <2>3. r \in CheckRecord
    BY <2>1, <2>2 DEF CheckRecord
  <2>4. checks' = [checks EXCEPT ![c] = r]
    BY <1>6, <2>1 DEF StatCheck, TypeOK, CheckRecord
  <2>5. checks' \in [Checks -> {NoCheck} \cup CheckRecord]
    BY <2>3, <2>4 DEF TypeOK, CheckRecord
  <2> QED
    BY <1>6, <2>5 DEF StatCheck, TypeOK, CheckRecord
<1>7. ASSUME NEW c \in Checks, CheckCallback(c) PROVE TypeOK'
  <2>1. checks' \in [Checks -> {NoCheck} \cup CheckRecord]
    BY <1>7 DEF CheckCallback, TypeOK, CheckRecord
  <2>2. timers' \in Nat
    BY <1>7 DEF CheckCallback, TypeOK
  <2>3. pendingUpdate' \in BOOLEAN
    BY <1>7, Zenon DEF CheckCallback, TypeOK
  <2> QED
    BY <1>7, <2>1, <2>2, <2>3 DEF CheckCallback, TypeOK, CheckRecord
<1>8. CASE Reload
  <2>1. load' \in [Loads -> LoadRecord]
    BY <1>0, <1>8, IdleType DEF Reload
  <2>2. timers' \in Nat
    BY <1>8 DEF Reload, TypeOK
  <2>3. pendingUpdate' \in BOOLEAN /\ raced' \in BOOLEAN
    BY <1>8, Zenon DEF Reload, PendingAfterReload, TypeOK
  <2> QED
    BY <1>8, <2>1, <2>2, <2>3 DEF Reload, PendingAfterReload, TypeOK, LoadRecord
<1>9. CASE Stop
  BY <1>9 DEF Stop, TypeOK
<1>10. CASE UNCHANGED vars
  BY <1>10 DEF vars, TypeOK
<1> QED
  BY <1>1, <1>2, <1>3, <1>4, <1>5, <1>6, <1>7, <1>8, <1>9, <1>10 DEF Next

-----------------------------------------------------------------------------
(* What an action makes of the loads *)

LEMMA ReadEffect ==
  ASSUME TypeOK, NEW l \in Loads, ReadFile(l)
  PROVE  /\ \A m \in Loads \ {l} : load'[m] = load[m]
         /\ file[FileOf(l)].state = "good" =>
              /\ load'[l].stage = "statting" /\ load'[l].at = load[l].at
              /\ load'[l].mtime = load[l].mtime
              /\ load'[l].read = [load[l].read EXCEPT ![FileOf(l)] = file[FileOf(l)].mtime]
         /\ file[FileOf(l)].state # "good" => load'[l] = Idle
<1>1. load \in [Loads -> LoadRecord]
  BY DEF TypeOK, LoadRecord
<1>2. CASE file[FileOf(l)].state = "good"
  BY <1>1, <1>2 DEF ReadFile, LoadRecord
<1>3. CASE file[FileOf(l)].state # "good"
  BY <1>1, <1>3 DEF ReadFile, Fail
<1> QED
  BY <1>2, <1>3

LEMMA StatEffect ==
  ASSUME TypeOK, NEW l \in Loads, StatFile(l)
  PROVE  /\ \A m \in Loads \ {l} : load'[m] = load[m]
         /\ load'[l].stage = "statted" /\ load'[l].at = load[l].at
         /\ load'[l].read = load[l].read /\ load'[l].mtime = Mtime(FileOf(l))
<1>1. load \in [Loads -> LoadRecord]
  BY DEF TypeOK, LoadRecord
<1> QED
  BY <1>1 DEF StatFile, LoadRecord

Advances(l) == load[l].mtime # None /\ HasMore(l)

LEMMA CallbackEffect ==
  ASSUME TypeOK, NEW l \in Loads, StatCallback(l)
  PROVE  /\ \A m \in Loads \ {l} : load'[m] = load[m]
         /\ Advances(l) =>
              /\ load'[l].stage = "reading" /\ load'[l].at = load[l].at + 1
              /\ load'[l].read = load[l].read /\ load'[l].mtime = None
         /\ ~Advances(l) => load'[l] = Idle
<1>1. load \in [Loads -> LoadRecord]
  BY DEF TypeOK, LoadRecord
<1>2. CASE Advances(l)
  <2>1. load' = [load EXCEPT ![l].stage = "reading", ![l].at = @ + 1, ![l].mtime = None]
    BY <1>2, Zenon DEF StatCallback, Advances
  <2> QED
    BY <1>1, <1>2, <2>1 DEF LoadRecord
<1>3. CASE ~Advances(l)
  <2>1. load' = [load EXCEPT ![l] = Idle]
    BY <1>3, Zenon DEF StatCallback, Advances, Fail
  <2> QED
    BY <1>1, <1>3, <2>1
<1> QED
  BY <1>2, <1>3

\* Only these actions, and the timer, touch the loads.
LEMMA OthersKeepLoads ==
  ASSUME Next \/ UNCHANGED vars, ~Reload,
         \A l \in Loads : ~ReadFile(l) /\ ~StatFile(l) /\ ~StatCallback(l)
  PROVE  UNCHANGED <<load, timestamps, stored, raced, outcome>>
BY DEF Next, vars, diskVars, sourceVars, resultVars,
       Write, WatchEvent, StatCheck, CheckCallback, Stop

-----------------------------------------------------------------------------
(* The smaller invariants *)

\* The timer starts a load that reads from the first path.
LEMMA ReloadEffect ==
  ASSUME TypeOK, Reload
  PROVE  \E l \in Loads :
           /\ load[l].stage = "idle" /\ load'[l] = Started
           /\ \A m \in Loads \ {l} : load'[m] = load[m]
BY DEF Reload, TypeOK

LEMMA LoadStep ==
  ASSUME TypeOK, [Next]_vars, NEW m \in Loads
  PROVE  \/ load'[m] = load[m]
         \/ load'[m] = Idle
         \/ Reload /\ load[m].stage = "idle" /\ load'[m] = Started
         \/ ReadFile(m) /\ file[FileOf(m)].state = "good"
         \/ StatFile(m)
         \/ StatCallback(m) /\ Advances(m)
<1>1. CASE Reload
  BY <1>1, ReloadEffect
<1>2. ASSUME NEW l \in Loads, l # m, ReadFile(l) \/ StatFile(l) \/ StatCallback(l)
      PROVE  load'[m] = load[m]
  BY <1>2, ReadEffect, StatEffect, CallbackEffect
<1>3. CASE ReadFile(m)
  BY <1>3, ReadEffect
<1>4. CASE StatCallback(m)
  BY <1>4, CallbackEffect
<1>5. CASE ~Reload /\ \A l \in Loads : ~ReadFile(l) /\ ~StatFile(l) /\ ~StatCallback(l)
  BY <1>5, OthersKeepLoads
<1> QED
  BY <1>1, <1>2, <1>3, <1>4, <1>5

LEMMA RacedStays == ASSUME TypeOK, [Next]_vars, raced PROVE raced'
<1>1. CASE Reload
  BY <1>1, Zenon DEF Reload
<1>2. ASSUME NEW l \in Loads, ReadFile(l) \/ StatFile(l) \/ StatCallback(l) PROVE raced'
  BY <1>2, Zenon DEF ReadFile, StatFile, StatCallback, resultVars
<1> QED
  BY <1>1, <1>2, OthersKeepLoads

LEMMA NextLoadInv == ASSUME TypeOK, LoadInv, [Next]_vars PROVE LoadInv'
<1> SUFFICES ASSUME NEW m \in Loads
             PROVE  /\ \A i \in 1..load'[m].at - 1 : load'[m].read[Paths[i]] # None
                    /\ load'[m].stage \in {"statting", "statted"} =>
                         load'[m].read[Paths[load'[m].at]] # None
  BY DEF LoadInv, FileOf
<1>1. CASE load'[m] = load[m]
  BY <1>1 DEF LoadInv, FileOf
<1>2. CASE load'[m] \in {Idle, Started}
  BY <1>2 DEF Idle, Started
<1>3. CASE ReadFile(m) /\ file[FileOf(m)].state = "good"
  <2>1. /\ load'[m].at = load[m].at /\ load[m].at \in 1..Len(Paths)
        /\ load'[m].read = [load[m].read EXCEPT ![FileOf(m)] = file[FileOf(m)].mtime]
    BY <1>3, ReadEffect, LoadFacts
  <2>2. FileOf(m) \in Path /\ load[m].read \in [Path -> Stamp]
    BY LoadFacts
  <2>3. file[FileOf(m)].mtime # None
    BY <2>2, FileAssumption DEF TypeOK
  <2>4. load'[m].read[FileOf(m)] # None
    BY <2>1, <2>2, <2>3
  <2>5. ASSUME NEW i \in 1..load[m].at - 1 PROVE load'[m].read[Paths[i]] # None
    <3>1. Paths[i] \in Path /\ load[m].read[Paths[i]] # None
      BY <2>1, PathFacts DEF LoadInv
    <3> QED
      BY <2>1, <2>2, <2>3, <3>1
  <2> QED
    BY <2>1, <2>4, <2>5 DEF FileOf
<1>4. CASE StatFile(m)
  <2>1. load'[m].at = load[m].at /\ load'[m].read = load[m].read
    BY <1>4, StatEffect
  <2> QED
    BY <1>4, <2>1 DEF StatFile, LoadInv, FileOf
<1>5. CASE StatCallback(m) /\ Advances(m)
  <2>1. /\ load'[m].at = load[m].at + 1 /\ load'[m].stage = "reading"
        /\ load'[m].read = load[m].read /\ load[m].at \in 1..Len(Paths)
    BY <1>5, CallbackEffect, LoadFacts
  <2>2. \A i \in 1..load[m].at : load[m].read[Paths[i]] # None
    BY <1>5, <2>1, PathFacts DEF LoadInv, StatCallback, FileOf
  <2> QED
    BY <2>1, <2>2, PathFacts
<1> QED
  BY <1>1, <1>2, <1>3, <1>4, <1>5, LoadStep

LEMMA NextPending == ASSUME TypeOK, PendingInv, [Next]_vars PROVE PendingInv'
<1>1. CASE Reload
  BY <1>1 DEF Reload, PendingAfterReload, PendingInv
<1>2. ASSUME NEW c \in Checks, CheckCallback(c) PROVE PendingInv'
  <2>1. CASE checks[c].mtime # None /\ Outdated(c)
    BY <1>2, <2>1 DEF CheckCallback, TypeOK, PendingInv
  <2>2. CASE ~(checks[c].mtime # None /\ Outdated(c))
    BY <1>2, <2>2 DEF CheckCallback, PendingInv
  <2> QED
    BY <2>1, <2>2
<1>3. ASSUME ~Reload, \A c \in Checks : ~CheckCallback(c)
      PROVE  UNCHANGED <<timers, pendingUpdate>>
  BY <1>3 DEF Next, vars, diskVars, sourceVars, resultVars,
       Write, WatchEvent, StatCheck, Stop, ReadFile, StatFile, StatCallback
<1> QED
  BY <1>1, <1>2, <1>3 DEF PendingInv

LEMMA NextOneLoad == ASSUME TypeOK, OneLoad, [Next]_vars PROVE OneLoad'
<1> SUFFICES ASSUME ~raced', NEW l \in Loads, NEW m \in Loads, Active(l)', Active(m)'
             PROVE  l = m
  BY DEF OneLoad
<1>1. CASE Reload
  BY <1>1, ReloadEffect DEF Reload, Active
<1>2. CASE ~Reload
  <2>1. ~raced
    BY RacedStays
  <2>2. ASSUME NEW k \in Loads, Active(k)' PROVE Active(k)
    <3>1. CASE load'[k] = load[k]
      BY <2>2, <3>1 DEF Active
    <3>2. CASE load'[k] = Idle
      BY <2>2, <3>2 DEF Active, Idle
    <3>3. CASE ReadFile(k) \/ StatFile(k) \/ StatCallback(k)
      BY <3>3 DEF ReadFile, StatFile, StatCallback, Active
    <3> QED
      BY <1>2, <3>1, <3>2, <3>3, LoadStep
  <2> QED
    BY <2>1, <2>2 DEF OneLoad
<1> QED
  BY <1>1, <1>2

LEMMA FileStep ==
  ASSUME TypeOK, [Next]_vars, NEW p \in Path
  PROVE  \/ file'[p] = file[p]
         \/ /\ file[p].state # "missing" /\ file'[p].mtime = file[p].mtime + 1
            /\ watching => events'[p] > 0
            /\ UNCHANGED <<sourceVars, resultVars, watching>>
<1>1. ASSUME NEW q \in Path, NEW state \in States, Write(q, state), q = p
      PROVE  /\ file[p].state # "missing" /\ file'[p].mtime = file[p].mtime + 1
             /\ watching => events'[p] > 0
             /\ UNCHANGED <<sourceVars, resultVars, watching>>
  BY <1>1 DEF Write, TypeOK
<1>2. ASSUME NEW q \in Path, NEW state \in States, Write(q, state), q # p
      PROVE  file'[p] = file[p]
  BY <1>2 DEF Write, TypeOK
<1>3. ASSUME \A q \in Path, state \in States : ~Write(q, state)
      PROVE  file' = file
  BY <1>3 DEF Next, vars, diskVars, WatchEvent, StatCheck, CheckCallback, Stop, Reload,
              ReadFile, StatFile, StatCallback
<1> QED
  BY <1>1, <1>2, <1>3

LEMMA NextStamp == ASSUME TypeOK, StampInv, [Next]_vars PROVE StampInv'
<1>1. \A p \in Path : file[p].mtime \in Nat /\ file'[p].mtime \in Nat
                      /\ file[p].mtime <= file'[p].mtime
  <2> SUFFICES ASSUME NEW p \in Path
               PROVE  file[p].mtime \in Nat /\ file'[p].mtime \in Nat
                      /\ file[p].mtime <= file'[p].mtime
    OBVIOUS
  <2>1. file[p].mtime \in Nat
    BY FileAssumption DEF TypeOK
  <2> QED
    BY <2>1, FileStep
<1>2. \A p \in Path, t \in Stamp : PastOf(t, p) => PastOf(t, p)'
  BY <1>1, FileAssumption DEF PastOf, Stamp
<1>3. \A l \in Loads : load[l].mtime \in Stamp /\ FileOf(l) \in Path
  BY LoadFacts
<1>4. ASSUME NEW p \in Path PROVE PastOf(timestamps[p], p)'
  <2>1. timestamps[p] \in Stamp /\ PastOf(timestamps[p], p)
    BY DEF TypeOK, StampInv
  <2>2. CASE timestamps'[p] = timestamps[p]
    BY <1>2, <2>1, <2>2 DEF PastOf
  <2>3. ASSUME NEW l \in Loads, StatCallback(l), timestamps'[p] # timestamps[p]
        PROVE  PastOf(timestamps[p], p)'
    <3>1. p = FileOf(l) /\ timestamps'[p] = load[l].mtime
      BY <1>3, <2>3 DEF StatCallback, TypeOK
    <3>2. PastOf(load[l].mtime, p)
      BY <2>3, <3>1 DEF StampInv, StatCallback
    <3> QED
      BY <1>2, <1>3, <3>1, <3>2 DEF PastOf
  <2>4. ASSUME NEW l \in Loads, ReadFile(l) \/ StatFile(l)
        PROVE  timestamps' = timestamps
    BY <2>4 DEF ReadFile, StatFile
  <2>5. Reload => timestamps' = timestamps
    BY DEF Reload
  <2> QED
    BY <2>2, <2>3, <2>4, <2>5, OthersKeepLoads
<1>5. ASSUME NEW l \in Loads, load'[l].stage = "statted"
      PROVE  PastOf(load[l].mtime, FileOf(l))'
  <2>1. CASE load'[l] = load[l]
    <3>1. PastOf(load[l].mtime, FileOf(l))
      BY <1>5, <2>1 DEF StampInv
    <3> QED
      BY <1>2, <1>3, <2>1, <3>1 DEF PastOf, FileOf
  <2>2. CASE StatFile(l)
    <3>1. load'[l].mtime = Mtime(FileOf(l)) /\ load'[l].at = load[l].at
      BY <2>2, StatEffect
    <3>2. Mtime(FileOf(l)) = None \/ Mtime(FileOf(l)) = file[FileOf(l)].mtime
      BY DEF Mtime
    <3>3. Mtime(FileOf(l)) \in Stamp /\ PastOf(Mtime(FileOf(l)), FileOf(l))
      BY <1>1, <1>3, <3>2 DEF PastOf, Stamp, TypeOK
    <3> QED
      BY <2>2, <3>1, <3>3 DEF StatFile, diskVars, PastOf, FileOf
  <2>3. ~(load'[l] = Idle \/ load'[l] = Started)
    BY <1>5 DEF Idle, Started
  <2>4. ~(ReadFile(l) /\ file[FileOf(l)].state = "good")
    BY <1>5, ReadEffect
  <2>5. ~(StatCallback(l) /\ Advances(l))
    BY <1>5, CallbackEffect
  <2> QED
    BY <2>1, <2>2, <2>3, <2>4, <2>5, LoadStep
<1> QED
  BY <1>4, <1>5 DEF StampInv

-----------------------------------------------------------------------------
(* What is owed is not forgotten *)

\* A step that leaves file p as it is leaves what is known of it.
LEMMA NoticeKept ==
  ASSUME TypeOK, PendingInv, [Next]_vars, watching', timers' = 0, timers = 0,
         NEW p \in Path, file[p].state # "missing", file'[p] = file[p], Notice(p)
  PROVE  Notice(p)' \/ timestamps[p] = file[p].mtime
<1>0. checks \in [Checks -> {NoCheck} \cup CheckRecord]
  BY DEF TypeOK, CheckRecord
<1>1. ASSUME NEW q \in Path, WatchEvent(q) PROVE Notice(p)'
  <2>1. \E c \in Checks : /\ checks[c].stage = "free"
                          /\ checks' = [checks EXCEPT ![c] =
                               [stage |-> "asked", path |-> q, mtime |-> None]]
    BY <1>1 DEF WatchEvent, PendingInv
  <2>2. PICK c \in Checks : /\ checks[c].stage = "free"
                            /\ checks' = [checks EXCEPT ![c] =
                                 [stage |-> "asked", path |-> q, mtime |-> None]]
    BY <2>1
  <2>3. /\ checks'[c].stage = "asked" /\ checks'[c].path = q
        /\ \A d \in Checks \ {c} : checks'[d] = checks[d]
    BY <1>0, <2>2
  <2>4. CASE p = q
    BY <2>3, <2>4 DEF Notice
  <2>5. CASE p # q
    <3>1. events'[p] = events[p]
      BY <1>1, <2>5 DEF WatchEvent, TypeOK
    <3> QED
      BY <2>2, <2>3, <3>1 DEF Notice
  <2> QED
    BY <2>4, <2>5
<1>2. ASSUME NEW c \in Checks, StatCheck(c) PROVE Notice(p)'
  <2>1. /\ \A d \in Checks \ {c} : checks'[d] = checks[d]
        /\ checks'[c].stage = "answered" /\ checks'[c].path = checks[c].path
        /\ checks'[c].mtime = Mtime(checks[c].path) /\ checks[c].stage = "asked"
    <3>1. checks[c] \in CheckRecord
      BY <1>2, CheckFacts DEF StatCheck
    <3> QED
      BY <1>0, <1>2, <3>1 DEF StatCheck, CheckRecord
  <2>2. UNCHANGED events /\ Mtime(p) = file[p].mtime
    BY <1>2 DEF StatCheck, diskVars, Mtime
  <2> QED
    BY <2>1, <2>2 DEF Notice
<1>3. ASSUME NEW c \in Checks, CheckCallback(c)
      PROVE  Notice(p)' \/ timestamps[p] = file[p].mtime
  <2>1. /\ \A d \in Checks \ {c} : checks'[d] = checks[d]
        /\ UNCHANGED events /\ checks[c].stage = "answered"
    BY <1>0, <1>3 DEF CheckCallback, diskVars
  <2>2. checks[c].mtime = None \/ timestamps[checks[c].path] = checks[c].mtime
    BY <1>3 DEF CheckCallback, Outdated
  <2>3. file[p].mtime # None
    BY FileAssumption DEF TypeOK
  <2> QED
    BY <2>1, <2>2, <2>3 DEF Notice
<1>4. ASSUME \A q \in Path : ~WatchEvent(q),
             \A c \in Checks : ~StatCheck(c) /\ ~CheckCallback(c)
      PROVE  Notice(p)'
  <2>1. events'[p] = events[p] /\ checks' = checks
    <3>1. ASSUME NEW q \in Path, NEW state \in States, Write(q, state)
          PROVE  events'[p] = events[p] /\ checks' = checks
      BY <3>1 DEF Write, TypeOK, sourceVars
    <3>2. ASSUME \A q \in Path, state \in States : ~Write(q, state)
          PROVE  events' = events /\ checks' = checks
      BY <1>4, <3>2 DEF Next, vars, diskVars, sourceVars, Stop, Reload,
                        ReadFile, StatFile, StatCallback
    <3> QED
      BY <3>1, <3>2
  <2> QED
    BY <2>1 DEF Notice
<1> QED
  BY <1>1, <1>2, <1>3, <1>4

LEMMA KnownKept ==
  ASSUME TypeOK, TypeOK', PendingInv, StampInv, [Next]_vars,
         watching, watching', timers' = 0, timers = 0,
         NEW p \in Path, file[p].state # "missing", timestamps'[p] = timestamps[p]
  PROVE  /\ Known(p) => Known(p)'
         /\ WillReload(p) => WillReload(p)'
         /\ file'[p] # file[p] => WillReload(p)'
<1>1. CASE file'[p] = file[p]
  <2>1. Notice(p) => Notice(p)' \/ timestamps[p] = file[p].mtime
    BY <1>1, NoticeKept
  <2> QED
    BY <1>1, <2>1 DEF Known, WillReload
<1>2. CASE file'[p] # file[p]
  <2>1. Notice(p)' /\ file'[p].mtime = file[p].mtime + 1
    BY <1>2, FileStep DEF Notice
  <2>2. file[p].mtime \in Nat
    BY FileAssumption DEF TypeOK
  <2>3. timestamps[p] # file[p].mtime + 1
    <3>1. timestamps[p] = None \/ timestamps[p] <= file[p].mtime
      BY DEF StampInv, PastOf
    <3>2. timestamps[p] \in Stamp
      BY DEF TypeOK
    <3>3. file[p].mtime + 1 # None
      BY <2>1, FileAssumption DEF TypeOK
    <3> QED
      BY <2>2, <3>1, <3>2, <3>3 DEF Stamp
  <2> QED
    BY <2>1, <2>3 DEF Known, WillReload
<1> QED
  BY <1>1, <1>2

-----------------------------------------------------------------------------
(* Every load is followed by what its files need *)

NoneMissing == \A p \in Path : file[p].state # "missing"
Progress == Loading \/ Loaded \/ Failed

\* A file changes, is reported or is looked at, and the loads stay as they are.
LEMMA ProgressKept ==
  ASSUME Inv, TypeOK', [Next]_vars, watching, watching', timers' = 0, timers = 0,
         NoneMissing, Progress, UNCHANGED <<load, timestamps, stored>>
  PROVE  Progress'
<1> USE DEF Inv
<1>1. \A p \in Path : /\ Known(p) => Known(p)'
                      /\ WillReload(p) => WillReload(p)'
                      /\ file'[p] # file[p] => WillReload(p)'
  BY KnownKept DEF NoneMissing
<1>2. \A l \in Loads : /\ Active(l)' <=> Active(l)
                       /\ load[l].at \in 1..Len(Paths) /\ FileOf(l) \in Path
                       /\ FileOf(l)' = FileOf(l)
  BY LoadFacts DEF Active, FileOf
<1>3. CASE Loading
  <2>1. PICK l \in Loads :
          /\ Active(l)
          /\ \A i \in 1..load[l].at - 1 : Known(Paths[i])
          /\ load[l].stage = "statted" =>
               load[l].mtime = file[FileOf(l)].mtime \/ WillReload(FileOf(l))
    BY <1>3 DEF Loading
  <2>2. \A i \in 1..load[l].at - 1 : Paths[i] \in Path
    BY <1>2, PathFacts
  <2>3. \A i \in 1..load[l].at - 1 : Known(Paths[i])'
    BY <1>1, <2>1, <2>2
  <2>4. load[l].stage = "statted" =>
          load[l].mtime = file'[FileOf(l)].mtime \/ WillReload(FileOf(l))'
    BY <1>1, <1>2, <2>1
  <2>5. Loading'
    BY <1>2, <2>1, <2>3, <2>4 DEF Loading, Active, FileOf
  <2> QED
    BY <2>5 DEF Progress
<1>4. CASE Loaded
  BY <1>1, <1>2, <1>4 DEF Loaded, Progress
<1>5. CASE Failed
  <2>1. PICK p \in Path : file[p].state # "good" \/ WillReload(p)
    BY <1>5 DEF Failed
  <2>2. file'[p].state # "good" \/ WillReload(p)'
    BY <1>1, <2>1
  <2> QED
    BY <1>2, <1>5, <2>2 DEF Failed, Progress
<1> QED
  BY <1>3, <1>4, <1>5 DEF Progress

\* The only load there is reads, or is told the time of, its file.
LEMMA ProgressOfLoad ==
  ASSUME Inv, ~raced, watching, timers = 0, NoneMissing, Progress,
         NEW l \in Loads, Active(l)
  PROVE  /\ \A m \in Loads : Active(m) => m = l
         /\ \A i \in 1..load[l].at - 1 : Known(Paths[i])
         /\ load[l].stage = "statted" =>
              load[l].mtime = file[FileOf(l)].mtime \/ WillReload(FileOf(l))
<1>1. \A m \in Loads : Active(m) => m = l
  BY DEF Inv, OneLoad
<1>2. Loading
  BY DEF Progress, Loaded, Failed
<1> QED
  BY <1>1, <1>2 DEF Loading

LEMMA ReadProgress ==
  ASSUME Inv, ~raced, watching, timers = 0, NoneMissing, Progress,
         NEW l \in Loads, ReadFile(l)
  PROVE  Progress'
<1>1. Active(l) /\ UNCHANGED <<file, events, checks, timestamps>>
  BY DEF ReadFile, Active, diskVars
<1>2. \A m \in Loads \ {l} : load'[m] = load[m] /\ ~Active(m)
  BY <1>1, ProgressOfLoad, ReadEffect DEF Inv
<1>3. \A p \in Path : (Known(p)' <=> Known(p)) /\ (WillReload(p)' <=> WillReload(p))
  BY <1>1 DEF Known, WillReload, Notice
<1>4. CASE file[FileOf(l)].state = "good"
  <2>1. load'[l].stage = "statting" /\ load'[l].at = load[l].at
    BY <1>4, ReadEffect DEF Inv
  <2>2. \A i \in 1..load[l].at - 1 : Paths[i] \in Path /\ Known(Paths[i])
    BY <1>1, ProgressOfLoad, LoadFacts, PathFacts DEF Inv
  <2>3. Loading'
    BY <1>3, <2>1, <2>2 DEF Loading, Active
  <2> QED
    BY <2>3 DEF Progress
<1>5. CASE file[FileOf(l)].state # "good"
  <2>1. load'[l] = Idle /\ FileOf(l) \in Path
    BY <1>5, ReadEffect, LoadFacts DEF Inv
  <2>2. \A m \in Loads : ~Active(m)'
    BY <1>2, <2>1 DEF Active, Idle
  <2>3. Failed'
    BY <1>1, <1>5, <2>1, <2>2 DEF Failed
  <2> QED
    BY <2>3 DEF Progress
<1> QED
  BY <1>4, <1>5

LEMMA StatProgress ==
  ASSUME Inv, ~raced, watching, timers = 0, NoneMissing, Progress,
         NEW l \in Loads, StatFile(l)
  PROVE  Progress'
<1>1. Active(l) /\ UNCHANGED <<file, events, checks, timestamps>>
  BY DEF StatFile, Active, diskVars
<1>2. load'[l].stage = "statted" /\ load'[l].at = load[l].at /\ FileOf(l) \in Path
  BY StatEffect, LoadFacts DEF Inv
<1>3. \A p \in Path : Known(p)' <=> Known(p)
  BY <1>1 DEF Known, Notice
<1>4. load'[l].mtime = file'[FileOf(l)].mtime /\ FileOf(l)' = FileOf(l)
  BY <1>1, <1>2, StatEffect DEF Inv, Mtime, NoneMissing, FileOf
<1>5. \A i \in 1..load[l].at - 1 : Paths[i] \in Path /\ Known(Paths[i])
  BY <1>1, ProgressOfLoad, LoadFacts, PathFacts DEF Inv
<1>6. Loading'
  BY <1>2, <1>3, <1>4, <1>5 DEF Loading, Active
<1> QED
  BY <1>6 DEF Progress

LEMMA CallbackProgress ==
  ASSUME Inv, ~raced', watching, timers = 0, NoneMissing, Progress,
         NEW l \in Loads, StatCallback(l)
  PROVE  Progress'
<1>1. Active(l) /\ UNCHANGED <<file, events, checks>> /\ load[l].stage = "statted"
  BY DEF StatCallback, Active, diskVars
<1>2. ~raced
  BY Zenon DEF StatCallback
<1>3. \A m \in Loads \ {l} : load'[m] = load[m] /\ ~Active(m)
  BY <1>1, <1>2, ProgressOfLoad, CallbackEffect DEF Inv
<1>0. PICK F \in Path : F = FileOf(l)
  BY LoadFacts DEF Inv
<1>4. load[l].at \in 1..Len(Paths)
  BY LoadFacts DEF Inv
<1>5. load[l].mtime = file[F].mtime \/ WillReload(F)
  BY <1>0, <1>1, <1>2, ProgressOfLoad
<1>6. \A i \in 1..load[l].at - 1 : Paths[i] \in Path /\ Known(Paths[i])
  BY <1>1, <1>2, <1>4, ProgressOfLoad, PathFacts
<1>7. CASE load[l].mtime = None
  <2>1. UNCHANGED timestamps /\ ~Advances(l)
    BY <1>7 DEF StatCallback, Advances
  <2>2. file[F].mtime # None
    BY <1>4, FileAssumption DEF Inv, TypeOK
  <2>3. WillReload(F)'
    BY <1>1, <1>5, <1>7, <2>1, <2>2 DEF WillReload, Notice
  <2>4. \A m \in Loads : ~Active(m)'
    BY <1>3, <2>1, CallbackEffect DEF Inv, Active, Idle
  <2>5. Failed'
    BY <1>4, <2>3, <2>4 DEF Failed
  <2> QED
    BY <2>5 DEF Progress
<1>8. CASE load[l].mtime # None
  <2>1. timestamps' = [timestamps EXCEPT ![F] = load[l].mtime]
    BY <1>0, <1>8 DEF StatCallback
  <2>2. timestamps \in [Path -> Stamp]
    BY DEF Inv, TypeOK
  <2>3. Known(F)'
    BY <1>1, <1>4, <1>5, <2>1, <2>2 DEF Known, WillReload, Notice
  <2>4. \A p \in Path : Known(p) => Known(p)'
    <3> SUFFICES ASSUME NEW p \in Path, Known(p), p # F PROVE Known(p)'
      BY <2>3
    <3>1. timestamps'[p] = timestamps[p]
      BY <2>1, <2>2
    <3> QED
      BY <1>1, <3>1 DEF Known, Notice
  <2>5. \A i \in 1..load[l].at : Known(Paths[i])'
    <3> SUFFICES ASSUME NEW i \in 1..load[l].at PROVE Known(Paths[i])'
      OBVIOUS
    <3>1. CASE i = load[l].at
      BY <1>0, <2>3, <3>1 DEF FileOf
    <3>2. CASE i # load[l].at
      BY <1>4, <1>6, <2>4, <3>2
    <3> QED
      BY <3>1, <3>2
  <2>6. CASE HasMore(l)
    <3>1. load'[l].stage = "reading" /\ load'[l].at = load[l].at + 1
      BY <1>8, <2>6, CallbackEffect DEF Inv, Advances
    <3>2. Loading'
      BY <1>4, <2>5, <3>1 DEF Loading, Active
    <3> QED
      BY <3>2 DEF Progress
  <2>7. CASE ~HasMore(l)
    <3>1. load[l].at = Len(Paths)
      BY <1>4, <2>7, PathFacts DEF HasMore
    <3>2. \A p \in Path : Known(p)'
      <4> SUFFICES ASSUME NEW p \in Path PROVE Known(p)'
        OBVIOUS
      <4>1. PICK i \in 1..Len(Paths) : p = Paths[i]
        BY PathFacts
      <4> QED
        BY <2>5, <3>1, <4>1
    <3>3. \A m \in Loads : ~Active(m)'
      BY <1>3, <2>7, CallbackEffect DEF Inv, Active, Idle, Advances
    <3>4. stored' = load[l].read /\ timestamps' = stored'
      <4>1. stored' = load[l].read /\ raced' = (raced \/ timestamps' # stored')
        BY <1>8, <2>7 DEF StatCallback
      <4> QED
        BY <4>1
    <3>5. stored' # None
      BY <2>7, <3>4, AllRead, FileAssumption DEF Inv
    <3>6. Loaded'
      BY <3>2, <3>3, <3>4, <3>5 DEF Loaded
    <3> QED
      BY <3>6 DEF Progress
  <2> QED
    BY <2>6, <2>7
<1> QED
  BY <1>7, <1>8

LEMMA NextFollows == ASSUME Inv, TypeOK', [Next]_vars PROVE Follows'
<1> SUFFICES ASSUME watching', ~raced', timers' = 0, NoneMissing' PROVE Progress'
  BY DEF Follows, Progress, NoneMissing, TypeOK
<1>1. watching
  BY DEF Next, vars, Write, ReadFile, StatFile, StatCallback, WatchEvent, StatCheck,
         CheckCallback, Reload, Stop
<1>2. ~raced
  BY RacedStays DEF Inv
<1>3. NoneMissing
  BY FileStep DEF NoneMissing, Inv
<1>4. CASE Reload
  <2>1. PICK l \in Loads : load'[l] = Started
    BY <1>4, ReloadEffect DEF Inv
  <2>2. Loading'
    BY <2>1 DEF Loading, Active, Started, Idle
  <2> QED
    BY <2>2 DEF Progress
<1>5. CASE ~Reload
  <2>1. timers = 0
    <3>1. ASSUME NEW c \in Checks, CheckCallback(c) PROVE timers = 0
      BY <3>1 DEF CheckCallback, Inv, TypeOK
    <3>2. ASSUME \A c \in Checks : ~CheckCallback(c) PROVE timers' = timers
      BY <1>5, <3>2 DEF Next, vars, sourceVars, Write, ReadFile, StatFile, StatCallback,
                        WatchEvent, StatCheck, Stop
    <3> QED
      BY <3>1, <3>2
  <2>2. Progress
    BY <1>1, <1>2, <1>3, <2>1 DEF Inv, Follows, Progress, NoneMissing
  <2>3. ASSUME NEW l \in Loads, ReadFile(l) \/ StatFile(l) \/ StatCallback(l)
        PROVE  Progress'
    BY <1>1, <1>2, <1>3, <2>1, <2>2, <2>3, ReadProgress, StatProgress, CallbackProgress
  <2>4. CASE \A l \in Loads : ~ReadFile(l) /\ ~StatFile(l) /\ ~StatCallback(l)
    <3>1. UNCHANGED <<load, timestamps, stored>>
      BY <1>5, <2>4, OthersKeepLoads
    <3> QED
      BY <1>1, <1>3, <2>1, <2>2, <3>1, ProgressKept
  <2> QED
    BY <2>3, <2>4
<1> QED
  BY <1>4, <1>5

LEMMA InitInv == Init => Inv
<1> SUFFICES ASSUME Init PROVE Inv
  OBVIOUS
<1>1. TypeOK
  BY InitType
<1>2. /\ FirstLoad \in Loads /\ timers = 0 /\ ~pendingUpdate /\ timestamps = Nothing
      /\ \A l \in Loads : load[l] = IF l = FirstLoad THEN Started ELSE Idle
  BY FileAssumption DEF Init
<1>3. Started.stage = "reading" /\ Started.at = 1 /\ Idle.stage = "idle" /\ Idle.at = 1
  BY DEF Started, Idle
<1>4. LoadInv
  BY <1>2, <1>3 DEF LoadInv
<1>5. StampInv
  BY <1>2, <1>3 DEF StampInv, PastOf, Nothing
<1>6. OneLoad
  BY <1>2, <1>3 DEF OneLoad, Active
<1>7. Loading
  BY <1>2, <1>3 DEF Loading, Active
<1> QED
  BY <1>1, <1>2, <1>4, <1>5, <1>6, <1>7 DEF Inv, PendingInv, Follows

LEMMA NextInv == Inv /\ [Next]_vars => Inv'
<1> SUFFICES ASSUME Inv, [Next]_vars PROVE Inv'
  OBVIOUS
<1>1. TypeOK'
  BY NextType DEF Inv
<1>2. LoadInv'
  BY NextLoadInv DEF Inv
<1>3. PendingInv' /\ StampInv' /\ OneLoad'
  BY NextPending, NextStamp, NextOneLoad DEF Inv
<1>4. Follows'
  BY <1>1, NextFollows
<1> QED
  BY <1>1, <1>2, <1>3, <1>4 DEF Inv

LEMMA SpecInv == Spec => []Inv
BY InitInv, NextInv, PTL DEF Spec

-----------------------------------------------------------------------------
(* The theorems *)

\* No load walks past the last path, the contents given to the store are those of files
\* that were read, and a timer is never run below zero.
THEOREM FileSourceTypeCorrect == Spec => []TypeOK
<1>1. Inv => TypeOK
  BY DEF Inv
<1> QED
  BY <1>1, SpecInv, PTL

\* When no load, stat, report or timer is left and the watchers are open, the store has
\* the contents of the files, unless one cannot be read or a race that raced records
\* happened: the time stamps lose no change.
THEOREM NoChangeIsLost == Spec => []CurrentWhenQuiet
<1>1. Inv => CurrentWhenQuiet
  <2> SUFFICES ASSUME Inv, watching, Quiet, ~raced, Readable PROVE Current
    BY DEF CurrentWhenQuiet
  <2>1. \A p \in Path : ~Notice(p)
    BY DEF Quiet, Notice
  <2>2. ~Loading
    BY DEF Quiet, Loading, Active
  <2>3. ~Failed
    BY <2>1 DEF Failed, Readable, WillReload
  <2>4. Loaded
    BY <2>2, <2>3 DEF Inv, Follows, Quiet, Readable
  <2> QED
    BY <2>1, <2>4 DEF Loaded, Known, Current
<1> QED
  BY <1>1, SpecInv, PTL

=============================================================================
