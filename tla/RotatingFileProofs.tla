------------------------- MODULE RotatingFileProofs -------------------------
(***************************************************************************)
(* What RotatingFile and PacketFile promise, for every number of records,  *)
(* archives, lives and faults. A file has two names only between a link    *)
(* and the removal of the active name, and what an operation that ends     *)
(* there leaves behind is repaired by the next open (IInv). On that rest   *)
(* where the bytes are (PlaceInv), the room that cleanup makes (RoomInv),  *)
(* the order of what is written (OrderInv) and the incomplete lines of a   *)
(* Writer (TearInv).                                                       *)
(***************************************************************************)
EXTENDS PacketFile, FiniteSetTheorems, SequenceTheorems, WellFoundedInduction, TLAPS

Single == \A t, u \in Archived : archives[t] = archives[u] => t = u
NoAlias == Aliases(active) = {}

\* The youngest archive is the active file, and it alone.
Linked ==
    /\ Max(Archived) \in Archived /\ archives[Max(Archived)] = active
    /\ \A t \in Archived : archives[t] = active => t = Max(Archived)

FileType ==
    /\ active \in Files \union {NoFile} /\ archives \in [Times -> Files \union {NoFile}]
    /\ handle \in {NoFile, active} /\ victims \subseteq Archived
    /\ pc \in {"down", "open", "dedupe", "measure", "link", "unlink", "undo", "clean", "purge",
               "append", "written", "idle"}
    /\ why \in {"start", "write", "close"} /\ rotated \in BOOLEAN /\ doubled \in BOOLEAN
    /\ pc \in {"dedupe", "measure", "link", "unlink", "undo"} => active # NoFile /\ handle = active

NameInv ==
    /\ Single
    /\ pc \in {"idle", "measure", "link", "clean", "purge", "append", "written"} => NoAlias
    /\ pc \in {"open", "dedupe"} /\ (why = "write" \/ rotated) => NoAlias
    /\ pc = "dedupe" => Aliases(active) \subseteq victims
    /\ pc \in {"unlink", "undo"} => Linked

IInv == FileType /\ (~doubled => NameInv)

----------------------------------------------------------------------------
\* The largest of some archive times, and the smallest of some files, is one of them.
LEMMA MaxTimes ==
    ASSUME NEW S \in SUBSET Times, S # {}
    PROVE  Max(S) \in S /\ \A y \in S : Max(S) >= y
<1> DEFINE T == {x..MaxTime : x \in S}
<1>1. MaxTime \in Nat /\ S \subseteq 1..MaxTime
  BY BoundAssumption DEF Times
<1>2. IsFiniteSet(1..MaxTime)
  BY <1>1, FS_Interval
<1>3. T \subseteq FiniteSubsetsOf(1..MaxTime)
  <2>1. \A x \in S : x..MaxTime \in SUBSET (1..MaxTime)
    BY <1>1
  <2> QED BY <1>2, <2>1, FS_FiniteSubsetsOfFinite
<1>4. PICK X \in T : \A Y \in T : ~(<<Y, X>> \in StrictSubsetOrdering(1..MaxTime))
  <2>1. T # {}
    OBVIOUS
  <2> QED BY ONLY <1>3, <2>1, WFMin, FS_StrictSubsetOrderingWellFounded
<1>5. PICK x \in S : X = x..MaxTime
  BY <1>4
<1>6. ASSUME NEW y \in S, y > x PROVE FALSE
  <2>1. y..MaxTime \in T /\ X \in SUBSET (1..MaxTime) /\ y..MaxTime \in SUBSET (1..MaxTime)
    BY <1>1, <1>5
  <2>2. y..MaxTime \subseteq X /\ x \in X /\ x \notin y..MaxTime
    BY <1>1, <1>5, <1>6
  <2>3. <<y..MaxTime, X>> \in StrictSubsetOrdering(1..MaxTime)
    BY <2>1, <2>2 DEF StrictSubsetOrdering
  <2> QED BY <1>4, <2>1, <2>3
<1>7. \A y \in S : x >= y
  BY <1>1, <1>6
<1> QED BY <1>7 DEF Max

LEMMA MaxIs ==
    ASSUME NEW S \in SUBSET Nat, NEW x \in S, \A y \in S : x >= y
    PROVE  Max(S) = x
<1>1. Max(S) \in S /\ \A y \in S : Max(S) >= y
  BY DEF Max
<1>2. Max(S) \in Nat /\ x \in Nat /\ x >= Max(S) /\ Max(S) >= x
  BY <1>1
<1> HIDE DEF Max
<1> QED BY <1>2

LEMMA MinFiles ==
    ASSUME NEW S \in SUBSET Files, S # {}
    PROVE  Min(S) \in S /\ \A y \in S : Min(S) <= y
<1> DEFINE T == {1..x : x \in S}
           N == MaxTime + 2
<1>1. N \in Nat /\ S \subseteq 1..N
  BY BoundAssumption DEF Files
<1> HIDE DEF N
<1>2. IsFiniteSet(1..N)
  BY <1>1, FS_Interval
<1>3. T \subseteq FiniteSubsetsOf(1..N)
  <2>1. \A x \in S : 1..x \in SUBSET (1..N)
    BY <1>1
  <2> QED BY <1>2, <2>1, FS_FiniteSubsetsOfFinite
<1>4. PICK X \in T : \A Y \in T : ~(<<Y, X>> \in StrictSubsetOrdering(1..N))
  <2>1. T # {}
    OBVIOUS
  <2> QED BY ONLY <1>3, <2>1, WFMin, FS_StrictSubsetOrderingWellFounded
<1>5. PICK x \in S : X = 1..x
  BY <1>4
<1>6. ASSUME NEW y \in S, y < x PROVE FALSE
  <2>1. 1..y \in T /\ X \in SUBSET (1..N) /\ 1..y \in SUBSET (1..N)
    BY <1>1, <1>5
  <2>2. 1..y \subseteq X /\ x \in X /\ x \notin 1..y
    BY <1>1, <1>5, <1>6
  <2>3. <<1..y, X>> \in StrictSubsetOrdering(1..N)
    BY <2>1, <2>2 DEF StrictSubsetOrdering
  <2> QED BY <1>4, <2>1, <2>3
<1>7. \A y \in S : x =< y
  BY <1>1, <1>6
<1> QED BY <1>7 DEF Min

\* There are more files than names: a new file has none.
LEMMA FreshIsNew ==
    ASSUME FileType PROVE Fresh \in Files \ Named
<1>1. Files \ Named # {}
  <2>1. SUFFICES ASSUME Files \subseteq Named PROVE FALSE
    OBVIOUS
  <2> DEFINE name == [f \in Files |-> IF f = active THEN 0 ELSE CHOOSE t \in Times : archives[t] = f]
  <2>2. MaxTime \in Nat /\ Times = 1..MaxTime /\ Files = 1..(MaxTime + 2)
    BY BoundAssumption DEF Times, Files
  <2>3. ASSUME NEW f \in Files, f # active PROVE name[f] \in Times /\ archives[name[f]] = f
    <3>1. \E t \in Times : archives[t] = f
      BY <2>1, <2>3 DEF Named
    <3> QED BY <3>1, <2>3
  <2>4. name \in [Files -> 0..MaxTime]
    <3>1. \A f \in Files : name[f] \in 0..MaxTime
      BY <2>2, <2>3
    <3> QED BY <3>1
  <2>5. /\ IsFiniteSet(Files) /\ Cardinality(Files) = MaxTime + 2
        /\ IsFiniteSet(0..MaxTime) /\ Cardinality(0..MaxTime) = MaxTime + 1
    BY <2>2, FS_Interval
  <2> HIDE DEF name
  <2>6. PICK f, g \in Files : f # g /\ name[f] = name[g]
    BY ONLY <2>2, <2>4, <2>5, FS_PigeonHole
  <2>7. name[active] = 0 \/ active \notin Files
    BY DEF name
  <2> QED BY <2>2, <2>3, <2>6, <2>7
<1> QED BY <1>1, MinFiles DEF Fresh

----------------------------------------------------------------------------
\* Names are only taken away, and the operation goes on or ends: with
\* "archives" and "active" as they are, NameInv is about the place alone.
LEMMA Frame ==
    ASSUME active' = active, archives' = archives
    PROVE  /\ Archived' = Archived /\ (NoAlias' <=> NoAlias) /\ (Single' <=> Single)
           /\ Aliases(active)' = Aliases(active) /\ (Linked' <=> Linked)
BY DEF Archived, NoAlias, Aliases, Single, Linked

\* What Fail leaves: a place where no alias may be, or none of them matters.
LEMMA FailKeeps ==
    ASSUME NEW h \in {NoFile, handle}, Fail(h), FileType,
           active' = active, archives' \in [Times -> Files \union {NoFile}],
           doubled' \in BOOLEAN,
           ~doubled' => Single' /\ (h # NoFile \/ why = "write" => NoAlias')
    PROVE  IInv'
<1>1. victims' = {} /\ rotated' = FALSE
  BY DEF Fail
<1>2. CASE why = "start" /\ h # NoFile
  <2>1. pc' = "clean" /\ why' = "close" /\ handle' = handle
    BY <1>2 DEF Fail
  <2> QED BY <1>1, <1>2, <2>1 DEF IInv, FileType, NameInv
<1>3. CASE ~(why = "start" /\ h # NoFile)
  <2>1. /\ pc' = IF why = "write" THEN "idle" ELSE "down"
        /\ handle' \in {NoFile, handle} /\ why' = why
    BY <1>3 DEF Fail
  <2> QED BY <1>1, <1>3, <2>1 DEF IInv, FileType, NameInv
<1> QED BY <1>2, <1>3

\* The beginning of operations, and what only goes on.
LEMMA BeginKeeps ==
    ASSUME IInv, Prepare \/ (\E r \in Records : Write(r)) \/ Close \/ Opened \/ Measure
    PROVE  IInv'
<1>1. UNCHANGED <<active, archives, handle, victims, doubled>>
  BY DEF Prepare, Write, Close, Opened, Measure, dirVars, historyVars
<1>2. /\ Archived' = Archived /\ (NoAlias' <=> NoAlias) /\ (Single' <=> Single)
      /\ Aliases(active)' = Aliases(active) /\ (Linked' <=> Linked)
  BY <1>1, Frame
<1>3. CASE Prepare
  <2>1. pc' = "open" /\ why' = "start" /\ rotated' = FALSE
    BY <1>3 DEF Prepare
  <2> QED BY <1>1, <1>2, <2>1 DEF IInv, FileType, NameInv
<1>4. CASE \E r \in Records : Write(r)
  <2>1. /\ pc = "idle" /\ why' = "write" /\ rotated' = FALSE
        /\ pc' = IF handle = NoFile THEN "open" ELSE "measure"
    BY <1>4 DEF Write
  <2>2. CASE handle = NoFile
    BY <1>1, <1>2, <2>1, <2>2 DEF IInv, FileType, NameInv
  <2>3. CASE handle # NoFile
    <3>1. handle = active /\ pc' = "measure"
      BY <2>1, <2>3 DEF IInv, FileType
    <3> QED BY <1>1, <1>2, <2>1, <2>3, <3>1 DEF IInv, FileType, NameInv
  <2> QED BY <2>2, <2>3
<1>5. CASE Close
  <2>1. /\ pc = "idle" /\ why' = "close" /\ rotated' = rotated
        /\ pc' = IF handle = NoFile THEN "down" ELSE "clean"
    BY <1>5 DEF Close
  <2> QED BY <1>1, <1>2, <2>1 DEF IInv, FileType, NameInv
<1>6. CASE Opened
  <2>1. /\ pc = "dedupe" /\ victims = {} /\ why' = why /\ rotated' = rotated
        /\ pc' = IF rotated THEN "clean" ELSE "measure"
    BY <1>6 DEF Opened
  <2>2. ~doubled => NoAlias
    BY <2>1 DEF IInv, NameInv, NoAlias
  <2> QED BY <1>1, <1>2, <2>1, <2>2 DEF IInv, FileType, NameInv
<1>7. CASE Measure
  <2>1. /\ pc = "measure" /\ why' = why /\ rotated' = rotated
        /\ pc' \in {"link", "clean"}
    BY <1>7 DEF Measure
  <2> QED BY <1>1, <1>2, <2>1 DEF IInv, FileType, NameInv
<1> QED BY <1>3, <1>4, <1>5, <1>6, <1>7

\* Every failure ends the operation, with the names as they are.
LEMMA FailuresKeep ==
    ASSUME IInv, OpenFails \/ RemoveFails \/ LinkFails \/ UndoFails \/ CleanFails
                 \/ \E n \in 0..MaxFile : AppendFails(n)
    PROVE  IInv'
<1>1. /\ active' = active /\ archives' = archives
      /\ UndoFails \/ doubled' = doubled
  BY DEF OpenFails, RemoveFails, LinkFails, UndoFails, CleanFails, AppendFails, dirVars, historyVars
<1>2. (NoAlias' <=> NoAlias) /\ (Single' <=> Single)
  BY <1>1, Frame
<1>3. CASE OpenFails
  <2>1. pc = "open" /\ Fail(NoFile) /\ doubled' = doubled
    BY <1>3 DEF OpenFails, historyVars
  <2> QED BY <1>1, <1>2, <2>1, FailKeeps DEF IInv, FileType, NameInv
<1>4. CASE RemoveFails
  <2>1. doubled' = doubled
    BY <1>4 DEF RemoveFails
  <2>2. CASE pc = "dedupe"
    <3>1. Fail(NoFile)
      BY <1>4, <2>2 DEF RemoveFails
    <3> QED BY <1>1, <1>2, <2>1, <2>2, <3>1, FailKeeps DEF IInv, FileType, NameInv
  <2>3. CASE pc = "purge"
    <3>1. Fail(handle)
      BY <1>4, <2>3 DEF RemoveFails
    <3> QED BY <1>1, <1>2, <2>1, <2>3, <3>1, FailKeeps DEF IInv, FileType, NameInv
  <2> QED BY <1>4, <2>2, <2>3 DEF RemoveFails
<1>5. CASE LinkFails
  <2>1. pc = "link" /\ Fail(handle) /\ doubled' = doubled
    BY <1>5 DEF LinkFails, historyVars
  <2> QED BY <1>1, <1>2, <2>1, FailKeeps DEF IInv, FileType, NameInv
<1>6. CASE UndoFails
  <2>1. Fail(handle) /\ doubled' = TRUE
    BY <1>6 DEF UndoFails
  <2> QED BY <1>1, <2>1, FailKeeps DEF IInv, FileType
<1>7. CASE CleanFails
  <2>1. pc = "clean" /\ Fail(handle) /\ doubled' = doubled
    BY <1>7 DEF CleanFails, historyVars
  <2> QED BY <1>1, <1>2, <2>1, FailKeeps DEF IInv, FileType, NameInv
<1>8. CASE \E n \in 0..MaxFile : AppendFails(n)
  <2>1. pc = "append" /\ Fail(handle) /\ doubled' = doubled
    BY <1>8 DEF AppendFails, historyVars
  <2> QED BY <1>1, <1>2, <2>1, FailKeeps DEF IInv, FileType, NameInv
<1> QED BY <1>3, <1>4, <1>5, <1>6, <1>7, <1>8

\* A new active file has no other name.
LEMMA OpenKeeps ==
    ASSUME IInv, Open PROVE IInv'
<1>1. /\ pc = "open" /\ pc' = "dedupe" /\ archives' = archives /\ handle' = active'
      /\ active' = (IF active = NoFile THEN Fresh ELSE active) /\ victims' = Aliases(active')
      /\ why' = why /\ rotated' = rotated /\ doubled' = doubled
  BY DEF Open, historyVars
<1>2. Archived' = Archived /\ (Single' <=> Single) /\ Aliases(active)' = Aliases(active')
  BY <1>1 DEF Archived, Single, Aliases
<1>3. active' \in Files /\ NoFile \notin Files
  BY <1>1, FreshIsNew DEF IInv, FileType, Files, NoFile
<1>4. NoAlias => NoAlias'
  <2>1. CASE active = NoFile
    <3>1. \A t \in Times : archives[t] # active'
      BY <1>1, <2>1, FreshIsNew DEF IInv, Named
    <3> QED BY <1>2, <3>1 DEF NoAlias, Aliases, Archived
  <2>2. CASE active # NoFile
    BY <1>1, <2>2, Frame
  <2> QED BY <2>1, <2>2
<1>5. FileType'
  BY <1>1, <1>2, <1>3 DEF IInv, FileType, Aliases
<1> QED BY <1>1, <1>2, <1>4, <1>5 DEF IInv, NameInv

\* A name is removed: nothing else is named by it.
LEMMA RemoveKeeps ==
    ASSUME IInv, RemoveArchive PROVE IInv'
<1>1. /\ pc \in {"dedupe", "purge"} /\ victims # {} /\ victims \subseteq Times
      /\ UNCHANGED <<active, handle, pc, why, rotated, doubled>>
      /\ victims' = victims \ {Max(victims)}
      /\ archives' = [archives EXCEPT ![Max(victims)] = NoFile]
  BY DEF RemoveArchive, IInv, FileType, Archived
<1>2. Max(victims) \in victims /\ victims \subseteq Archived
  BY <1>1, MaxTimes DEF IInv, FileType
<1> DEFINE t == Max(victims)
<1>3. /\ archives' \in [Times -> Files \union {NoFile}] /\ t \in Times
      /\ \A u \in Times : archives'[u] = IF u = t THEN NoFile ELSE archives[u]
  BY <1>1, <1>2 DEF IInv, FileType, Archived
<1> HIDE DEF t
<1>4. Archived' = Archived \ {t}
  BY <1>3 DEF Archived
<1>5. Aliases(active)' = Aliases(active) \ {t}
  BY <1>1, <1>3, <1>4 DEF Aliases, Archived
<1>6. Single => Single'
  BY <1>3, <1>4 DEF Single, Archived
<1>7. NoAlias => NoAlias'
  BY <1>5 DEF NoAlias
<1>8. victims' \subseteq Archived' /\ (Aliases(active) \subseteq victims => Aliases(active)' \subseteq victims')
  BY <1>1, <1>2, <1>4, <1>5 DEF t
<1>9. FileType'
  BY <1>1, <1>3, <1>8 DEF IInv, FileType
<1> QED BY <1>1, <1>6, <1>7, <1>8, <1>9 DEF IInv, NameInv

\* The name t is added, the youngest of all.
Added(t) ==
    /\ t \in Times /\ t \notin Archived /\ Archived' = Archived \union {t}
    /\ (\A u \in Archived : t > u) /\ Max(Archived') = t
    /\ archives' \in [Times -> Files \union {NoFile}]
    /\ \A u \in Times : archives'[u] = IF u = t THEN active ELSE archives[u]

LEMMA LinkAdds ==
    ASSUME IInv, NEW now \in Clock, Link(now) PROVE \E t \in Times : Added(t)
<1> DEFINE t == Stamp(now)
<1>1. pc = "link" /\ t \in Times /\ archives' = [archives EXCEPT ![t] = active]
  BY DEF Link
<1>2. active \in Files /\ NoFile \notin Files
  BY <1>1 DEF IInv, FileType, NoFile, Files
<1>3. \A u \in Archived : t > u
  <2>1. Archived \subseteq Times /\ Times \subseteq Nat /\ now \in Nat
    BY BoundAssumption DEF Archived, Times
  <2>2. CASE \E u \in Archived : u >= now
    <3>1. t = Max(Archived) + 1
      BY <2>2 DEF Stamp
    <3>2. Max(Archived) \in Archived /\ \A u \in Archived : Max(Archived) >= u
      BY <2>1, <2>2, MaxTimes
    <3> SUFFICES ASSUME NEW u \in Archived PROVE t > u
      OBVIOUS
    <3>3. t = Max(Archived) + 1 /\ Max(Archived) \in Nat /\ u \in Nat /\ Max(Archived) >= u
      BY <2>1, <3>1, <3>2
    <3> HIDE DEF t
    <3> QED BY <3>3
  <2>3. CASE ~\E u \in Archived : u >= now
    <3>1. t = now
      BY <2>3 DEF Stamp
    <3> QED BY <2>1, <2>3, <3>1
  <2> QED BY <2>2, <2>3
<1> HIDE DEF t
<1>4. /\ archives' \in [Times -> Files \union {NoFile}]
      /\ \A u \in Times : archives'[u] = IF u = t THEN active ELSE archives[u]
  BY <1>1, <1>2 DEF IInv, FileType
<1>5. Archived' = Archived \union {t} /\ t \notin Archived /\ Archived \subseteq Times
  <2>1. t \notin Archived
    BY <1>1, <1>3, BoundAssumption DEF Times, Archived
  <2> QED BY <1>1, <1>2, <1>4, <2>1 DEF Archived
<1>6. Max(Archived') = t
  <2>1. Archived' \in SUBSET Nat /\ t \in Archived' /\ \A u \in Archived' : t >= u
    BY <1>1, <1>3, <1>5, BoundAssumption DEF Times
  <2> QED BY <2>1, MaxIs
<1> QED BY <1>1, <1>3, <1>4, <1>5, <1>6 DEF Added

\* The new archive is the youngest, and the active file had no other.
LEMMA LinkKeeps ==
    ASSUME IInv, NEW now \in Clock, Link(now) PROVE IInv'
<1>1. PICK t \in Times : Added(t)
  BY LinkAdds
<1>2. /\ pc = "link" /\ pc' = "unlink" /\ active # NoFile /\ handle = active
      /\ UNCHANGED <<active, handle, why, rotated, victims, doubled>>
  BY DEF Link, historyVars, IInv, FileType
<1>3. ASSUME ~doubled PROVE Single' /\ Linked'
  <2>1. Single /\ \A u \in Archived : archives[u] # active
    BY <1>2, <1>3 DEF IInv, NameInv, NoAlias, Aliases
  <2>2. Single'
    BY <1>1, <2>1 DEF Single, Added, Archived
  <2>3. Linked'
    BY <1>1, <1>2, <2>1 DEF Linked, Added, Archived
  <2> QED BY <2>2, <2>3
<1>4. FileType'
  BY <1>1, <1>2 DEF IInv, FileType, Added
<1> QED BY <1>2, <1>3, <1>4 DEF IInv, NameInv

\* The archive just made goes again, and with it the only other name.
LEMMA UndoKeeps ==
    ASSUME IInv, Undo PROVE IInv'
<1> DEFINE t == Max(Archived)
<1>1. /\ pc = "undo" /\ active' = active /\ doubled' = doubled /\ Fail(handle)
      /\ archives' = [archives EXCEPT ![t] = NoFile]
  BY DEF Undo, historyVars
<1>2. archives' \in [Times -> Files \union {NoFile}]
  BY <1>1 DEF IInv, FileType
<1>3. ASSUME ~doubled PROVE Single' /\ NoAlias'
  <2>1. Single /\ t \in Archived /\ \A u \in Archived : archives[u] = active => u = t
    BY <1>1, <1>3 DEF IInv, NameInv, Linked
  <2> HIDE DEF t
  <2>2. /\ t \in Times
        /\ \A u \in Times : archives'[u] = IF u = t THEN NoFile ELSE archives[u]
    BY <1>1, <2>1 DEF IInv, FileType, Archived
  <2>3. Archived' = Archived \ {t}
    BY <2>2 DEF Archived
  <2>4. Single'
    BY <2>1, <2>2, <2>3 DEF Single, Archived
  <2>5. NoAlias'
    BY <1>1, <2>1, <2>2, <2>3 DEF NoAlias, Aliases, Archived
  <2> QED BY <2>4, <2>5
<1> QED BY <1>1, <1>2, <1>3, FailKeeps DEF IInv, FileType

LEMMA UnlinkKeeps ==
    ASSUME IInv, Unlink \/ UnlinkFails PROVE IInv'
<1>1. CASE Unlink
  <2>1. /\ pc = "unlink" /\ pc' = "open" /\ rotated' = TRUE /\ active' = NoFile /\ handle' = NoFile
        /\ UNCHANGED <<archives, why, victims, doubled>>
    BY <1>1 DEF Unlink, historyVars
  <2>2. Archived' = Archived /\ (Single' <=> Single) /\ NoAlias'
    BY <2>1 DEF Archived, Single, NoAlias, Aliases
  <2> QED BY <2>1, <2>2 DEF IInv, FileType, NameInv
<1>2. CASE UnlinkFails
  <2>1. /\ pc = "unlink" /\ pc' = "undo"
        /\ UNCHANGED <<active, archives, handle, why, rotated, victims, doubled>>
    BY <1>2 DEF UnlinkFails, dirVars, historyVars
  <2>2. Archived' = Archived /\ (Single' <=> Single) /\ (Linked' <=> Linked)
    BY <2>1, Frame
  <2> QED BY <2>1, <2>2 DEF IInv, FileType, NameInv
<1> QED BY <1>1, <1>2

\* Cleaning up, writing, and the end of the process.
LEMMA EndKeeps ==
    ASSUME IInv, (\E cutoff \in Int : Clean(cutoff)) \/ Cleaned \/ AppendRecord \/ Return \/ Crash
    PROVE  IInv'
<1>1. UNCHANGED <<active, archives, doubled>>
  BY DEF Clean, Cleaned, AppendRecord, Return, Crash, dirVars, historyVars
<1>2. /\ Archived' = Archived /\ (NoAlias' <=> NoAlias) /\ (Single' <=> Single)
  BY <1>1, Frame
<1>3. CASE \E cutoff \in Int : Clean(cutoff)
  <2>1. PICK cutoff \in Int : Clean(cutoff)
    BY <1>3
  <2>2. /\ pc = "clean" /\ pc' = "purge" /\ UNCHANGED <<handle, why, rotated>>
        /\ victims' = Outdated(cutoff)
    BY <2>1 DEF Clean
  <2>3. Outdated(cutoff) \subseteq Archived
    BY DEF Outdated, Aliases, Finished
  <2> QED BY <1>1, <1>2, <2>2, <2>3 DEF IInv, FileType, NameInv
<1>4. CASE Cleaned
  <2>1. /\ pc = "purge" /\ victims' = victims /\ why' = why /\ rotated' = rotated
        /\ why \in {"start", "write", "close"}
    BY <1>4 DEF Cleaned, IInv, FileType
  <2>2. pc' \in {"idle", "append", "down"} /\ handle' \in {handle, NoFile}
    BY <1>4, <2>1 DEF Cleaned
  <2> QED BY <1>1, <1>2, <2>1, <2>2 DEF IInv, FileType, NameInv
<1>5. CASE AppendRecord \/ Return
  <2>1. /\ pc \in {"append", "written"} /\ pc' \in {"written", "idle"}
        /\ UNCHANGED <<handle, why, rotated, victims>>
    BY <1>5 DEF AppendRecord, Return
  <2> QED BY <1>1, <1>2, <2>1 DEF IInv, FileType, NameInv
<1>6. CASE Crash
  <2>1. pc' = "down" /\ handle' = NoFile /\ why' = "start" /\ rotated' = FALSE /\ victims' = {}
    BY <1>6 DEF Crash
  <2> QED BY <1>1, <1>2, <2>1 DEF IInv, FileType, NameInv
<1> QED BY <1>3, <1>4, <1>5, <1>6

LEMMA InitInv == Init => IInv
<1> SUFFICES ASSUME Init PROVE IInv
  OBVIOUS
<1>1. active \in Files \union {NoFile}
  <2>1. 1 \in Files /\ Files \in SUBSET Files
    BY BoundAssumption DEF Files
  <2> QED BY <2>1, MinFiles DEF Init
<1>2. archives = [t \in Times |-> NoFile] /\ Archived = {}
  BY DEF Init, Archived
<1> QED BY <1>1, <1>2 DEF Init, IInv, FileType, NameInv, Single

LEMMA StepKeeps == IInv /\ [Next]_vars => IInv'
<1> SUFFICES ASSUME IInv, [Next]_vars PROVE IInv'
  OBVIOUS
<1>1. CASE Step
  <2>1. ASSUME NEW cutoff \in IF Expires THEN 0..MaxTime ELSE {0}, Clean(cutoff) PROVE IInv'
    <3>1. cutoff \in Int
      BY BoundAssumption
    <3> QED BY <2>1, <3>1, EndKeeps
  <2> QED BY <1>1, <2>1, BeginKeeps, FailuresKeep, OpenKeeps, RemoveKeeps, LinkKeeps, UndoKeeps,
             UnlinkKeeps, EndKeeps DEF Step
<1>2. CASE \E r \in Records : Write(r)
  BY <1>2, BeginKeeps
<1>3. CASE \E n \in 0..MaxFile : AppendFails(n)
  BY <1>3, FailuresKeep
<1>4. CASE UNCHANGED vars
  <2>1. UNCHANGED <<active, archives, handle, pc, why, rotated, victims, doubled>>
    BY <1>4 DEF vars, dirVars, opVars, historyVars
  <2> QED BY <2>1, Frame DEF IInv, FileType, NameInv
<1> QED BY <1>1, <1>2, <1>3, <1>4 DEF Next

\* When an operation of the file is done, whatever failed and wherever an earlier
\* process ended, no file has two names (rotation.go, open and rotate), unless an
\* archive could not be removed after a failed rotation.
THEOREM OneNameAlways == Spec => []OneName
<1>1. IInv => OneName
  BY DEF IInv, NameInv, NoAlias, Aliases, Single, OneName
<1> QED BY <1>1, InitInv, StepKeeps, PTL DEF Spec

----------------------------------------------------------------------------
(***************************************************************************)
(* WithinLimits. A file has as many bytes as BytesIn has elements, so the  *)
(* facts about sums are facts about cardinalities.                         *)
(***************************************************************************)

Entry == [rec : Records, bytes : Nat \ {0}]

\* The operation in progress, and what it may rely on.
PlaceInv ==
    /\ content \in [Files -> Seq(Entry)] /\ acked \in Seq(Records)
    /\ pc \in {"clean", "purge", "append", "written"} => active # NoFile /\ handle = active
    /\ pc = "dedupe" => victims \subseteq Aliases(active)
    /\ rotated /\ pc = "open" => active = NoFile
    /\ rotated /\ pc = "dedupe" => content[active] = <<>>
    /\ pc \in {"unlink", "undo"} => Max(Archived) \in Archived /\ archives[Max(Archived)] = active
    /\ \A f \in Files \ Named : content[f] = <<>>
    /\ why = "write" /\ pc \notin {"idle", "down"} =>
         record \in Records /\ Length[record] <= MaxFile /\ \A i \in DOMAIN acked : acked[i] # record
    /\ pc \in {"append", "written"} => why = "write"

\* What cleanup has made room for.
RoomInv ==
    /\ why = "write" /\ pc \in {"clean", "purge", "append"} => Bytes(active) + Length[record] <= MaxFile
    /\ pc = "purge" =>
         /\ Aliases(active) \subseteq victims
         /\ Cardinality(Archived \ victims) <= MaxBackups /\ SizeOf(Archived \ victims) <= Remaining
    /\ pc \in {"append", "written"} => NoAlias
    /\ pc = "append" =>
         /\ Cardinality(Archived) <= MaxBackups /\ SizeOf(Archived) <= Remaining
    /\ WithinLimits

\* A union of finitely many finite sets.
LEMMA FiniteUnion ==
    ASSUME NEW D, IsFiniteSet(D), NEW g, \A d \in D : IsFiniteSet(g[d])
    PROVE  IsFiniteSet(UNION {g[d] : d \in D})
<1> DEFINE T == {g[d] : d \in D}
           h == [d \in D |-> g[d]]
<1>1. h \in Surjection(D, T)
  <2>1. h \in [D -> T] /\ \A X \in T : \E d \in D : h[d] = X
    OBVIOUS
  <2> QED BY <2>1 DEF Surjection
<1>2. IsFiniteSet(T)
  BY <1>1, FS_Surjection
<1> QED BY <1>2, FS_UNION

\* Files have finitely many bytes.
LEMMA BytesFinite ==
    ASSUME content \in [Files -> Seq(Entry)], NEW f \in Files
    PROVE  IsFiniteSet(BytesIn(f)) /\ Bytes(f) \in Nat
<1> DEFINE g == [i \in DOMAIN content[f] |-> {i} \X (1..content[f][i].bytes)]
<1>1. content[f] \in Seq(Entry)
  OBVIOUS
<1>2. DOMAIN content[f] = 1..Len(content[f]) /\ Len(content[f]) \in Nat
  BY <1>1
<1>3. IsFiniteSet(DOMAIN content[f])
  BY <1>2, FS_Interval
<1>4. ASSUME NEW i \in DOMAIN content[f] PROVE IsFiniteSet(g[i])
  <2>1. content[f][i] \in Entry
    BY <1>1, <1>2
  <2>2. content[f][i].bytes \in Int /\ 1 \in Int
    BY <2>1 DEF Entry
  <2>3. IsFiniteSet({i}) /\ IsFiniteSet(1..content[f][i].bytes)
    BY <2>2, FS_Singleton, FS_Interval
  <2> QED BY <2>3, FS_Product
<1>5. BytesIn(f) = UNION {g[i] : i \in DOMAIN content[f]}
  BY DEF BytesIn
<1> HIDE DEF g
<1>6. IsFiniteSet(BytesIn(f))
  BY <1>3, <1>4, <1>5, FiniteUnion
<1> QED BY <1>6, FS_CardinalityType DEF Bytes

\* Fewer archives have fewer bytes.
LEMMA SizeGrows ==
    ASSUME content \in [Files -> Seq(Entry)], FileType, NEW T \in SUBSET Archived, NEW S \in SUBSET T
    PROVE  /\ SizeOf(S) \in Nat /\ SizeOf(T) \in Nat /\ SizeOf(S) <= SizeOf(T)
           /\ IsFiniteSet(T) /\ Cardinality(S) \in Nat /\ Cardinality(S) <= Cardinality(T)
<1> DEFINE g == [t \in T |-> {t} \X BytesIn(archives[t])]
           U(X) == UNION {{t} \X BytesIn(archives[t]) : t \in X}
<1>1. IsFiniteSet(Times) /\ T \subseteq Times
  BY BoundAssumption, FS_Interval DEF Times, Archived
<1>2. IsFiniteSet(T)
  BY <1>1, FS_Subset
<1>3. ASSUME NEW t \in T PROVE IsFiniteSet(g[t])
  <2>1. archives[t] \in Files
    BY DEF Archived, FileType
  <2>2. IsFiniteSet(BytesIn(archives[t])) /\ IsFiniteSet({t})
    BY <2>1, BytesFinite, FS_Singleton
  <2> QED BY <2>2, FS_Product
<1>4. U(T) = UNION {g[t] : t \in T} /\ U(S) \subseteq U(T)
  OBVIOUS
<1> HIDE DEF g
<1>5. IsFiniteSet(U(T))
  <2>1. IsFiniteSet(UNION {g[t] : t \in T})
    BY <1>2, <1>3, FiniteUnion
  <2> QED BY <1>4, <2>1
<1>6. /\ IsFiniteSet(U(S)) /\ Cardinality(U(S)) <= Cardinality(U(T))
      /\ IsFiniteSet(S) /\ Cardinality(S) <= Cardinality(T)
  BY <1>2, <1>4, <1>5, FS_Subset
<1> QED BY <1>2, <1>5, <1>6, FS_CardinalityType DEF SizeOf

\* An entry of n bytes makes its file n bytes longer.
LEMMA AppendedBytes ==
    ASSUME content \in [Files -> Seq(Entry)], NEW f \in Files, NEW e \in Entry,
           content' = [content EXCEPT ![f] = Append(@, e)]
    PROVE  /\ content' \in [Files -> Seq(Entry)] /\ Bytes(f)' = Bytes(f) + e.bytes
           /\ \A g \in Files : g # f => BytesIn(g)' = BytesIn(g)
<1> DEFINE n == Len(content[f])
           new == {n + 1} \X (1..e.bytes)
<1>1. content[f] \in Seq(Entry) /\ n \in Nat /\ e.bytes \in Nat \ {0}
  <2>1. e.bytes \in Nat \ {0}
    BY DEF Entry
  <2>2. content[f] \in Seq(Entry)
    OBVIOUS
  <2> QED BY <2>1, <2>2
<1>2. /\ content'[f] \in Seq(Entry) /\ DOMAIN content'[f] = 1..(n + 1)
      /\ content'[f][n + 1] = e /\ \A i \in 1..n : content'[f][i] = content[f][i]
      /\ DOMAIN content[f] = 1..n
  BY <1>1
<1>3. \A g \in Files : g # f => content'[g] = content[g]
  OBVIOUS
<1>4. BytesIn(f)' = BytesIn(f) \union new
  <2>1. BytesIn(f)' = UNION {{i} \X (1..content'[f][i].bytes) : i \in 1..(n + 1)}
    BY <1>2 DEF BytesIn
  <2>2. BytesIn(f) = UNION {{i} \X (1..content[f][i].bytes) : i \in 1..n}
    BY <1>2 DEF BytesIn
  <2>3. 1..(n + 1) = (1..n) \union {n + 1}
    BY <1>1
  <2> HIDE DEF n
  <2> QED BY <1>2, <2>1, <2>2, <2>3
<1>5. BytesIn(f) \intersect new = {}
  <2>1. \A x \in BytesIn(f) : x[1] \in 1..n
    BY <1>2 DEF BytesIn
  <2> QED BY <1>1, <2>1
<1>6. IsFiniteSet(new) /\ Cardinality(new) = e.bytes
  <2>1. IsFiniteSet({n + 1}) /\ Cardinality({n + 1}) = 1
    BY FS_Singleton
  <2>2. IsFiniteSet(1..e.bytes) /\ Cardinality(1..e.bytes) = e.bytes
    <3>1. 1 \in Int /\ e.bytes \in Int /\ ~(1 > e.bytes) /\ e.bytes - 1 + 1 = e.bytes
      BY <1>1
    <3> QED BY <3>1, FS_Interval
  <2>3. /\ IsFiniteSet({n + 1} \X (1..e.bytes))
        /\ Cardinality({n + 1} \X (1..e.bytes)) = Cardinality({n + 1}) * Cardinality(1..e.bytes)
    BY <2>1, <2>2, FS_Product
  <2> QED BY <1>1, <2>1, <2>2, <2>3
<1>7. Bytes(f)' = Cardinality(BytesIn(f)) + Cardinality(new) - Cardinality({})
  <2>1. IsFiniteSet(BytesIn(f))
    BY BytesFinite
  <2>2. Bytes(f)' = Cardinality(BytesIn(f) \union new)
    BY <1>4 DEF Bytes
  <2> HIDE DEF new
  <2>3. Cardinality(BytesIn(f) \union new)
          = Cardinality(BytesIn(f)) + Cardinality(new) - Cardinality(BytesIn(f) \intersect new)
    BY <1>6, <2>1, FS_Union
  <2> QED BY <1>5, <2>2, <2>3
<1>8. Bytes(f)' = Bytes(f) + e.bytes
  BY <1>1, <1>6, <1>7, BytesFinite, FS_EmptySet DEF Bytes
<1>9. content' \in [Files -> Seq(Entry)]
  BY <1>2, <1>3
<1> QED BY <1>3, <1>8, <1>9 DEF BytesIn

----------------------------------------------------------------------------
\* PlaceInv, one group of actions after the other.

LEMMA FailPlaces ==
    ASSUME IInv, NEW h \in {NoFile, handle}, Fail(h), active' = active, acked' = acked, acked \in Seq(Records),
           content' \in [Files -> Seq(Entry)], (\A f \in Files \ Named : content[f] = <<>>)'
    PROVE  PlaceInv'
<1>1. handle \in {NoFile, active} /\ why \in {"start", "write", "close"}
  BY DEF IInv, FileType
<1>2. rotated' = FALSE
  BY DEF Fail
<1>3. CASE why = "start" /\ h # NoFile
  <2>1. pc' = "clean" /\ why' = "close" /\ handle' = h
    BY <1>3 DEF Fail
  <2> QED BY <1>1, <1>2, <1>3, <2>1 DEF PlaceInv
<1>4. CASE ~(why = "start" /\ h # NoFile)
  <2>1. pc' \in {"idle", "down"}
    BY <1>4 DEF Fail
  <2> QED BY <1>2, <2>1 DEF PlaceInv
<1> QED BY <1>3, <1>4

LEMMA BeginPlaces ==
    ASSUME IInv, PlaceInv, Prepare \/ (\E r \in Records : Write(r)) \/ Close \/ Opened \/ Measure
    PROVE  PlaceInv'
<1>1. UNCHANGED <<active, archives, content, handle, acked>>
  BY DEF Prepare, Write, Close, Opened, Measure, dirVars, historyVars
<1>2. Archived' = Archived /\ Named' = Named /\ handle \in {NoFile, active}
  BY <1>1 DEF Archived, Named, IInv, FileType
<1>3. CASE Prepare
  BY <1>1, <1>2, <1>3 DEF Prepare, PlaceInv
<1>4. CASE \E r \in Records : Write(r)
  <2>1. PICK r \in Records : Write(r)
    BY <1>4
  <2>2. /\ record' = r /\ why' = "write" /\ rotated' = FALSE /\ pc' \in {"open", "measure"}
        /\ Length[r] <= MaxFile /\ \A i \in DOMAIN acked : acked[i] # r
    BY <2>1 DEF Write
  <2> QED BY <1>1, <1>2, <2>2 DEF PlaceInv
<1>5. CASE Close
  BY <1>1, <1>2, <1>5 DEF Close, PlaceInv
<1>6. CASE Opened
  <2>1. /\ pc = "dedupe" /\ pc' \in {"clean", "measure"}
        /\ UNCHANGED <<why, rotated, record>> /\ active # NoFile /\ handle = active
    BY <1>6 DEF Opened, IInv, FileType
  <2> QED BY <1>1, <1>2, <2>1 DEF PlaceInv
<1>7. CASE Measure
  <2>1. /\ pc = "measure" /\ pc' \in {"link", "clean"}
        /\ UNCHANGED <<why, rotated, record>> /\ active # NoFile /\ handle = active
    BY <1>7 DEF Measure, IInv, FileType
  <2> QED BY <1>1, <1>2, <2>1 DEF PlaceInv
<1> QED BY <1>3, <1>4, <1>5, <1>6, <1>7

\* What is written, if anything, belongs to the active file.
LEMMA AppendEntry ==
    ASSUME IInv, PlaceInv, pc = "append", NEW n \in Nat \ {0}, AppendBytes(n)
    PROVE  /\ active \in Files /\ handle = active /\ why = "write" /\ record \in Records
           /\ [rec |-> record, bytes |-> n] \in Entry
           /\ content' = [content EXCEPT ![active] = Append(@, [rec |-> record, bytes |-> n])]
BY DEF IInv, FileType, PlaceInv, AppendBytes, Entry

LEMMA FailurePlaces ==
    ASSUME IInv, PlaceInv, OpenFails \/ RemoveFails \/ LinkFails \/ UndoFails \/ CleanFails
                 \/ \E n \in 0..MaxFile : AppendFails(n)
    PROVE  PlaceInv'
<1>1. active' = active /\ archives' = archives /\ acked' = acked /\ acked \in Seq(Records)
  BY DEF OpenFails, RemoveFails, LinkFails, UndoFails, CleanFails, AppendFails, dirVars, historyVars, PlaceInv
<1>2. Named' = Named
  BY <1>1 DEF Named
<1>3. PICK h \in {NoFile, handle} : Fail(h)
  BY DEF OpenFails, RemoveFails, LinkFails, UndoFails, CleanFails, AppendFails
<1>4. CASE content' = content
  BY <1>1, <1>2, <1>3, <1>4, FailPlaces DEF PlaceInv
<1>5. CASE content' # content
  <2>1. PICK n \in 0..MaxFile : AppendFails(n)
    BY <1>5 DEF OpenFails, RemoveFails, LinkFails, UndoFails, CleanFails, dirVars
  <2>2. pc = "append" /\ n \in Nat \ {0} /\ AppendBytes(n)
    BY <1>5, <2>1, RotationAssumption DEF AppendFails
  <2>3. active \in Files /\ content' = [content EXCEPT ![active] = Append(@, [rec |-> record, bytes |-> n])]
        /\ [rec |-> record, bytes |-> n] \in Entry
    BY <2>2, AppendEntry
  <2>4. content' \in [Files -> Seq(Entry)]
    BY <2>3, AppendedBytes DEF PlaceInv
  <2>5. (\A f \in Files \ Named : content[f] = <<>>)'
    BY <1>2, <2>3 DEF PlaceInv, Named
  <2> QED BY <1>1, <1>3, <2>4, <2>5, FailPlaces
<1> QED BY <1>4, <1>5

LEMMA OpenPlaces ==
    ASSUME IInv, PlaceInv, Open PROVE PlaceInv'
<1>1. /\ pc = "open" /\ pc' = "dedupe" /\ UNCHANGED <<archives, content, why, rotated, record, acked>>
      /\ active' = (IF active = NoFile THEN Fresh ELSE active) /\ victims' = Aliases(active')
  BY DEF Open, historyVars
<1>2. active # NoFile \/ active' \in Files \ Named
  BY <1>1, FreshIsNew DEF IInv
<1>3. (Files \ Named)' \subseteq Files \ Named
  <2>1. Named' = {active'} \union {archives[t] : t \in Times} /\ NoFile \notin Files
    BY <1>1 DEF Named, NoFile, Files
  <2> QED BY <1>1, <2>1 DEF Named
<1>4. rotated => active = NoFile
  BY <1>1 DEF PlaceInv
<1>5. victims' = Aliases(active)'
  BY <1>1 DEF Aliases, Archived
<1> QED BY <1>1, <1>2, <1>3, <1>4, <1>5 DEF PlaceInv

\* The name t is removed; a file that has lost its last name is empty.
Removed(t) ==
    /\ t = Max(victims) /\ t \in victims /\ t \in Archived /\ Archived' = Archived \ {t}
    /\ victims' = victims \ {t}
    /\ archives' \in [Times -> Files \union {NoFile}]
    /\ \A u \in Times : archives'[u] = IF u = t THEN NoFile ELSE archives[u]
    /\ content' \in [Files -> Seq(Entry)]
    /\ \A f \in Files : content'[f] = IF f = archives[t] /\ f \notin Named' THEN <<>> ELSE content[f]
    /\ (Files \ Named)' \subseteq (Files \ Named) \union {archives[t]}
    /\ purged \subseteq purged'
    /\ archives[t] \notin Named' => \A k \in DOMAIN content[archives[t]] : content[archives[t]][k].rec \in purged'

LEMMA RemovesOne ==
    ASSUME IInv, PlaceInv, RemoveArchive
    PROVE  \E t \in Times : Removed(t)
<1> DEFINE t == Max(victims)
           gone == archives[t] # active /\ \A u \in Archived \ {t} : archives[u] # archives[t]
<1>1. /\ active' = active /\ victims' = victims \ {t} /\ archives' = [archives EXCEPT ![t] = NoFile]
      /\ content' = [f \in Files |-> IF gone /\ f = archives[t] THEN <<>> ELSE content[f]]
      /\ victims # {} /\ victims \in SUBSET Times /\ victims \subseteq Archived
  BY DEF RemoveArchive, IInv, FileType, Archived
<1>2. t \in victims /\ t \in Archived /\ t \in Times
  BY <1>1, MaxTimes
<1> HIDE DEF t
<1>3. /\ archives' \in [Times -> Files \union {NoFile}]
      /\ \A u \in Times : archives'[u] = IF u = t THEN NoFile ELSE archives[u]
  BY <1>1, <1>2 DEF IInv, FileType
<1>4. Archived' = Archived \ {t} /\ archives[t] \in Files /\ NoFile \notin Files
  BY <1>2, <1>3 DEF Archived, IInv, FileType, NoFile, Files
<1>5. Named' = {active} \union {archives'[u] : u \in Times}
  BY <1>1 DEF Named
<1>6. (archives[t] \notin Named') <=> gone
  BY <1>2, <1>3, <1>4, <1>5 DEF Archived
<1>7. (Files \ Named)' \subseteq (Files \ Named) \union {archives[t]}
  BY <1>2, <1>3, <1>5 DEF Named, Files
<1>8. content' \in [Files -> Seq(Entry)]
  <2>1. <<>> \in Seq(Entry)
    OBVIOUS
  <2>2. \A f \in Files : content[f] \in Seq(Entry)
    BY DEF PlaceInv
  <2> HIDE DEF gone
  <2> QED BY <1>1, <2>1, <2>2
<1>9. \A f \in Files : content'[f] = IF gone /\ f = archives[t] THEN <<>> ELSE content[f]
  BY <1>1
<1>10. purged' = IF gone THEN purged \union {e.rec : e \in ToSet(content[archives[t]])} ELSE purged
  BY DEF RemoveArchive, t
<1> HIDE DEF gone
<1>11. Removed(t)
  <2>1. purged \subseteq purged'
    BY <1>10
  <2>2. gone => \A k \in DOMAIN content[archives[t]] : content[archives[t]][k].rec \in purged'
    BY <1>10 DEF ToSet
  <2> QED BY <1>1, <1>2, <1>3, <1>4, <1>6, <1>7, <1>8, <1>9, <2>1, <2>2 DEF Removed, t
<1> QED BY <1>2, <1>11

LEMMA RemovePlaces ==
    ASSUME IInv, PlaceInv, RemoveArchive PROVE PlaceInv'
<1>1. PICK t \in Times : Removed(t)
  BY RemovesOne
<1>2. UNCHANGED <<active, handle, pc, why, rotated, record, acked>> /\ pc \in {"dedupe", "purge"}
  BY DEF RemoveArchive
<1>3. (\A f \in Files \ Named : content[f] = <<>>)'
  BY <1>1 DEF PlaceInv, Removed
<1>4. pc = "dedupe" => victims' \subseteq Aliases(active)' /\ active \in Named'
  BY <1>1, <1>2 DEF PlaceInv, Removed, Aliases, Archived, Named
<1>5. pc = "dedupe" /\ rotated => content'[active] = <<>>
  BY <1>1, <1>2, <1>4 DEF PlaceInv, Removed, IInv, FileType
<1> QED BY <1>1, <1>2, <1>3, <1>4, <1>5 DEF PlaceInv, Removed

LEMMA LinkPlaces ==
    ASSUME IInv, PlaceInv, NEW now \in Clock, Link(now) PROVE PlaceInv'
<1>1. PICK t \in Times : Added(t)
  BY LinkAdds
<1>2. pc' = "unlink" /\ UNCHANGED <<active, content, handle, why, rotated, record, acked>> /\ pc = "link"
  BY DEF Link, historyVars
<1>3. (Files \ Named)' \subseteq Files \ Named
  <2>1. ASSUME NEW u \in Times PROVE archives[u] \in Named' \/ archives[u] \notin Files
    BY <1>1 DEF Named, Added, Archived, NoFile, Files
  <2> QED BY <1>2, <2>1 DEF Named
<1> QED
  <2>1. (\A f \in Files \ Named : content[f] = <<>>)'
    BY <1>2, <1>3 DEF PlaceInv
  <2>2. Max(Archived)' \in Archived' /\ archives'[Max(Archived)'] = active'
    BY <1>1, <1>2 DEF Added
  <2> QED BY <1>2, <2>1, <2>2 DEF PlaceInv

\* The file that loses its active name is the youngest archive.
LEMMA UnlinkPlaces ==
    ASSUME IInv, PlaceInv, Unlink \/ UnlinkFails PROVE PlaceInv'
<1>1. /\ pc = "unlink" /\ pc' \in {"open", "undo"} /\ UNCHANGED <<archives, content, why, record, acked>>
      /\ (pc' = "open" /\ active' = NoFile) \/ (pc' = "undo" /\ active' = active /\ rotated' = rotated)
  BY DEF Unlink, UnlinkFails, historyVars, dirVars
<1>2. Max(Archived)' = Max(Archived) /\ Archived' = Archived /\ Archived \subseteq Times
      /\ Max(Archived) \in Archived /\ archives[Max(Archived)] = active
  BY <1>1 DEF Archived, PlaceInv
<1>3. (Files \ Named)' \subseteq Files \ Named
  <2>1. archives[Max(Archived)] \in {archives[t] : t \in Times}
    BY <1>2
  <2> QED BY <1>1, <1>2, <2>1 DEF Named
<1>4. (\A f \in Files \ Named : content[f] = <<>>)'
  BY <1>1, <1>3 DEF PlaceInv
<1> QED BY <1>1, <1>2, <1>4 DEF PlaceInv

\* The name taken back is the active file's.
Taken(t) ==
    /\ t \in Archived /\ archives[t] = active /\ Archived' = Archived \ {t}
    /\ archives' \in [Times -> Files \union {NoFile}]
    /\ \A u \in Times : archives'[u] = IF u = t THEN NoFile ELSE archives[u]

LEMMA UndoTakes ==
    ASSUME IInv, PlaceInv, Undo PROVE \E t \in Times : Taken(t)
<1> DEFINE t == Max(Archived)
<1>1. archives' = [archives EXCEPT ![t] = NoFile] /\ t \in Archived /\ archives[t] = active
  BY DEF Undo, PlaceInv
<1> HIDE DEF t
<1>2. /\ t \in Times /\ archives' \in [Times -> Files \union {NoFile}]
      /\ \A u \in Times : archives'[u] = IF u = t THEN NoFile ELSE archives[u]
  BY <1>1 DEF IInv, FileType, Archived
<1>3. Archived' = Archived \ {t}
  BY <1>2 DEF Archived
<1> QED BY <1>1, <1>2, <1>3 DEF Taken

LEMMA UndoPlaces ==
    ASSUME IInv, PlaceInv, Undo PROVE PlaceInv'
<1>1. PICK t \in Times : Taken(t)
  BY UndoTakes
<1>2. UNCHANGED <<active, content, acked>> /\ Fail(handle)
  BY DEF Undo, historyVars
<1>3. Named \subseteq Named'
  <2>1. ASSUME NEW u \in Times PROVE archives[u] \in Named'
    BY <1>1, <1>2 DEF Named, Taken
  <2> QED BY <1>2, <2>1 DEF Named
<1>4. (\A f \in Files \ Named : content[f] = <<>>)'
  BY <1>2, <1>3 DEF PlaceInv
<1> QED BY <1>2, <1>4, FailPlaces DEF PlaceInv

LEMMA EndPlaces ==
    ASSUME IInv, PlaceInv, (\E cutoff \in Int : Clean(cutoff)) \/ Cleaned \/ AppendRecord \/ Return \/ Crash
    PROVE  PlaceInv'
<1>1. UNCHANGED <<active, archives>> /\ Archived' = Archived /\ Named' = Named
  BY DEF Clean, Cleaned, AppendRecord, Return, Crash, dirVars, Archived, Named
<1>2. CASE \E cutoff \in Int : Clean(cutoff)
  <2>1. pc = "clean" /\ pc' = "purge" /\ UNCHANGED <<content, handle, why, rotated, record, acked>>
    BY <1>2 DEF Clean, dirVars, historyVars
  <2> QED BY <1>1, <2>1 DEF PlaceInv
<1>3. CASE Cleaned
  <2>1. pc = "purge" /\ UNCHANGED <<content, why, rotated, record, acked>>
    BY <1>3 DEF Cleaned, dirVars, historyVars
  <2>2. why \in {"start", "write", "close"}
    BY DEF IInv, FileType
  <2>3. \/ why = "write" /\ pc' = "append" /\ handle' = handle
        \/ why # "write" /\ pc' \in {"idle", "down"}
    BY <1>3, <2>2 DEF Cleaned
  <2> QED BY <1>1, <2>1, <2>3 DEF PlaceInv
<1>4. CASE AppendRecord
  <2>1. pc = "append" /\ pc' = "written" /\ UNCHANGED <<handle, why, rotated, record, acked>>
        /\ AppendBytes(Length[record])
    BY <1>4 DEF AppendRecord, historyVars
  <2>2. record \in Records /\ Length[record] \in Nat \ {0}
    BY <2>1, RecordAssumption DEF PlaceInv
  <2>3. active \in Files /\ [rec |-> record, bytes |-> Length[record]] \in Entry
        /\ content' = [content EXCEPT ![active] = Append(@, [rec |-> record, bytes |-> Length[record]])]
    BY <2>1, <2>2, AppendEntry
  <2>4. content' \in [Files -> Seq(Entry)]
    BY <2>3, AppendedBytes DEF PlaceInv
  <2>5. (\A f \in Files \ Named : content[f] = <<>>)'
    BY <1>1, <2>3 DEF PlaceInv, Named
  <2> QED BY <1>1, <2>1, <2>4, <2>5 DEF PlaceInv
<1>5. CASE Return
  <2>1. pc = "written" /\ pc' = "idle" /\ UNCHANGED <<content, handle, why, rotated>> /\ acked' = Append(acked, record)
    BY <1>5 DEF Return, dirVars
  <2>2. acked' \in Seq(Records)
    BY <2>1 DEF PlaceInv
  <2> QED BY <1>1, <2>1, <2>2 DEF PlaceInv
<1>6. CASE Crash
  <2>1. pc' = "down" /\ UNCHANGED <<content, acked>> /\ why' = "start" /\ rotated' = FALSE
    BY <1>6 DEF Crash, dirVars
  <2> QED BY <1>1, <2>1 DEF PlaceInv
<1> QED BY <1>2, <1>3, <1>4, <1>5, <1>6

\* What an earlier process has left is in the active file.
LEMMA InitPlaces == Init => PlaceInv
<1> SUFFICES ASSUME Init PROVE PlaceInv
  OBVIOUS
<1>1. /\ active = (IF Earlier = <<>> THEN NoFile ELSE Min(Files)) /\ acked = Earlier /\ pc = "down"
      /\ content = [f \in Files |->
            [i \in IF f = active THEN DOMAIN Earlier ELSE {} |-> [rec |-> Earlier[i], bytes |-> Length[Earlier[i]]]]]
      /\ rotated = FALSE
  BY DEF Init
<1>2. ASSUME NEW f \in Files PROVE content[f] \in Seq(Entry) /\ (f # active => content[f] = <<>>)
  <2>1. CASE f = active
    <3>1. /\ DOMAIN content[f] = 1..Len(Earlier) /\ Len(Earlier) \in Nat
          /\ content[f] = [i \in 1..Len(Earlier) |-> [rec |-> Earlier[i], bytes |-> Length[Earlier[i]]]]
      BY <1>1, <2>1, EarlierAssumption
    <3>2. \A i \in 1..Len(Earlier) : [rec |-> Earlier[i], bytes |-> Length[Earlier[i]]] \in Entry
      BY EarlierAssumption, RecordAssumption DEF Entry
    <3> QED BY <2>1, <3>1, <3>2, IsASeq
  <2>2. CASE f # active
    <3>1. content[f] = [i \in {} |-> [rec |-> Earlier[i], bytes |-> Length[Earlier[i]]]]
      BY <1>1, <2>2
    <3>2. content[f] = <<>>
      BY <3>1
    <3> QED BY <3>2
  <2> QED BY <2>1, <2>2
<1>3. content \in [Files -> Seq(Entry)]
  BY <1>1, <1>2
<1>4. \A f \in Files \ Named : content[f] = <<>>
  BY <1>2 DEF Named
<1> QED BY <1>1, <1>3, <1>4, EarlierAssumption DEF PlaceInv

LEMMA PlaceKeeps == IInv /\ PlaceInv /\ [Next]_vars => PlaceInv'
<1> SUFFICES ASSUME IInv, PlaceInv, [Next]_vars PROVE PlaceInv'
  OBVIOUS
<1>1. CASE Step
  <2>1. ASSUME NEW cutoff \in IF Expires THEN 0..MaxTime ELSE {0}, Clean(cutoff) PROVE PlaceInv'
    <3>1. cutoff \in Int
      BY BoundAssumption
    <3> QED BY <2>1, <3>1, EndPlaces
  <2> QED BY <1>1, <2>1, BeginPlaces, FailurePlaces, OpenPlaces, RemovePlaces, LinkPlaces, UndoPlaces,
             UnlinkPlaces, EndPlaces DEF Step
<1>2. CASE \E r \in Records : Write(r)
  BY <1>2, BeginPlaces
<1>3. CASE \E n \in 0..MaxFile : AppendFails(n)
  BY <1>3, FailurePlaces
<1>4. CASE UNCHANGED vars
  <2>1. UNCHANGED <<active, archives, content, handle, pc, why, rotated, victims, record, acked>>
    BY <1>4 DEF vars, dirVars, opVars, historyVars
  <2>2. Archived' = Archived /\ Named' = Named /\ Aliases(active)' = Aliases(active)
    BY <2>1 DEF Archived, Named, Aliases
  <2> QED BY <2>1, <2>2 DEF PlaceInv
<1> QED BY <1>1, <1>2, <1>3, <1>4 DEF Next

----------------------------------------------------------------------------
\* RoomInv: cleanup makes room for the record, and only the record takes it.

\* All that cleanup keeps is at least as young as the oldest of it, which has neither
\* too many archives after it nor too many bytes from it on.
LEMMA CleanMakesRoom ==
    ASSUME IInv, PlaceInv, RoomInv, NEW cutoff \in Int, Clean(cutoff) PROVE RoomInv'
<1> DEFINE R == Archived \ Outdated(cutoff)
<1>1. /\ pc = "clean" /\ pc' = "purge" /\ victims' = Outdated(cutoff) /\ Remaining >= 0
      /\ UNCHANGED <<active, archives, content, handle, why, record>>
  BY DEF Clean, dirVars
<1>2. handle = active /\ active \in Files /\ FileType /\ content \in [Files -> Seq(Entry)]
  BY <1>1 DEF PlaceInv, IInv, FileType
<1>3. /\ Bytes(active)' = Bytes(active) /\ Archived' = Archived /\ Aliases(active)' = Aliases(active)
      /\ SizeOf(R)' = SizeOf(R) /\ Remaining' = Remaining /\ R' = R
  <2>1. Archived' = Archived /\ \A f : BytesIn(f)' = BytesIn(f)
    BY <1>1 DEF Archived, BytesIn
  <2>2. Aliases(active)' = Aliases(active) /\ Aliases(handle)' = Aliases(handle) /\ Finished' = Finished
    BY <1>1, <2>1 DEF Aliases, Finished
  <2>3. \A f : Bytes(f)' = Bytes(f)
    BY <2>1 DEF Bytes
  <2>4. Remaining' = Remaining
    BY <1>1, <2>3 DEF Remaining, Pending
  <2>5. \A S : SizeOf(S)' = SizeOf(S)
    BY <1>1, <2>1 DEF SizeOf
  <2>6. \A t : Expendable(t, cutoff)' <=> Expendable(t, cutoff)
    BY <2>2, <2>4, <2>5 DEF Expendable, SizeFrom
  <2> QED BY <1>1, <2>1, <2>2, <2>3, <2>4, <2>5, <2>6 DEF Outdated
<1>4. R \subseteq Finished /\ Finished \subseteq Archived /\ \A t \in R : ~Expendable(t, cutoff)
  BY DEF Outdated, Finished
<1>5. Remaining \in Int /\ MaxBackups \in Nat
  <2>1. Bytes(handle) \in Nat
    BY <1>2, BytesFinite
  <2>2. Pending \in Int
    BY <1>1, RecordAssumption DEF Pending, PlaceInv
  <2> QED BY <2>1, <2>2, RotationAssumption DEF Remaining
<1> HIDE DEF R
<1>6. Cardinality(R) <= MaxBackups /\ SizeOf(R) <= Remaining
  <2>1. CASE R = {}
    <3>1. Cardinality(R) = 0
      BY <2>1, FS_EmptySet
    <3>2. UNION {{t} \X BytesIn(archives[t]) : t \in {}} = {}
      OBVIOUS
    <3>3. SizeOf(R) = 0
      BY <2>1, <3>2, FS_EmptySet DEF SizeOf
    <3> QED BY <1>1, <1>5, <3>1, <3>3
  <2>2. CASE R # {}
    <3> DEFINE o == Min(R)
               after == {u \in Finished : u > o}
               from == {u \in Finished : u >= o}
    <3>1. R \in SUBSET Files /\ Times \subseteq Nat /\ R \subseteq Times
      BY <1>4, BoundAssumption DEF Archived, Times, Files
    <3>2. o \in R /\ \A u \in R : o <= u
      BY <2>2, <3>1, MinFiles
    <3> HIDE DEF o
    <3>3. /\ ~(Cardinality(after) >= MaxBackups) /\ ~(SizeFrom(o) > Remaining)
      BY <1>4, <3>2 DEF Expendable
    <3>4. /\ IsFiniteSet(after) /\ Cardinality(after) \in Nat
      <4>1. after \in SUBSET Archived
        BY <1>4
      <4> HIDE DEF after
      <4>2. IsFiniteSet(after)
        BY <1>2, <4>1, SizeGrows
      <4> QED BY <4>2, FS_CardinalityType
    <3>5. R \in SUBSET (after \union {o})
      BY <1>4, <3>1, <3>2
    <3>6. Cardinality(R) <= MaxBackups
      <4>1. Cardinality(after \union {o}) = Cardinality(after) + 1 /\ IsFiniteSet(after \union {o})
        <5>1. o \notin after
          BY <3>1, <3>2
        <5> HIDE DEF after
        <5> QED BY <3>4, <5>1, FS_AddElement
      <4> HIDE DEF after
      <4>2. Cardinality(R) <= Cardinality(after \union {o}) /\ IsFiniteSet(R)
        BY <3>5, <4>1, FS_Subset
      <4>3. Cardinality(R) \in Nat
        BY <4>2, FS_CardinalityType
      <4> QED BY <1>5, <3>3, <3>4, <4>1, <4>2, <4>3
    <3>7. SizeOf(R) <= Remaining
      <4>1. from \in SUBSET Archived /\ R \in SUBSET from /\ SizeFrom(o) = SizeOf(from)
        BY <1>4, <3>1, <3>2 DEF SizeFrom
      <4> HIDE DEF from
      <4>2. SizeOf(R) \in Nat /\ SizeOf(from) \in Nat /\ SizeOf(R) <= SizeOf(from)
        BY <1>2, <4>1, SizeGrows
      <4> QED BY <1>5, <3>3, <4>1, <4>2
    <3> QED BY <3>6, <3>7
  <2> QED BY <2>1, <2>2
<1>7. Aliases(active)' \subseteq victims'
  BY <1>1, <1>2, <1>3 DEF Outdated
<1>8. R = Archived' \ victims' /\ SizeOf(Archived \ victims)' = SizeOf(R)
  BY <1>1, <1>3 DEF R
<1> QED BY <1>1, <1>3, <1>6, <1>7, <1>8 DEF RoomInv, WithinLimits

\* Removing a victim changes nothing about what is to stay.
LEMMA RemoveLeavesRoom ==
    ASSUME IInv, PlaceInv, RoomInv, RemoveArchive PROVE RoomInv'
<1>1. PICK t \in Times : Removed(t)
  BY RemovesOne
<1>2. /\ pc \in {"dedupe", "purge"} /\ UNCHANGED <<active, handle, pc, why, rotated, record>>
  BY DEF RemoveArchive
<1>3. CASE pc = "dedupe"
  BY <1>2, <1>3 DEF RoomInv, WithinLimits
<1>4. CASE pc = "purge"
  <2>1. handle = active /\ active \in Files
    BY <1>4 DEF PlaceInv, IInv, FileType
  <2>2. \A f \in Named' \intersect Files : BytesIn(f)' = BytesIn(f)
    BY <1>1 DEF BytesIn, Removed
  <2>3. active \in Named' /\ \A u \in Archived' : archives'[u] \in Named' /\ archives'[u] = archives[u]
                                                       /\ archives[u] \in Files
    BY <1>1, <1>2 DEF Named, Removed, Archived, IInv, FileType
  <2>4. Bytes(active)' = Bytes(active) /\ Remaining' = Remaining
    BY <1>2, <2>1, <2>2, <2>3 DEF Bytes, Remaining, Pending
  <2>5. Aliases(active)' \subseteq Aliases(active) \ {t} /\ (Archived \ victims)' = Archived \ victims
    BY <1>1, <1>2, <2>3 DEF Aliases, Removed
  <2>6. SizeOf(Archived \ victims)' = SizeOf(Archived \ victims)
    <3>1. \A u \in (Archived \ victims)' : {u} \X BytesIn(archives[u])' = {u} \X BytesIn(archives[u])
      BY <2>2, <2>3 DEF BytesIn
    <3> QED BY <2>5, <3>1 DEF SizeOf
  <2> QED BY <1>1, <1>2, <1>4, <2>4, <2>5, <2>6 DEF RoomInv, WithinLimits, Removed
<1> QED BY <1>2, <1>3, <1>4

\* The record takes the room that was made for it.
LEMMA AppendTakesRoom ==
    ASSUME IInv, PlaceInv, RoomInv, AppendRecord PROVE RoomInv'
<1>1. pc = "append" /\ pc' = "written" /\ UNCHANGED <<active, archives, handle>> /\ AppendBytes(Length[record])
  BY DEF AppendRecord
<1>2. /\ record \in Records /\ Length[record] \in Nat \ {0} /\ why = "write" /\ handle = active
  BY <1>1, RecordAssumption DEF PlaceInv
<1>3. /\ active \in Files /\ [rec |-> record, bytes |-> Length[record]] \in Entry
      /\ content' = [content EXCEPT ![active] = Append(@, [rec |-> record, bytes |-> Length[record]])]
  BY <1>1, <1>2, AppendEntry
<1>4. /\ Bytes(active)' = Bytes(active) + Length[record] /\ Bytes(active) \in Nat
      /\ \A g \in Files : g # active => BytesIn(g)' = BytesIn(g)
  BY <1>1, <1>3, AppendedBytes, BytesFinite DEF PlaceInv
<1>5. NoAlias /\ Cardinality(Archived) <= MaxBackups /\ SizeOf(Archived) <= Remaining
      /\ Bytes(active) + Length[record] <= MaxFile
  BY <1>1, <1>2 DEF RoomInv
<1>6. Archived' = Archived /\ \A t \in Archived : archives[t] \in Files /\ archives[t] # active
  BY <1>1, <1>5 DEF Archived, NoAlias, Aliases, IInv, FileType
<1>7. SizeOf(Archived)' = SizeOf(Archived)
  <2>1. \A t \in Archived : {t} \X BytesIn(archives[t])' = {t} \X BytesIn(archives[t])
    BY <1>1, <1>4, <1>6 DEF BytesIn
  <2> QED BY <1>6, <2>1 DEF SizeOf
<1>8. SizeOf(Archived) \in Nat /\ Remaining = MaxTotal - Length[record] - Bytes(active)
  BY <1>2, SizeGrows DEF Remaining, Pending, PlaceInv, IInv
<1>9. Bytes(active)' + SizeOf(Archived)' <= MaxTotal
  BY <1>2, <1>4, <1>5, <1>7, <1>8, RotationAssumption
<1>10. NoAlias'
  BY <1>1, <1>5, Frame
<1> QED BY <1>1, <1>2, <1>4, <1>5, <1>6, <1>9, <1>10 DEF RoomInv, WithinLimits

LEMMA RoomFrame ==
    ASSUME UNCHANGED <<active, archives, content, handle, why, record>>
    PROVE  /\ Bytes(active)' = Bytes(active) /\ Remaining' = Remaining
           /\ Archived' = Archived /\ Aliases(active)' = Aliases(active) /\ (NoAlias' <=> NoAlias)
           /\ SizeOf(Archived)' = SizeOf(Archived)
           /\ victims' = victims => SizeOf(Archived \ victims)' = SizeOf(Archived \ victims)
<1>1. Archived' = Archived /\ \A f : BytesIn(f)' = BytesIn(f)
  BY DEF Archived, BytesIn
<1>2. \A f : Bytes(f)' = Bytes(f)
  BY <1>1 DEF Bytes
<1>3. Bytes(active)' = Bytes(active) /\ Remaining' = Remaining
  BY <1>2 DEF Remaining, Pending
<1>4. Aliases(active)' = Aliases(active) /\ (NoAlias' <=> NoAlias)
  BY <1>1 DEF Aliases, NoAlias
<1>5. \A S : SizeOf(S)' = SizeOf(S)
  BY <1>1 DEF SizeOf
<1> QED BY <1>1, <1>3, <1>4, <1>5

\* A new active file is empty, and one that is not rotated was measured.
LEMMA MeasuredRoom ==
    ASSUME IInv, PlaceInv, RoomInv, Opened \/ Measure PROVE RoomInv'
<1>1. UNCHANGED <<active, archives, content, handle, why, record>>
  BY DEF Opened, Measure, dirVars
<1>2. Bytes(active)' = Bytes(active)
  BY <1>1, RoomFrame
<1>3. CASE Opened
  <2>1. pc = "dedupe" /\ pc' = IF rotated THEN "clean" ELSE "measure"
    BY <1>3 DEF Opened
  <2>2. CASE rotated /\ why = "write"
    <3>1. content[active] = <<>> /\ record \in Records /\ Length[record] <= MaxFile
      BY <2>1, <2>2 DEF PlaceInv
    <3>2. DOMAIN content[active] = {}
      BY <3>1
    <3>3. BytesIn(active) = {}
      BY <3>2 DEF BytesIn
    <3>4. Bytes(active) = 0 /\ Length[record] \in Nat
      BY <3>1, <3>3, FS_EmptySet, RecordAssumption DEF Bytes
    <3> QED BY <1>1, <1>2, <2>1, <2>2, <3>1, <3>4 DEF RoomInv, WithinLimits
  <2>3. CASE ~(rotated /\ why = "write")
    BY <1>1, <2>1, <2>3 DEF RoomInv, WithinLimits
  <2> QED BY <2>2, <2>3
<1>4. CASE Measure
  <2>1. pc = "measure" /\ handle = active /\ active \in Files
        /\ pc' = IF Bytes(handle) > MaxFile - Pending THEN "link" ELSE "clean"
    BY <1>4 DEF Measure, IInv, FileType
  <2>2. CASE why = "write" /\ pc' = "clean"
    <3>1. ~(Bytes(active) > MaxFile - Length[record]) /\ record \in Records
      BY <2>1, <2>2 DEF Pending, PlaceInv
    <3>2. Bytes(active) \in Nat /\ Length[record] \in Nat /\ MaxFile \in Nat
      BY <2>1, <3>1, BytesFinite, RecordAssumption, RotationAssumption DEF PlaceInv
    <3>3. Bytes(active) + Length[record] <= MaxFile
      BY <3>1, <3>2
    <3> QED BY <1>1, <1>2, <2>2, <3>3 DEF RoomInv, WithinLimits
  <2>3. CASE ~(why = "write" /\ pc' = "clean")
    BY <1>1, <2>1, <2>3 DEF RoomInv, WithinLimits
  <2> QED BY <2>2, <2>3
<1> QED BY <1>3, <1>4

LEMMA CleanedRoom ==
    ASSUME IInv, PlaceInv, RoomInv, Cleaned PROVE RoomInv'
<1>1. /\ pc = "purge" /\ victims = {} /\ UNCHANGED <<active, archives, content, why, record>>
      /\ why \in {"start", "write", "close"}
  BY DEF Cleaned, dirVars, IInv, FileType
<1>2. CASE why = "write"
  <2>1. pc' = "append" /\ handle' = handle
    BY <1>1, <1>2 DEF Cleaned
  <2>2. Archived \ victims = Archived /\ NoAlias
    BY <1>1 DEF RoomInv, NoAlias
  <2> QED BY <1>1, <1>2, <2>1, <2>2, RoomFrame DEF RoomInv, WithinLimits
<1>3. CASE why # "write"
  <2>1. pc' \in {"idle", "down"}
    BY <1>1, <1>3 DEF Cleaned
  <2> QED BY <2>1 DEF RoomInv, WithinLimits
<1> QED BY <1>2, <1>3

LEMMA RoomKeeps == IInv /\ PlaceInv /\ RoomInv /\ [Next]_vars => RoomInv'
<1> SUFFICES ASSUME IInv, PlaceInv, RoomInv, [Next]_vars PROVE RoomInv'
  OBVIOUS
<1>1. ASSUME pc' \notin {"clean", "purge", "append", "written"} PROVE RoomInv'
  BY <1>1 DEF RoomInv, WithinLimits
<1>2. ASSUME NEW h, Fail(h) PROVE RoomInv'
  <2>1. pc' \in {"idle", "down"} \/ (pc' = "clean" /\ why' = "close")
    BY <1>2 DEF Fail
  <2> QED BY <2>1 DEF RoomInv, WithinLimits
<1>3. CASE Prepare \/ Open \/ Unlink \/ UnlinkFails \/ Return \/ Crash \/ (\E now \in Clock : Link(now))
           \/ \E r \in Records : Write(r)
  <2>1. pc' \in {"open", "dedupe", "undo", "idle", "down", "unlink", "measure"}
    BY <1>3 DEF Prepare, Open, Unlink, UnlinkFails, Return, Crash, Link, Write
  <2> QED BY <1>1, <2>1
<1>4. CASE Close
  <2>1. pc' \in {"down", "clean"} /\ why' = "close"
    BY <1>4 DEF Close
  <2> QED BY <2>1 DEF RoomInv, WithinLimits
<1>5. CASE OpenFails \/ RemoveFails \/ LinkFails \/ UndoFails \/ CleanFails \/ Undo
           \/ \E n \in 0..MaxFile : AppendFails(n)
  BY <1>2, <1>5 DEF OpenFails, RemoveFails, LinkFails, UndoFails, CleanFails, Undo, AppendFails
<1>6. CASE \E cutoff \in IF Expires THEN 0..MaxTime ELSE {0} : Clean(cutoff)
  <2>1. PICK cutoff \in Int : Clean(cutoff)
    BY <1>6, BoundAssumption
  <2> QED BY <2>1, CleanMakesRoom
<1>7. CASE UNCHANGED vars
  <2>1. UNCHANGED <<active, archives, content, handle, pc, why, victims, record>>
    BY <1>7 DEF vars, dirVars, opVars
  <2> QED BY <2>1, RoomFrame DEF RoomInv, WithinLimits
<1> QED BY <1>3, <1>4, <1>5, <1>6, <1>7, RemoveLeavesRoom, AppendTakesRoom, MeasuredRoom, CleanedRoom
        DEF Next, Step

\* When a record has been written the active file, the number of archives and all of
\* them together are within the limits of the configuration, whatever an earlier
\* process with other limits has left (rotation.go, cleanup and removeOlder).
THEOREM LimitsHold == Spec => []WithinLimits
<1>1. Init => RoomInv
  BY DEF Init, RoomInv, WithinLimits
<1>2. RoomInv => WithinLimits
  BY DEF RoomInv
<1> QED BY <1>1, <1>2, InitInv, StepKeeps, InitPlaces, PlaceKeeps, RoomKeeps, PTL DEF Spec

----------------------------------------------------------------------------
(***************************************************************************)
(* Readable and LatestKept. Both follow from an order of the entries that  *)
(* does not depend on how many names a file has: those of one file by      *)
(* their position, those of two by which of them has the older names.      *)
(***************************************************************************)

HasName(f) == f = active \/ \E t \in Archived : archives[t] = f

\* The file stays when cleanup, if it is at work, has removed what it set out to.
Kept(f) == f = active \/ \E t \in Archived : archives[t] = f /\ (pc = "purge" => t \notin victims)

Older(f, g) == f # active /\ \A t, u \in Archived : archives[t] = f /\ archives[u] = g => t < u
Follows(f, k, g, l) == IF f = g THEN k < l ELSE Older(f, g)

\* A written record is there; each entry of an earlier record is followed by one of a
\* later record, as long as that is not removed, and never removed before it.
OrderInv ==
    /\ \A i \in DOMAIN acked : acked[i] \notin purged =>
         \E f \in Files : HasName(f) /\ Entries(f, acked[i]) # {}
    /\ \A i, j \in DOMAIN acked : i < j /\ acked[j] \notin purged =>
         \A f \in Files : \A k \in Entries(f, acked[i]) : HasName(f) =>
             \E g \in Files : \E l \in Entries(g, acked[j]) : HasName(g) /\ Follows(f, k, g, l)
    /\ \A i, j \in DOMAIN acked : i < j /\ acked[i] \notin spared =>
         \A f \in Files : \A k \in Entries(f, acked[i]) : Kept(f) =>
             \E g \in Files : \E l \in Entries(g, acked[j]) : Kept(g) /\ Follows(f, k, g, l)
    /\ pc = "written" => Len(content[active]) \in Entries(active, record)

\* What a step may do to the names without disturbing the order.
LEMMA NamesMove ==
    ASSUME OrderInv, acked' = acked, purged \subseteq purged', spared \subseteq spared', pc' # "written",
           \A f \in Files : \A i \in DOMAIN acked :
             /\ HasName(f)' /\ ~HasName(f) => Entries(f, acked[i])' = {}
             /\ HasName(f)' /\ HasName(f) => Entries(f, acked[i])' = Entries(f, acked[i])
             /\ HasName(f) /\ ~HasName(f)' /\ Entries(f, acked[i]) # {} => acked[i] \in purged',
           \A f, g \in Files : HasName(f) /\ HasName(g) /\ f # g /\ Older(f, g) => Older(f, g)',
           \A f \in Files : Kept(f) => Kept(f)',
           \A f \in Files, i \in DOMAIN acked :
             HasName(f) /\ Kept(f)' /\ Entries(f, acked[i]) # {} /\ acked[i] \notin spared' => Kept(f)
    PROVE  OrderInv'
<1>1. \A f : (Kept(f) => HasName(f)) /\ (Kept(f)' => HasName(f)')
  BY DEF Kept, HasName
<1>2. ASSUME NEW f \in Files, NEW g \in Files, NEW k, NEW l, HasName(f), HasName(g), Follows(f, k, g, l)
      PROVE  Follows(f, k, g, l)'
  BY <1>2 DEF Follows
<1>3. ASSUME NEW i \in DOMAIN acked, acked[i] \notin purged'
      PROVE  \E f \in Files : HasName(f)' /\ Entries(f, acked[i])' # {}
  <2>1. PICK f \in Files : HasName(f) /\ Entries(f, acked[i]) # {}
    BY <1>3 DEF OrderInv
  <2>2. HasName(f)' /\ Entries(f, acked[i])' # {}
    BY <1>3, <2>1
  <2> QED BY <2>2
<1>4. ASSUME NEW i \in DOMAIN acked, NEW j \in DOMAIN acked, i < j, acked[j] \notin purged',
             NEW f \in Files, NEW k \in Entries(f, acked[i])', HasName(f)'
      PROVE  \E g \in Files : \E l \in Entries(g, acked[j])' : HasName(g)' /\ Follows(f, k, g, l)'
  <2>1. HasName(f) /\ k \in Entries(f, acked[i])
    BY <1>4
  <2>2. PICK g \in Files : \E l \in Entries(g, acked[j]) : HasName(g) /\ Follows(f, k, g, l)
    BY <1>4, <2>1 DEF OrderInv
  <2>3. PICK l \in Entries(g, acked[j]) : HasName(g) /\ Follows(f, k, g, l)
    BY <2>2
  <2>4. HasName(g)' /\ l \in Entries(g, acked[j])'
    BY <1>4, <2>3
  <2> QED BY <1>2, <2>1, <2>3, <2>4
<1>5. ASSUME NEW i \in DOMAIN acked, NEW j \in DOMAIN acked, i < j, acked[i] \notin spared',
             NEW f \in Files, NEW k \in Entries(f, acked[i])', Kept(f)'
      PROVE  \E g \in Files : \E l \in Entries(g, acked[j])' : Kept(g)' /\ Follows(f, k, g, l)'
  <2>1. HasName(f) /\ k \in Entries(f, acked[i]) /\ Kept(f) /\ acked[i] \notin spared
    BY <1>1, <1>5
  <2>2. PICK g \in Files : \E l \in Entries(g, acked[j]) : Kept(g) /\ Follows(f, k, g, l)
    BY <1>5, <2>1 DEF OrderInv
  <2>3. PICK l \in Entries(g, acked[j]) : Kept(g) /\ Follows(f, k, g, l)
    BY <2>2
  <2>4. HasName(g) /\ Kept(g)' /\ HasName(g)' /\ l \in Entries(g, acked[j])'
    BY <1>1, <1>5, <2>3
  <2> QED BY <1>2, <2>1, <2>3, <2>4
<1> QED BY <1>3, <1>4, <1>5 DEF OrderInv

\* A file that only stays because cleanup was interrupted has the records it spares.
LEMMA SparedStay ==
    ASSUME Spare, PlaceInv, NEW f \in Files, NEW i \in DOMAIN acked, HasName(f), ~Kept(f), Entries(f, acked[i]) # {}
    PROVE  acked[i] \in spared'
<1>1. pc = "purge" /\ f # active
  BY DEF HasName, Kept
<1>2. PICK t \in Archived : archives[t] = f /\ t \in victims
  BY <1>1 DEF HasName, Kept
<1>3. PICK k \in DOMAIN content[f] : content[f][k].rec = acked[i]
  BY DEF Entries
<1>4. content[f][k] \in ToSet(content[f])
  BY <1>3 DEF ToSet
<1>5. acked[i] \in {e.rec : e \in ToSet(content[archives[t]])}
  BY <1>2, <1>3, <1>4
<1>6. acked[i] \in Doomed
  BY <1>1, <1>2, <1>5 DEF Doomed
<1> QED BY <1>1, <1>6 DEF Spare

\* Steps that leave the directory alone: cleanup ends, or has been interrupted.
LEMMA QuietOrder ==
    ASSUME PlaceInv, OrderInv, UNCHANGED <<active, archives, content, acked, purged>>,
           pc' \notin {"purge", "written"},
           Spare \/ (spared' = spared /\ (pc = "purge" => victims = {}))
    PROVE  OrderInv'
<1>1. Archived' = Archived /\ \A f, r : Entries(f, r)' = Entries(f, r)
  BY DEF Archived, Entries, Whole
<1>2. \A f, g : (HasName(f)' <=> HasName(f)) /\ (Older(f, g)' <=> Older(f, g))
  BY <1>1 DEF HasName, Older
<1>3. \A f : Kept(f) => Kept(f)'
  BY <1>1 DEF Kept
<1>4. spared \subseteq spared'
  BY DEF Spare
<1>5. ASSUME NEW f \in Files, NEW i \in DOMAIN acked, HasName(f), Entries(f, acked[i]) # {}, acked[i] \notin spared'
      PROVE  Kept(f)
  <2>1. CASE Spare
    BY <1>5, <2>1, SparedStay
  <2>2. CASE pc = "purge" => victims = {}
    BY <1>5, <2>2 DEF HasName, Kept
  <2> QED BY <2>1, <2>2
<1> QED BY <1>1, <1>2, <1>3, <1>4, <1>5, NamesMove

LEMMA OpenOrder ==
    ASSUME IInv, PlaceInv, OrderInv, Open PROVE OrderInv'
<1>1. /\ pc = "open" /\ pc' = "dedupe" /\ UNCHANGED <<archives, content, acked, purged, spared>>
      /\ active' = IF active = NoFile THEN Fresh ELSE active
  BY DEF Open, historyVars
<1>2. CASE active # NoFile
  BY <1>1, <1>2, QuietOrder
<1>3. CASE active = NoFile
  <2>1. active' \in Files \ Named /\ content[active'] = <<>> /\ NoFile \notin Files
    BY <1>1, <1>3, FreshIsNew DEF IInv, PlaceInv, NoFile, Files
  <2>2. Archived' = Archived /\ \A f, r : Entries(f, r)' = Entries(f, r)
    BY <1>1 DEF Archived, Entries, Whole
  <2>3. \A r : Entries(active', r) = {}
    BY <2>1 DEF Entries
  <2>4. \A f \in Files : HasName(f) => HasName(f)' /\ f # active'
    BY <1>1, <1>3, <2>1, <2>2 DEF HasName, Archived, Named
  <2>5. \A f \in Files : HasName(f)' => HasName(f) \/ f = active'
    BY <1>1, <2>2 DEF HasName
  <2>6. \A f, g \in Files : HasName(f) /\ Older(f, g) => Older(f, g)'
    BY <1>1, <2>2, <2>4 DEF Older
  <2>7. \A f \in Files : (Kept(f) <=> HasName(f)) /\ (Kept(f)' <=> HasName(f)')
    BY <1>1 DEF Kept, HasName
  <2>8. \A f \in Files : \A i \in DOMAIN acked :
             /\ HasName(f)' /\ ~HasName(f) => Entries(f, acked[i])' = {}
             /\ HasName(f)' /\ HasName(f) => Entries(f, acked[i])' = Entries(f, acked[i])
             /\ HasName(f) /\ ~HasName(f)' /\ Entries(f, acked[i]) # {} => acked[i] \in purged'
    BY <1>1, <2>2, <2>3, <2>4, <2>5
  <2> QED BY <1>1, <2>4, <2>6, <2>7, <2>8, NamesMove
<1> QED BY <1>2, <1>3

\* A name more or less for the active file, which has the youngest one anyway.
LEMMA ActiveOrder ==
    ASSUME IInv, PlaceInv, OrderInv, UNCHANGED <<active, content, acked, purged, spared>>,
           active \in Files, pc \notin {"purge"}, pc' \notin {"purge", "written"}, NEW t \in Times,
           \/ Added(t)
           \/ Taken(t)
    PROVE  OrderInv'
<1>1. \A f, r : Entries(f, r)' = Entries(f, r)
  BY DEF Entries, Whole
<1>2. Archived \subseteq Times /\ \A u \in Times : u # t => archives'[u] = archives[u]
  BY DEF Added, Taken, Archived
<1>3. CASE Added(t)
  <2>1. Archived' = Archived \union {t} /\ archives'[t] = active /\ t \notin Archived /\ \A u \in Archived : t > u
    BY <1>3 DEF Added
  <2>2. \A f \in Files : HasName(f)' <=> HasName(f)
    BY <1>2, <2>1 DEF HasName
  <2>3. \A f, g \in Files : f # g /\ Older(f, g) => Older(f, g)'
    BY <1>2, <2>1 DEF Older
  <2>4. \A f \in Files : (Kept(f) <=> HasName(f)) /\ (Kept(f)' <=> HasName(f)')
    BY DEF Kept, HasName
  <2> QED BY <1>1, <2>2, <2>3, <2>4, NamesMove
<1>4. CASE Taken(t)
  <2>1. Archived' = Archived \ {t} /\ archives[t] = active /\ t \in Archived
    BY <1>4 DEF Taken
  <2>2. \A f \in Files : HasName(f)' <=> HasName(f)
    BY <1>2, <2>1 DEF HasName
  <2>3. \A f, g \in Files : f # g /\ Older(f, g) => Older(f, g)'
    BY <1>2, <2>1 DEF Older
  <2>4. \A f \in Files : (Kept(f) <=> HasName(f)) /\ (Kept(f)' <=> HasName(f)')
    BY DEF Kept, HasName
  <2> QED BY <1>1, <2>2, <2>3, <2>4, NamesMove
<1> QED BY <1>3, <1>4

LEMMA UnlinkOrder ==
    ASSUME IInv, PlaceInv, OrderInv, Unlink PROVE OrderInv'
<1>1. /\ pc = "unlink" /\ pc' = "open" /\ UNCHANGED <<archives, content, acked, purged, spared>> /\ active' = NoFile
  BY DEF Unlink, historyVars
<1>2. Archived' = Archived /\ (\A f, r : Entries(f, r)' = Entries(f, r)) /\ NoFile \notin Files
  BY <1>1 DEF Archived, Entries, Whole, NoFile, Files
<1>3. Max(Archived) \in Archived /\ archives[Max(Archived)] = active
  BY <1>1 DEF PlaceInv
<1>4. \A f \in Files : HasName(f)' <=> HasName(f)
  BY <1>1, <1>2, <1>3 DEF HasName
<1>5. \A f, g \in Files : Older(f, g) => Older(f, g)'
  BY <1>1, <1>2 DEF Older
<1>6. \A f \in Files : (Kept(f) <=> HasName(f)) /\ (Kept(f)' <=> HasName(f)')
  BY <1>1 DEF Kept, HasName
<1> QED BY <1>1, <1>2, <1>4, <1>5, <1>6, NamesMove

\* What is removed was to be removed; only its own entries go.
LEMMA RemoveOrder ==
    ASSUME IInv, PlaceInv, OrderInv, RemoveArchive PROVE OrderInv'
<1>1. PICK t \in Times : Removed(t)
  BY RemovesOne
<1>2. /\ pc \in {"dedupe", "purge"} /\ UNCHANGED <<active, pc, acked, spared>>
  BY DEF RemoveArchive
<1>3. /\ Archived' = Archived \ {t} /\ t \in Archived /\ t \in victims /\ victims' = victims \ {t}
      /\ \A u \in Archived' : archives'[u] = archives[u]
  BY <1>1 DEF Removed, Archived
<1>4. \A f \in Files : (HasName(f)' => HasName(f)) /\ (HasName(f) /\ ~HasName(f)' => f = archives[t])
  BY <1>2, <1>3 DEF HasName
<1>5. \A f \in Files : HasName(f)' <=> f \in Named'
  <2>1. Named' = {active'} \union {archives'[u] : u \in Times} /\ NoFile \notin Files
    BY DEF Named, NoFile, Files
  <2> QED BY <2>1 DEF HasName, Archived
<1>6. \A f \in Files : HasName(f)' => content'[f] = content[f]
  BY <1>1, <1>5 DEF Removed
<1>7. \A f \in Files, r \in Records :
         /\ HasName(f)' => Entries(f, r)' = Entries(f, r)
         /\ HasName(f) /\ ~HasName(f)' /\ Entries(f, r) # {} => r \in purged'
  <2>1. \A f \in Files, r \in Records : HasName(f)' => Entries(f, r)' = Entries(f, r)
    BY <1>6 DEF Entries, Whole
  <2>2. ASSUME NEW f \in Files, NEW r \in Records, HasName(f), ~HasName(f)', NEW k \in Entries(f, r)
        PROVE  r \in purged'
    <3>1. f = archives[t] /\ archives[t] \notin Named'
      BY <1>4, <1>5, <2>2
    <3>2. k \in DOMAIN content[archives[t]] /\ content[archives[t]][k].rec = r
      BY <3>1 DEF Entries
    <3> QED BY <1>1, <3>1, <3>2 DEF Removed
  <2> QED BY <2>1, <2>2
<1>8. \A f, g \in Files : Older(f, g) => Older(f, g)'
  BY <1>2, <1>3 DEF Older
<1>9. \A f \in Files : HasName(f) => (Kept(f)' <=> Kept(f))
  <2>1. CASE pc = "purge"
    BY <1>2, <1>3, <2>1 DEF Kept
  <2>2. CASE pc = "dedupe"
    <3>1. archives[t] = active
      BY <1>3, <2>2 DEF PlaceInv, Aliases
    <3> QED BY <1>2, <1>3, <2>2, <3>1 DEF Kept, HasName
  <2> QED BY <1>2, <2>1, <2>2
<1>10. purged \subseteq purged' /\ \A i \in DOMAIN acked : acked[i] \in Records
  BY <1>1 DEF Removed, PlaceInv
<1>11. \A f \in Files : Kept(f) => Kept(f)'
  BY <1>9 DEF Kept, HasName
<1> QED BY <1>2, <1>4, <1>7, <1>8, <1>9, <1>10, <1>11, NamesMove

\* An archive after one that is not expendable is not expendable.
LEMMA YoungerStays ==
    ASSUME IInv, PlaceInv, NEW t \in Finished, NEW u \in Finished, t < u, NEW cutoff \in Int,
           Remaining \in Int, ~Expendable(t, cutoff)
    PROVE  ~Expendable(u, cutoff)
<1> DEFINE later(v) == {w \in Finished : w > v}
           from(v) == {w \in Finished : w >= v}
<1>1. Finished \subseteq Archived /\ Archived \subseteq Nat /\ MaxBackups \in Nat
  BY BoundAssumption, RotationAssumption DEF Finished, Archived, Times
<1>2. /\ later(t) \in SUBSET Archived /\ later(u) \in SUBSET later(t)
      /\ from(t) \in SUBSET Archived /\ from(u) \in SUBSET from(t)
  <2>1. \A w \in Finished : (w > u => w > t) /\ (w >= u => w >= t)
    BY <1>1
  <2>2. later(u) \in SUBSET later(t) /\ from(u) \in SUBSET from(t)
    BY <2>1
  <2>3. later(t) \in SUBSET Archived /\ from(t) \in SUBSET Archived
    BY <1>1
  <2> QED BY <2>2, <2>3
<1>3. /\ ~(Cardinality(later(t)) >= MaxBackups) /\ ~(SizeOf(from(t)) > Remaining) /\ ~(t < cutoff)
  BY DEF Expendable, SizeFrom
<1>4. (Cardinality(later(u)) >= MaxBackups \/ SizeOf(from(u)) > Remaining \/ u < cutoff) <=> Expendable(u, cutoff)
  BY DEF Expendable, SizeFrom
<1> HIDE DEF later, from
<1>5. /\ Cardinality(later(u)) \in Nat /\ Cardinality(later(u)) <= Cardinality(later(t))
      /\ IsFiniteSet(later(t))
  BY <1>2, SizeGrows DEF IInv, PlaceInv
<1>6. Cardinality(later(t)) \in Nat
  BY <1>5, FS_CardinalityType
<1>7. /\ SizeOf(from(u)) \in Nat /\ SizeOf(from(t)) \in Nat /\ SizeOf(from(u)) <= SizeOf(from(t))
  BY <1>2, SizeGrows DEF IInv, PlaceInv
<1>8. ~(Cardinality(later(u)) >= MaxBackups)
  BY <1>1, <1>3, <1>5, <1>6
<1>9. ~(SizeOf(from(u)) > Remaining)
  BY <1>3, <1>7
<1>10. ~(u < cutoff)
  BY <1>1, <1>3
<1> QED BY <1>4, <1>8, <1>9, <1>10

\* Cleanup sets out to remove the oldest only: what follows a file it keeps is kept.
LEMMA CleanOrder ==
    ASSUME IInv, PlaceInv, OrderInv, NEW cutoff \in Int, Clean(cutoff) PROVE OrderInv'
<1>1. /\ pc = "clean" /\ pc' = "purge" /\ victims' = Outdated(cutoff)
      /\ UNCHANGED <<active, archives, content, acked, purged, spared>>
  BY DEF Clean, dirVars, historyVars
<1>2. handle = active /\ active \in Files /\ Remaining \in Int
  <2>1. handle = active /\ active \in Files
    BY <1>1 DEF PlaceInv, IInv, FileType
  <2>2. Bytes(handle) \in Nat
    BY <2>1, BytesFinite DEF PlaceInv
  <2>3. Pending \in Int
    BY <1>1, RecordAssumption DEF Pending, PlaceInv
  <2> QED BY <2>1, <2>2, <2>3, RotationAssumption DEF Remaining
<1>3. Archived' = Archived /\ \A f, r : Entries(f, r)' = Entries(f, r)
  BY <1>1 DEF Archived, Entries, Whole
<1>4. \A f, g : (HasName(f)' <=> HasName(f)) /\ (Older(f, g)' <=> Older(f, g))
  BY <1>1, <1>3 DEF HasName, Older
<1>5. \A f, g, k, l : Follows(f, k, g, l)' <=> Follows(f, k, g, l)
  BY <1>4 DEF Follows
<1>6. \A f : Kept(f)' => Kept(f)
  BY <1>1, <1>3 DEF Kept
<1>7. ASSUME NEW f \in Files, NEW g \in Files, NEW k, NEW l, Kept(f)', Kept(g), Follows(f, k, g, l)
      PROVE  Kept(g)'
  <2>1. SUFFICES ASSUME f # g, g # active PROVE Kept(g)'
    BY <1>1, <1>7 DEF Kept
  <2>2. PICK u \in Archived : archives[u] = g
    BY <1>7, <2>1 DEF Kept
  <2>3. Older(f, g)
    BY <1>7, <2>1 DEF Follows
  <2>4. PICK t \in Archived : archives[t] = f /\ t \notin Outdated(cutoff)
    BY <1>1, <1>3, <1>7, <2>3 DEF Kept, Older
  <2>5. t < u
    BY <2>2, <2>3, <2>4 DEF Older
  <2>6. u \in Finished /\ t \in Finished /\ ~Expendable(t, cutoff)
    BY <1>2, <2>1, <2>2, <2>4 DEF Outdated, Finished, Aliases
  <2>7. ~Expendable(u, cutoff)
    BY <1>2, <2>5, <2>6, YoungerStays
  <2>8. u \notin Outdated(cutoff)
    BY <2>6, <2>7 DEF Outdated, Finished
  <2> QED BY <1>1, <1>3, <2>2, <2>8 DEF Kept
<1>8. ASSUME NEW i \in DOMAIN acked, NEW j \in DOMAIN acked, i < j, acked[i] \notin spared',
             NEW f \in Files, NEW k \in Entries(f, acked[i])', Kept(f)'
      PROVE  \E g \in Files : \E l \in Entries(g, acked[j])' : Kept(g)' /\ Follows(f, k, g, l)'
  <2>1. Kept(f) /\ k \in Entries(f, acked[i]) /\ acked[i] \notin spared
    BY <1>1, <1>3, <1>6, <1>8
  <2>2. PICK g \in Files : \E l \in Entries(g, acked[j]) : Kept(g) /\ Follows(f, k, g, l)
    BY <1>8, <2>1 DEF OrderInv
  <2>3. PICK l \in Entries(g, acked[j]) : Kept(g) /\ Follows(f, k, g, l)
    BY <2>2
  <2>4. Kept(g)' /\ Follows(f, k, g, l)' /\ l \in Entries(g, acked[j])'
    BY <1>1, <1>3, <1>5, <1>7, <1>8, <2>3
  <2> QED BY <2>4
<1>9. (\A i, j \in DOMAIN acked : i < j /\ acked[j] \notin purged =>
         \A f \in Files : \A k \in Entries(f, acked[i]) : HasName(f) =>
             \E g \in Files : \E l \in Entries(g, acked[j]) : HasName(g) /\ Follows(f, k, g, l))'
  BY <1>1, <1>3, <1>4, <1>5 DEF OrderInv
<1>10. (\A i \in DOMAIN acked : acked[i] \notin purged =>
          \E f \in Files : HasName(f) /\ Entries(f, acked[i]) # {})'
  BY <1>1, <1>3, <1>4 DEF OrderInv
<1>11. (\A i, j \in DOMAIN acked : i < j /\ acked[i] \notin spared =>
          \A f \in Files : \A k \in Entries(f, acked[i]) : Kept(f) =>
              \E g \in Files : \E l \in Entries(g, acked[j]) : Kept(g) /\ Follows(f, k, g, l))'
  BY <1>1, <1>8
<1> QED BY <1>1, <1>9, <1>10, <1>11 DEF OrderInv

\* An entry that is not of a written record leaves their order alone.
LEMMA AppendOrder ==
    ASSUME IInv, PlaceInv, OrderInv, pc = "append", UNCHANGED <<active, archives, acked, purged, spared>>,
           NEW e \in Entry, ~Whole(e) \/ \A i \in DOMAIN acked : acked[i] # e.rec,
           content' = [content EXCEPT ![active] = Append(@, e)],
           pc' \notin {"purge", "written"} \/ (pc' = "written" /\ Whole(e) /\ record' = e.rec)
    PROVE  OrderInv'
<1> DEFINE n == Len(content[active])
<1>1. /\ active \in Files /\ content[active] \in Seq(Entry) /\ n \in Nat
  <2>1. active \in Files
    BY DEF PlaceInv, IInv, FileType
  <2> QED BY <2>1 DEF PlaceInv
<1>2. /\ DOMAIN content[active] = 1..n /\ DOMAIN content'[active] = 1..(n + 1) /\ Len(content'[active]) = n + 1
      /\ content'[active][n + 1] = e /\ \A k \in 1..n : content'[active][k] = content[active][k]
      /\ \A f \in Files : f # active => content'[f] = content[f]
  <2>1. content'[active] = Append(content[active], e) /\ \A f \in Files : f # active => content'[f] = content[f]
    BY <1>1 DEF PlaceInv
  <2> QED BY <1>1, <2>1
<1>3. n + 1 \notin 1..n /\ 1..n \subseteq 1..(n + 1) /\ \A k \in 1..(n + 1) : k \in 1..n \/ k = n + 1
  BY <1>1
<1> HIDE DEF n
<1>4. \A f \in Files, i \in DOMAIN acked : Entries(f, acked[i])' = Entries(f, acked[i])
  <2>1. ASSUME NEW i \in DOMAIN acked PROVE Entries(active, acked[i])' = Entries(active, acked[i])
    BY <1>2, <1>3 DEF Entries, Whole
  <2>2. ASSUME NEW f \in Files, NEW i \in DOMAIN acked, f # active PROVE Entries(f, acked[i])' = Entries(f, acked[i])
    BY <1>2, <2>2 DEF Entries, Whole
  <2> QED BY <2>1, <2>2
<1>5. Archived' = Archived
  BY DEF Archived
<1>6. \A f, g : (HasName(f)' <=> HasName(f)) /\ (Older(f, g)' <=> Older(f, g))
  BY <1>5 DEF HasName, Older
<1>7. \A f, g, k, l : Follows(f, k, g, l)' <=> Follows(f, k, g, l)
  BY <1>6 DEF Follows
<1>8. \A f : Kept(f)' <=> Kept(f)
  BY <1>5 DEF Kept
<1>9. (\A i \in DOMAIN acked : acked[i] \notin purged =>
         \E f \in Files : HasName(f) /\ Entries(f, acked[i]) # {})'
  <2> SUFFICES ASSUME NEW i \in DOMAIN acked, acked[i] \notin purged
               PROVE  \E f \in Files : HasName(f)' /\ Entries(f, acked[i])' # {}
    OBVIOUS
  <2>1. PICK f \in Files : HasName(f) /\ Entries(f, acked[i]) # {}
    BY DEF OrderInv
  <2> QED BY <1>4, <1>6, <2>1
<1>10. (\A i, j \in DOMAIN acked : i < j /\ acked[j] \notin purged =>
         \A f \in Files : \A k \in Entries(f, acked[i]) : HasName(f) =>
             \E g \in Files : \E l \in Entries(g, acked[j]) : HasName(g) /\ Follows(f, k, g, l))'
  BY <1>4, <1>6, <1>7 DEF OrderInv
<1>11. (\A i, j \in DOMAIN acked : i < j /\ acked[i] \notin spared =>
         \A f \in Files : \A k \in Entries(f, acked[i]) : Kept(f) =>
             \E g \in Files : \E l \in Entries(g, acked[j]) : Kept(g) /\ Follows(f, k, g, l))'
  BY <1>4, <1>7, <1>8 DEF OrderInv
<1>12. pc' = "written" => Len(content'[active']) \in Entries(active, record)'
  <2>1. n + 1 \in 1..(n + 1)
    BY <1>1
  <2> QED BY <1>2, <2>1 DEF Entries, Whole
<1> QED BY <1>9, <1>10, <1>11, <1>12 DEF OrderInv

\* The record just written follows all others: it is the last entry of the active file,
\* which has no other name.
LEMMA ReturnOrder ==
    ASSUME IInv, PlaceInv, RoomInv, OrderInv, Return PROVE OrderInv'
<1> DEFINE n == Len(acked)
<1>0. PICK m : m = Len(content[active])
  OBVIOUS
<1>1. /\ pc = "written" /\ pc' = "idle" /\ acked' = Append(acked, record)
      /\ UNCHANGED <<active, archives, content, purged, spared>>
  BY DEF Return, dirVars
<1>2. /\ active \in Files /\ content[active] \in Seq(Entry) /\ m \in Nat /\ DOMAIN content[active] = 1..m
      /\ m \in Entries(active, record) /\ NoAlias /\ why = "write"
      /\ record \in Records /\ \A i \in DOMAIN acked : acked[i] # record
  <2>1. active \in Files /\ why = "write"
    BY <1>1 DEF PlaceInv, IInv, FileType
  <2> QED BY <1>0, <1>1, <2>1 DEF PlaceInv, OrderInv, RoomInv
<1>3. /\ acked \in Seq(Records) /\ n \in Nat /\ DOMAIN acked = 1..n /\ DOMAIN acked' = 1..(n + 1)
      /\ acked'[n + 1] = record /\ \A i \in 1..n : acked'[i] = acked[i]
  <2>1. acked \in Seq(Records)
    BY DEF PlaceInv
  <2> QED BY <1>1, <1>2, <2>1
<1> HIDE DEF n
<1>4. Archived' = Archived /\ \A f, r : Entries(f, r)' = Entries(f, r)
  BY <1>1 DEF Archived, Entries, Whole
<1>5. \A f, g : (HasName(f)' <=> HasName(f)) /\ (Older(f, g)' <=> Older(f, g)) /\ (Kept(f)' <=> Kept(f))
  BY <1>1, <1>4 DEF HasName, Older, Kept
<1>6. \A f, g, k, l : Follows(f, k, g, l)' <=> Follows(f, k, g, l)
  BY <1>5 DEF Follows
<1>7. HasName(active)' /\ Kept(active)'
  BY <1>1 DEF HasName, Kept
<1>8. ASSUME NEW i \in 1..n, NEW f \in Files, NEW k \in Entries(f, acked[i]) PROVE Follows(f, k, active, m)
  <2>1. CASE f = active
    <3>1. k \in 1..m /\ content[active][k].rec = acked[i] /\ content[active][m].rec = record
      BY <1>2, <2>1 DEF Entries
    <3>2. k # m
      BY <1>2, <1>3, <3>1
    <3> QED BY <1>2, <2>1, <3>1, <3>2 DEF Follows
  <2>2. CASE f # active
    BY <1>2, <2>2 DEF Follows, Older, NoAlias, Aliases
  <2> QED BY <2>1, <2>2
<1>9. ASSUME NEW i \in 1..(n + 1), acked'[i] \notin purged'
      PROVE  \E f \in Files : HasName(f)' /\ Entries(f, acked[i])' # {}
  <2>1. CASE i = n + 1
    <3>1. m \in Entries(active, acked[i])' /\ active' = active
      BY <1>1, <1>2, <1>3, <1>4, <2>1
    <3> QED BY <1>2, <1>7, <3>1
  <2>2. CASE i \in 1..n
    <3>1. PICK f \in Files : HasName(f) /\ Entries(f, acked[i]) # {}
      BY <1>1, <1>3, <1>9, <2>2 DEF OrderInv
    <3>2. HasName(f)' /\ Entries(f, acked[i])' # {}
      BY <1>3, <1>4, <1>5, <2>2, <3>1
    <3> QED BY <3>2
  <2> QED BY <1>3, <2>1, <2>2
<1>10. ASSUME NEW i \in 1..(n + 1), NEW j \in 1..(n + 1), i < j, NEW f \in Files, NEW k \in Entries(f, acked[i])'
       PROVE  /\ acked'[j] \notin purged' /\ HasName(f)' =>
                    \E g \in Files : \E l \in Entries(g, acked[j])' : HasName(g)' /\ Follows(f, k, g, l)'
              /\ acked'[i] \notin spared' /\ Kept(f)' =>
                    \E g \in Files : \E l \in Entries(g, acked[j])' : Kept(g)' /\ Follows(f, k, g, l)'
  <2>1. i \in 1..n /\ k \in Entries(f, acked[i])
    <3>1. i \in 1..n
      BY <1>3, <1>10
    <3> QED BY <1>3, <1>4, <1>10, <3>1
  <2>2. CASE j = n + 1
    <3>1. active' = active /\ acked'[j] = record
      BY <1>1, <1>3, <2>2
    <3>2. m \in Entries(active, acked[j])'
      BY <1>2, <1>4, <3>1
    <3>3. Follows(f, k, active, m)'
      BY <1>6, <1>8, <2>1, <3>1
    <3> QED BY <1>2, <1>7, <3>1, <3>2, <3>3
  <2>3. CASE j \in 1..n
    <3>1. acked'[j] = acked[j] /\ \A g : Entries(g, acked[j])' = Entries(g, acked[j])
      BY <1>3, <1>4, <2>3
    <3>2. ASSUME acked'[j] \notin purged', HasName(f)'
          PROVE  \E g \in Files : \E l \in Entries(g, acked[j]) : HasName(g) /\ Follows(f, k, g, l)
      BY <1>1, <1>3, <1>5, <1>10, <2>1, <2>3, <3>1, <3>2 DEF OrderInv
    <3>3. ASSUME acked'[i] \notin spared', Kept(f)'
          PROVE  \E g \in Files : \E l \in Entries(g, acked[j]) : Kept(g) /\ Follows(f, k, g, l)
      BY <1>1, <1>3, <1>5, <1>10, <2>1, <2>3, <3>3 DEF OrderInv
    <3> QED BY <1>5, <1>6, <3>1, <3>2, <3>3
  <2> QED BY <1>3, <2>2, <2>3
<1>11. (\A i \in DOMAIN acked : acked[i] \notin purged =>
         \E f \in Files : HasName(f) /\ Entries(f, acked[i]) # {})'
  BY <1>3, <1>9
<1>12. (\A i, j \in DOMAIN acked : i < j /\ acked[j] \notin purged =>
         \A f \in Files : \A k \in Entries(f, acked[i]) : HasName(f) =>
             \E g \in Files : \E l \in Entries(g, acked[j]) : HasName(g) /\ Follows(f, k, g, l))'
  BY <1>3, <1>10
<1>13. (\A i, j \in DOMAIN acked : i < j /\ acked[i] \notin spared =>
         \A f \in Files : \A k \in Entries(f, acked[i]) : Kept(f) =>
             \E g \in Files : \E l \in Entries(g, acked[j]) : Kept(g) /\ Follows(f, k, g, l))'
  BY <1>3, <1>10
<1> QED BY <1>1, <1>11, <1>12, <1>13 DEF OrderInv

\* The records an earlier process has left are in the active file, in their order.
LEMMA InitOrder == Init => OrderInv
<1> SUFFICES ASSUME Init PROVE OrderInv
  OBVIOUS
<1>1. /\ acked = Earlier /\ archives = [t \in Times |-> NoFile] /\ pc = "down"
      /\ active = IF Earlier = <<>> THEN NoFile ELSE Min(Files)
      /\ content = [f \in Files |-> [i \in IF f = active THEN DOMAIN Earlier ELSE {} |->
                                       [rec |-> Earlier[i], bytes |-> Length[Earlier[i]]]]]
  BY DEF Init
<1>2. Archived = {}
  BY <1>1 DEF Archived
<1>3. \A f : (HasName(f) => f = active) /\ (Kept(f) => f = active)
  BY <1>2 DEF HasName, Kept
<1>4. CASE Earlier = <<>>
  <2>1. DOMAIN acked = {}
    BY <1>1, <1>4
  <2> QED BY <1>1, <2>1 DEF OrderInv
<1>5. CASE Earlier # <<>>
  <2>1. active \in Files
    BY <1>1, <1>5, MinFiles, BoundAssumption DEF Files
  <2>2. /\ DOMAIN content[active] = DOMAIN Earlier
        /\ \A i \in DOMAIN Earlier : content[active][i] = [rec |-> Earlier[i], bytes |-> Length[Earlier[i]]]
    BY <1>1, <2>1
  <2>3. ASSUME NEW i \in DOMAIN Earlier PROVE Entries(active, Earlier[i]) = {i}
    <3>1. \A j \in DOMAIN Earlier : Earlier[j] = Earlier[i] => j = i
      BY EarlierAssumption DEF IsInjective
    <3>2. ASSUME NEW k \in DOMAIN Earlier PROVE content[active][k].rec = Earlier[k] /\ Whole(content[active][k])
      <4>1. content[active][k] = [rec |-> Earlier[k], bytes |-> Length[Earlier[k]]]
        BY <2>2
      <4> QED BY <4>1 DEF Whole
    <3> QED BY <2>2, <3>1, <3>2 DEF Entries
  <2>4. HasName(active) /\ Kept(active)
    BY DEF HasName, Kept
  <2>5. \A k, l : k < l => Follows(active, k, active, l)
    BY DEF Follows
  <2>6. \A i \in DOMAIN acked : \E f \in Files : HasName(f) /\ Entries(f, acked[i]) # {}
    BY <1>1, <2>1, <2>3, <2>4
  <2>7. ASSUME NEW i \in DOMAIN acked, NEW j \in DOMAIN acked, i < j,
               NEW f \in Files, HasName(f), NEW k \in Entries(f, acked[i])
        PROVE  active \in Files /\ j \in Entries(active, acked[j]) /\ Follows(f, k, active, j)
    <3>1. f = active /\ k = i
      BY <1>1, <1>3, <2>3, <2>7
    <3> QED BY <1>1, <2>1, <2>3, <2>5, <2>7, <3>1
  <2>8. \A i, j \in DOMAIN acked : i < j =>
          \A f \in Files : \A k \in Entries(f, acked[i]) : HasName(f) \/ Kept(f) =>
              \E g \in Files : \E l \in Entries(g, acked[j]) : HasName(g) /\ Kept(g) /\ Follows(f, k, g, l)
    <3>1. \A f : Kept(f) => HasName(f)
      BY <1>3, <2>4
    <3> QED BY <2>4, <2>7, <3>1
  <2> QED BY <1>1, <2>6, <2>8 DEF OrderInv
<1> QED BY <1>4, <1>5

LEMMA FailQuiet ==
    ASSUME PlaceInv, OrderInv, NEW h, Fail(h), UNCHANGED <<active, archives, content, acked, purged>>,
           Spare \/ (spared' = spared /\ pc # "purge")
    PROVE  OrderInv'
<1>1. pc' \in {"clean", "idle", "down"}
  BY DEF Fail
<1> QED BY <1>1, QuietOrder

LEMMA FailuresOrder ==
    ASSUME IInv, PlaceInv, OrderInv, OpenFails \/ RemoveFails \/ LinkFails \/ UndoFails \/ CleanFails
                 \/ \E n \in 0..MaxFile : AppendFails(n)
    PROVE  OrderInv'
<1>1. CASE OpenFails \/ LinkFails \/ CleanFails
  <2>1. UNCHANGED <<active, archives, content, acked, purged, spared>> /\ pc # "purge"
    BY <1>1 DEF OpenFails, LinkFails, CleanFails, dirVars, historyVars
  <2>2. PICK h \in {NoFile, handle} : Fail(h)
    BY <1>1 DEF OpenFails, LinkFails, CleanFails
  <2> QED BY <2>1, <2>2, FailQuiet
<1>2. CASE RemoveFails
  <2>1. UNCHANGED <<active, archives, content, acked, purged>> /\ Spare
    BY <1>2 DEF RemoveFails, dirVars
  <2>2. PICK h \in {NoFile, handle} : Fail(h)
    BY <1>2 DEF RemoveFails
  <2> QED BY <2>1, <2>2, FailQuiet
<1>3. CASE UndoFails
  <2>1. UNCHANGED <<active, archives, content, acked, purged, spared>> /\ pc # "purge" /\ Fail(handle)
    BY <1>3 DEF UndoFails, dirVars
  <2> QED BY <2>1, FailQuiet
<1>4. CASE \E n \in 0..MaxFile : AppendFails(n)
  <2>1. PICK n \in 0..MaxFile : AppendFails(n)
    BY <1>4
  <2>2. /\ UNCHANGED <<active, archives, acked, purged, spared>> /\ pc = "append" /\ Fail(handle)
        /\ n \in Nat /\ n < Length[record] /\ IF n > 0 THEN AppendBytes(n) ELSE content' = content
    BY <2>1, RotationAssumption DEF AppendFails, historyVars
  <2>3. CASE n = 0
    <3>1. content' = content
      BY <2>2, <2>3
    <3> QED BY <2>2, <3>1, FailQuiet
  <2>4. CASE n # 0
    <3>1. n \in Nat \ {0} /\ AppendBytes(n)
      BY <2>2, <2>4
    <3> DEFINE e == [rec |-> record, bytes |-> n]
    <3>2. e \in Entry /\ content' = [content EXCEPT ![active] = Append(@, e)] /\ record \in Records
      BY <2>2, <3>1, AppendEntry
    <3>3. ~Whole(e)
      BY <2>2, <3>2, RecordAssumption DEF Whole
    <3>4. pc' \in {"clean", "idle", "down"}
      BY <2>2 DEF Fail
    <3> HIDE DEF e
    <3> QED BY <2>2, <3>2, <3>3, <3>4, AppendOrder
  <2> QED BY <2>3, <2>4
<1> QED BY <1>1, <1>2, <1>3, <1>4

LEMMA WrittenOrder ==
    ASSUME IInv, PlaceInv, OrderInv, AppendRecord PROVE OrderInv'
<1> DEFINE e == [rec |-> record, bytes |-> Length[record]]
<1>1. /\ pc = "append" /\ pc' = "written" /\ record' = record /\ AppendBytes(Length[record])
      /\ UNCHANGED <<active, archives, acked, purged, spared>>
  BY DEF AppendRecord, historyVars
<1>2. record \in Records /\ Length[record] \in Nat \ {0} /\ \A i \in DOMAIN acked : acked[i] # record
  <2>1. why = "write" /\ record \in Records /\ \A i \in DOMAIN acked : acked[i] # record
    BY <1>1 DEF PlaceInv
  <2> QED BY <2>1, RecordAssumption
<1>3. e \in Entry /\ content' = [content EXCEPT ![active] = Append(@, e)]
  BY <1>1, <1>2, AppendEntry
<1>4. Whole(e) /\ e.rec = record
  BY DEF Whole
<1> HIDE DEF e
<1> QED BY <1>1, <1>2, <1>3, <1>4, AppendOrder

LEMMA BeginOrder ==
    ASSUME IInv, PlaceInv, OrderInv,
                           \/ Prepare \/ (\E r \in Records : Write(r)) \/ Close \/ Opened \/ Measure
                           \/ UnlinkFails \/ Cleaned \/ Crash
    PROVE  OrderInv'
<1>1. UNCHANGED <<active, archives, content, acked, purged>>
  BY DEF Prepare, Write, Close, Opened, Measure, UnlinkFails, Cleaned, Crash, dirVars, historyVars
<1>2. Spare \/ (spared' = spared /\ (pc = "purge" => victims = {}))
  <2>1. CASE Crash
    BY <2>1 DEF Crash
  <2>2. CASE Cleaned
    BY <2>2 DEF Cleaned, historyVars
  <2>3. CASE Prepare \/ (\E r \in Records : Write(r)) \/ Close \/ Opened \/ Measure \/ UnlinkFails
    <3>1. pc # "purge" /\ spared' = spared
      BY <2>3 DEF Prepare, Write, Close, Opened, Measure, UnlinkFails, historyVars
    <3> QED BY <3>1
  <2> QED BY <2>1, <2>2, <2>3
<1>3. why \in {"start", "write", "close"}
  BY DEF IInv, FileType
<1>4. pc' \in {"open", "measure", "down", "clean", "link", "undo", "idle", "append"}
  BY <1>3 DEF Prepare, Write, Close, Opened, Measure, UnlinkFails, Cleaned, Crash
<1> QED BY <1>1, <1>2, <1>4, QuietOrder

LEMMA OrderKeeps == IInv /\ PlaceInv /\ RoomInv /\ OrderInv /\ [Next]_vars => OrderInv'
<1> SUFFICES ASSUME IInv, PlaceInv, RoomInv, OrderInv, [Next]_vars PROVE OrderInv'
  OBVIOUS
<1>1. ASSUME NEW now \in Clock, Link(now) PROVE OrderInv'
  <2>1. PICK t \in Times : Added(t)
    BY <1>1, LinkAdds
  <2>2. /\ UNCHANGED <<active, content, acked, purged, spared>> /\ pc = "link" /\ pc' = "unlink"
        /\ active \in Files
    BY <1>1 DEF Link, historyVars, IInv, FileType
  <2> QED BY <2>1, <2>2, ActiveOrder
<1>2. CASE Undo
  <2>1. PICK t \in Times : Taken(t)
    BY <1>2, UndoTakes
  <2>2. /\ UNCHANGED <<active, content, acked, purged, spared>> /\ pc = "undo" /\ Fail(handle)
        /\ active \in Files
    BY <1>2 DEF Undo, historyVars, IInv, FileType
  <2>3. pc' \in {"clean", "idle", "down"}
    BY <2>2 DEF Fail
  <2> QED BY <2>1, <2>2, <2>3, ActiveOrder
<1>3. CASE \E cutoff \in IF Expires THEN 0..MaxTime ELSE {0} : Clean(cutoff)
  <2>1. PICK cutoff \in Int : Clean(cutoff)
    BY <1>3, BoundAssumption
  <2> QED BY <2>1, CleanOrder
<1>4. CASE UNCHANGED vars
  <2>1. UNCHANGED <<active, archives, content, pc, victims, record, acked, purged, spared>>
    BY <1>4 DEF vars, dirVars, opVars, historyVars
  <2>2. Archived' = Archived /\ \A f, r : Entries(f, r)' = Entries(f, r)
    BY <2>1 DEF Archived, Entries, Whole
  <2>3. \A f, g : (HasName(f)' <=> HasName(f)) /\ (Older(f, g)' <=> Older(f, g)) /\ (Kept(f)' <=> Kept(f))
    BY <2>1, <2>2 DEF HasName, Older, Kept
  <2>4. \A f, g, k, l : Follows(f, k, g, l)' <=> Follows(f, k, g, l)
    BY <2>3 DEF Follows
  <2>5. (\A i \in DOMAIN acked : acked[i] \notin purged =>
           \E f \in Files : HasName(f) /\ Entries(f, acked[i]) # {})'
    <3>1. \A i \in DOMAIN acked : acked[i] \notin purged =>
            \E f \in Files : HasName(f) /\ Entries(f, acked[i]) # {}
      BY DEF OrderInv
    <3> QED BY <2>1, <2>2, <2>3, <3>1
  <2>6. (\A i, j \in DOMAIN acked : i < j /\ acked[j] \notin purged =>
           \A f \in Files : \A k \in Entries(f, acked[i]) : HasName(f) =>
               \E g \in Files : \E l \in Entries(g, acked[j]) : HasName(g) /\ Follows(f, k, g, l))'
    <3> SUFFICES ASSUME NEW i \in DOMAIN acked, NEW j \in DOMAIN acked, i < j, acked[j] \notin purged,
                        NEW f \in Files, NEW k \in Entries(f, acked[i]), HasName(f)
                 PROVE  \E g \in Files : \E l \in Entries(g, acked[j]) : HasName(g) /\ Follows(f, k, g, l)
      BY <2>1, <2>2, <2>3, <2>4
    <3> QED BY DEF OrderInv
  <2>7. (\A i, j \in DOMAIN acked : i < j /\ acked[i] \notin spared =>
           \A f \in Files : \A k \in Entries(f, acked[i]) : Kept(f) =>
               \E g \in Files : \E l \in Entries(g, acked[j]) : Kept(g) /\ Follows(f, k, g, l))'
    <3> SUFFICES ASSUME NEW i \in DOMAIN acked, NEW j \in DOMAIN acked, i < j, acked[i] \notin spared,
                        NEW f \in Files, NEW k \in Entries(f, acked[i]), Kept(f)
                 PROVE  \E g \in Files : \E l \in Entries(g, acked[j]) : Kept(g) /\ Follows(f, k, g, l)
      BY <2>1, <2>2, <2>3, <2>4
    <3> QED BY DEF OrderInv
  <2>8. (pc = "written" => Len(content[active]) \in Entries(active, record))'
    <3>1. pc = "written" => Len(content[active]) \in Entries(active, record)
      BY DEF OrderInv
    <3> QED BY <2>1, <2>2, <3>1
  <2> QED BY <2>5, <2>6, <2>7, <2>8 DEF OrderInv
<1>5. CASE \E r \in Records : Write(r)
  BY <1>5, BeginOrder
<1>6. CASE \E n \in 0..MaxFile : AppendFails(n)
  BY <1>6, FailuresOrder
<1>7. CASE Step
  BY <1>1, <1>2, <1>3, <1>7, BeginOrder, FailuresOrder, OpenOrder, RemoveOrder, UnlinkOrder, WrittenOrder,
     ReturnOrder DEF Step
<1> QED BY <1>4, <1>5, <1>6, <1>7 DEF Next

\* An entry is found under each name of its file.
LEMMA PlaceAt ==
    ASSUME NEW r
    PROVE  /\ \A n \in NamesInUse : \A k \in Entries(FileOf(n), r) : <<n, k>> \in Places(r)
           /\ Places(r) # {} => \E n \in NamesInUse : Entries(FileOf(n), r) # {}
<1>1. ASSUME NEW n \in NamesInUse, NEW k \in Entries(FileOf(n), r) PROVE <<n, k>> \in Places(r)
  <2>1. <<n, k>> \in {n} \X Entries(FileOf(n), r)
    OBVIOUS
  <2> QED BY <2>1 DEF Places
<1>2. ASSUME NEW p \in Places(r) PROVE \E n \in NamesInUse : Entries(FileOf(n), r) # {}
  <2>1. PICK n \in NamesInUse : p \in {n} \X Entries(FileOf(n), r)
    BY DEF Places
  <2> QED BY <2>1
<1> QED BY <1>1, <1>2

\* A file is read under each of its names.
LEMMA PlacesOf ==
    ASSUME FileType, NEW r
    PROVE  /\ \A f \in Files : HasName(f) => \E n \in NamesInUse : FileOf(n) = f
           /\ \A n \in NamesInUse : FileOf(n) \in Files /\ HasName(FileOf(n))
           /\ Places(r) # {} <=> \E f \in Files : HasName(f) /\ Entries(f, r) # {}
<1>1. ActiveName \notin Times /\ Archived \subseteq Times /\ NoFile \notin Files
  BY BoundAssumption DEF ActiveName, Times, Archived, NoFile, Files
<1>2. ASSUME NEW f \in Files, HasName(f) PROVE \E n \in NamesInUse : FileOf(n) = f
  <2>1. CASE f = active
    BY <1>1, <2>1 DEF NamesInUse, FileOf
  <2>2. CASE \E t \in Archived : archives[t] = f
    BY <1>1, <2>2 DEF NamesInUse, FileOf
  <2> QED BY <1>2, <2>1, <2>2 DEF HasName
<1>3. ASSUME NEW n \in NamesInUse PROVE FileOf(n) \in Files /\ HasName(FileOf(n))
  <2>1. CASE n = ActiveName
    BY <1>1, <2>1 DEF NamesInUse, FileOf, HasName, FileType
  <2>2. CASE n # ActiveName
    BY <1>1, <2>2 DEF NamesInUse, FileOf, HasName, FileType, Archived
  <2> QED BY <2>1, <2>2
<1>4. Places(r) # {} <=> \E n \in NamesInUse : Entries(FileOf(n), r) # {}
  BY PlaceAt
<1> QED BY <1>2, <1>3, <1>4

\* A record is read after another when one of its entries follows one of the other's.
LEMMA ReadInOrder ==
    ASSUME FileType, NEW r, NEW s, NEW f \in Files, NEW g \in Files, NEW k \in Entries(f, r), NEW l \in Entries(g, s),
           HasName(f), HasName(g), Follows(f, k, g, l)
    PROVE  \E p \in Places(r), q \in Places(s) : ReadBefore(p, q)
<1>1. ActiveName = MaxTime + 1 /\ Archived \subseteq 1..MaxTime /\ MaxTime \in Nat /\ NoFile \notin Files
  BY BoundAssumption DEF ActiveName, Times, Archived, NoFile, Files
<1>2. ASSUME NEW m \in NamesInUse, NEW n \in NamesInUse, FileOf(m) = f, FileOf(n) = g, m < n \/ (m = n /\ k < l)
      PROVE  \E p \in Places(r), q \in Places(s) : ReadBefore(p, q)
  <2>1. <<m, k>> \in Places(r) /\ <<n, l>> \in Places(s)
    BY <1>2, PlaceAt
  <2>2. ReadBefore(<<m, k>>, <<n, l>>)
    BY <1>2 DEF ReadBefore
  <2> QED BY <2>1, <2>2
<1>3. CASE f = g
  <2>1. PICK n \in NamesInUse : FileOf(n) = f
    BY PlacesOf
  <2> QED BY <1>2, <1>3, <2>1 DEF Follows
<1>4. CASE f # g
  <2>1. Older(f, g)
    BY <1>4 DEF Follows
  <2>2. PICK t \in Archived : archives[t] = f
    BY <2>1 DEF Older, HasName
  <2>3. t \in NamesInUse /\ FileOf(t) = f /\ t < ActiveName
    BY <1>1, <2>2 DEF NamesInUse, FileOf
  <2>4. CASE g = active
    <3>1. ActiveName \in NamesInUse /\ FileOf(ActiveName) = g
      BY <1>1, <2>4 DEF NamesInUse, FileOf
    <3> QED BY <1>2, <2>3, <3>1
  <2>5. CASE \E u \in Archived : archives[u] = g
    <3>1. PICK u \in Archived : archives[u] = g
      BY <2>5
    <3>2. u \in NamesInUse /\ FileOf(u) = g /\ t < u
      BY <1>1, <2>1, <2>2, <3>1 DEF NamesInUse, FileOf, Older
    <3> QED BY <1>2, <2>3, <3>2
  <2> QED BY <2>4, <2>5 DEF HasName
<1> QED BY <1>3, <1>4

LEMMA OrderReadable == IInv /\ PlaceInv /\ OrderInv => Readable
<1> SUFFICES ASSUME IInv, PlaceInv, OrderInv PROVE Readable
  OBVIOUS
<1>1. FileType
  BY DEF IInv
<1>2. ASSUME NEW i \in DOMAIN acked, acked[i] \notin purged
      PROVE  \E f \in Files : HasName(f) /\ Entries(f, acked[i]) # {}
  BY <1>2 DEF OrderInv
<1>3. ASSUME NEW i \in DOMAIN acked, NEW j \in DOMAIN acked, i < j, acked[i] \notin purged, acked[j] \notin purged
      PROVE  \E p \in Places(acked[i]), q \in Places(acked[j]) : ReadBefore(p, q)
  <2>1. PICK f \in Files : HasName(f) /\ Entries(f, acked[i]) # {}
    BY <1>2, <1>3
  <2>2. PICK k \in Entries(f, acked[i]) : TRUE
    BY <2>1
  <2>3. PICK g \in Files : \E l \in Entries(g, acked[j]) : HasName(g) /\ Follows(f, k, g, l)
    BY <1>3, <2>1, <2>2 DEF OrderInv
  <2>4. PICK l \in Entries(g, acked[j]) : HasName(g) /\ Follows(f, k, g, l)
    BY <2>3
  <2> QED BY <1>1, <2>1, <2>4, ReadInOrder
<1>4. \A i \in DOMAIN acked : acked[i] \notin purged => Places(acked[i]) # {}
  BY <1>1, <1>2, PlacesOf
<1> QED BY <1>3, <1>4 DEF Readable

LEMMA OrderLatest == IInv /\ PlaceInv /\ OrderInv => LatestKept
<1> SUFFICES ASSUME IInv, PlaceInv, OrderInv, pc # "purge", NEW i \in DOMAIN acked, NEW j \in DOMAIN acked,
                    i < j, Places(acked[i]) # {}, acked[i] \notin spared
             PROVE  Places(acked[j]) # {}
  BY DEF LatestKept
<1>1. FileType
  BY DEF IInv
<1>2. \A f : Kept(f) <=> HasName(f)
  BY DEF Kept, HasName
<1>3. PICK f \in Files : HasName(f) /\ Entries(f, acked[i]) # {}
  BY <1>1, PlacesOf
<1>4. PICK k \in Entries(f, acked[i]) : TRUE
  BY <1>3
<1>5. \E g \in Files : \E l \in Entries(g, acked[j]) : Kept(g)
  BY <1>2, <1>3, <1>4 DEF OrderInv
<1> QED BY <1>1, <1>2, <1>5, PlacesOf

\* Whatever fails and wherever the process ends, a record whose Write has succeeded is
\* in the directory until cleanup removes its archive, and the archives and then the
\* active file give such records in the order of their Writes (rotation.go, Write,
\* rotate and cleanup).
THEOREM ReadableAlways == Spec => []Readable
<1>1. Init => RoomInv
  BY DEF Init, RoomInv, WithinLimits
<1> QED BY <1>1, InitInv, StepKeeps, InitPlaces, PlaceKeeps, RoomKeeps, InitOrder, OrderKeeps, OrderReadable, PTL
        DEF Spec

\* What cleanup leaves of the written records are the latest of them, without a hole but
\* after records that it had set out to remove when it was interrupted (removeOlder).
THEOREM LatestAlways == Spec => []LatestKept
<1>1. Init => RoomInv
  BY DEF Init, RoomInv, WithinLimits
<1> QED BY <1>1, InitInv, StepKeeps, InitPlaces, PlaceKeeps, RoomKeeps, InitOrder, OrderKeeps, OrderLatest, PTL
        DEF Spec

----------------------------------------------------------------------------
(***************************************************************************)
(* OneTearPerLife of PacketFile, whose Writer does nothing that a user of  *)
(* the rotating file may not do: the invariants above hold for its steps.  *)
(***************************************************************************)

\* A Writer leaves an incomplete line behind only as it gets stuck, and a stuck one
\* writes no more.
TearInv ==
    /\ Confirmed \in Nat /\ lives \in Nat
    /\ Cardinality(Incomplete) <= lives
    /\ pc # "down" /\ ~stuck => Cardinality(Incomplete) < lives
    /\ stuck /\ pc \notin {"idle", "down"} => why = "close"

LEMMA PacketStep == TearInv /\ [PNext]_fileVars => [Next]_vars
<1> SUFFICES ASSUME TearInv, [PNext]_fileVars PROVE [Next]_vars
  OBVIOUS
<1>1. CASE WriteContext
  <2>1. Due \in Records
    BY <1>1, OrderAssumption DEF WriteContext, TearInv, Due
  <2> QED BY <1>1, <2>1 DEF WriteContext, Next
<1>2. CASE PreparePacketFile \/ FileStep \/ \E n \in 0..MaxFile : WriteFails(n)
  BY <1>2 DEF PreparePacketFile, FileStep, WriteFails, Next, Step
<1> QED BY <1>1, <1>2 DEF PNext, fileVars

\* Files are few and short.
LEMMA IncompleteFinite == IsFiniteSet(Incomplete)
<1> DEFINE m == Len(Earlier) + MaxLives * Len(Order) + MaxFaults
<1>1. m \in Int /\ MaxTime + 2 \in Int /\ 1 \in Int
  <2>1. Len(Earlier) \in Nat /\ Len(Order) \in Nat /\ MaxLives \in Nat /\ MaxFaults \in Nat /\ MaxTime \in Nat
    BY EarlierAssumption, OrderAssumption, BoundAssumption
  <2>2. MaxLives * Len(Order) \in Nat
    BY <2>1
  <2> QED BY <2>1, <2>2
<1>2. IsFiniteSet(Files) /\ IsFiniteSet(1..m)
  BY <1>1, FS_Interval DEF Files
<1>3. Incomplete \subseteq Files \X (1..m)
  BY DEF Incomplete
<1> HIDE DEF m
<1>4. IsFiniteSet(Files \X (1..m))
  BY <1>2, FS_Product
<1> QED BY <1>3, <1>4, FS_Subset

LEMMA FewerIncomplete ==
    ASSUME Incomplete' \subseteq Incomplete PROVE Cardinality(Incomplete)' <= Cardinality(Incomplete) /\ Cardinality(Incomplete)' \in Nat
BY IncompleteFinite, FS_Subset, FS_CardinalityType

\* An entry of n bytes is one incomplete line more, or none if it is whole.
LEMMA AppendIncomplete ==
    ASSUME IInv, PlaceInv, pc = "append", NEW n \in Nat \ {0}, AppendBytes(n)
    PROVE  \E x : /\ Incomplete' \subseteq Incomplete \union {x}
                  /\ n = Length[record] => Incomplete' \subseteq Incomplete
<1> DEFINE e == [rec |-> record, bytes |-> n]
           m == Len(content[active])
<1>1. active \in Files /\ e \in Entry /\ content' = [content EXCEPT ![active] = Append(@, e)]
  BY AppendEntry
<1>2. content[active] \in Seq(Entry) /\ m \in Nat /\ DOMAIN content[active] = 1..m
  BY <1>1 DEF PlaceInv
<1>3. e.rec = record /\ e.bytes = n
  OBVIOUS
<1> HIDE DEF e
<1>4. /\ DOMAIN content'[active] = 1..(m + 1) /\ content'[active][m + 1] = e
      /\ \A k \in 1..m : content'[active][k] = content[active][k]
      /\ \A f \in Files : f # active => content'[f] = content[f]
  <2>1. content'[active] = Append(content[active], e) /\ \A f \in Files : f # active => content'[f] = content[f]
    BY <1>1 DEF PlaceInv
  <2> QED BY <1>1, <1>2, <2>1
<1>5. ASSUME NEW x \in Incomplete' PROVE x \in Incomplete \/ (x = <<active, m + 1>> /\ n # Length[record])
  <2>1. x \in Files \X (1..(Len(Earlier) + MaxLives * Len(Order) + MaxFaults))
        /\ x[2] \in DOMAIN content'[x[1]] /\ ~(content'[x[1]][x[2]].bytes = Length[content'[x[1]][x[2]].rec])
    BY <1>5 DEF Incomplete, Whole
  <2>2. x[1] \in Files /\ x = <<x[1], x[2]>>
    BY <2>1
  <2>3. CASE x[1] = active /\ x[2] = m + 1
    BY <1>3, <1>4, <2>1, <2>2, <2>3
  <2>4. CASE x[1] = active /\ x[2] # m + 1
    <3>1. x[2] \in 1..m
      BY <1>2, <1>4, <2>1, <2>4
    <3> QED BY <1>2, <1>4, <2>1, <2>4, <3>1 DEF Incomplete, Whole
  <2>5. CASE x[1] # active
    <3>1. content'[x[1]] = content[x[1]]
      BY <1>4, <2>2, <2>5
    <3> QED BY <2>1, <3>1 DEF Incomplete, Whole
  <2> QED BY <2>3, <2>4, <2>5
<1> QED BY <1>5

LEMMA RemovedIncomplete ==
    ASSUME IInv, PlaceInv, RemoveArchive PROVE Incomplete' \subseteq Incomplete
<1>1. PICK t \in Times : Removed(t)
  BY RemovesOne
<1>2. ASSUME NEW f \in Files, content'[f] # content[f] PROVE content'[f] = <<>>
  BY <1>1, <1>2 DEF Removed
<1> SUFFICES ASSUME NEW x \in Incomplete' PROVE x \in Incomplete
  OBVIOUS
<1>3. /\ x \in Files \X (1..(Len(Earlier) + MaxLives * Len(Order) + MaxFaults))
      /\ x[2] \in DOMAIN content'[x[1]] /\ ~(content'[x[1]][x[2]].bytes = Length[content'[x[1]][x[2]].rec])
  BY DEF Incomplete, Whole
<1>4. x[1] \in Files /\ content'[x[1]] # <<>>
  BY <1>3
<1>5. content'[x[1]] = content[x[1]]
  BY <1>2, <1>4
<1> QED BY <1>3, <1>5 DEF Incomplete, Whole

LEMMA StepTears ==
    ASSUME IInv, PlaceInv, Step, ~Prepare
    PROVE  /\ lives' = lives /\ pc # "down"
           /\ pc' \in {"idle", "down"} \/ why' = "close" \/ (why' = why /\ pc \notin {"idle", "down"})
           /\ acked' = acked \/ (acked' = Append(acked, record) /\ record \in Records)
           /\ Incomplete' \subseteq Incomplete
<1>1. ASSUME content' = content PROVE Incomplete' = Incomplete
  BY <1>1 DEF Incomplete, Whole
<1>2. ASSUME NEW h, Fail(h) PROVE pc' \in {"idle", "down"} \/ why' = "close"
  BY <1>2 DEF Fail
<1>3. CASE Close \/ Open \/ Opened \/ Measure \/ Unlink \/ UnlinkFails \/ Cleaned \/ Crash \/ (\E now \in Clock : Link(now))
           \/ \E cutoff \in IF Expires THEN 0..MaxTime ELSE {0} : Clean(cutoff)
  <2>1. /\ UNCHANGED <<content, lives, acked>> /\ pc # "down"
        /\ pc' = "down" \/ why' = "close" \/ (why' = why /\ pc \notin {"idle", "down"})
    BY <1>3 DEF Close, Open, Opened, Measure, Unlink, UnlinkFails, Cleaned, Crash, Link, Clean, dirVars, historyVars
  <2> QED BY <1>1, <2>1
<1>4. CASE OpenFails \/ RemoveFails \/ LinkFails \/ UndoFails \/ CleanFails \/ Undo
  <2>1. UNCHANGED <<content, lives, acked>> /\ pc # "down" /\ \E h \in {NoFile, handle} : Fail(h)
    BY <1>4 DEF OpenFails, RemoveFails, LinkFails, UndoFails, CleanFails, Undo, dirVars, historyVars
  <2> QED BY <1>1, <1>2, <2>1
<1>5. CASE RemoveArchive
  <2>1. UNCHANGED <<lives, acked, why>> /\ pc \in {"dedupe", "purge"}
    BY <1>5 DEF RemoveArchive
  <2> QED BY <1>5, <2>1, RemovedIncomplete
<1>6. CASE AppendRecord
  <2>1. UNCHANGED <<lives, acked, why>> /\ pc = "append" /\ AppendBytes(Length[record])
    BY <1>6 DEF AppendRecord, historyVars
  <2>2. Length[record] \in Nat \ {0}
    BY <2>1, RecordAssumption DEF PlaceInv
  <2> QED BY <2>1, <2>2, AppendIncomplete
<1>7. CASE Return
  <2>1. UNCHANGED <<lives, content>> /\ pc = "written" /\ pc' = "idle" /\ acked' = Append(acked, record)
    BY <1>7 DEF Return, dirVars
  <2>2. record \in Records
    BY <2>1 DEF PlaceInv
  <2> QED BY <1>1, <2>1, <2>2
<1> QED BY <1>3, <1>4, <1>5, <1>6, <1>7 DEF Step

LEMMA TearKeeps == IInv /\ PlaceInv /\ TearInv /\ [PNext]_fileVars => TearInv'
<1> SUFFICES ASSUME IInv, PlaceInv, TearInv, [PNext]_fileVars PROVE TearInv'
  OBVIOUS
<1>1. /\ Cardinality(Incomplete) \in Nat /\ lives \in Nat /\ Cardinality(Incomplete) <= lives
      /\ acked \in Seq(Records) /\ Earlier \in Seq(Records) /\ Len(acked) - Len(Earlier) \in Nat
  BY IncompleteFinite, FS_CardinalityType, EarlierAssumption DEF TearInv, PlaceInv, Confirmed
<1>2. ASSUME content' = content PROVE Cardinality(Incomplete)' = Cardinality(Incomplete)
  BY <1>2 DEF Incomplete, Whole
<1>3. CASE PreparePacketFile
  <2>1. UNCHANGED <<content, acked>> /\ lives' = lives + 1 /\ stuck' = FALSE
    BY <1>3 DEF PreparePacketFile, Prepare, dirVars, historyVars
  <2> QED BY <1>1, <1>2, <2>1 DEF TearInv, Confirmed
<1>4. CASE WriteContext
  <2>1. UNCHANGED <<content, acked, lives, stuck>> /\ pc = "idle" /\ ~stuck
    BY <1>4 DEF WriteContext, Write, dirVars, historyVars
  <2> QED BY <1>1, <1>2, <2>1 DEF TearInv, Confirmed
<1>5. CASE FileStep
  <2>1. /\ stuck' = stuck /\ lives' = lives /\ pc # "down"
        /\ pc' \in {"idle", "down"} \/ why' = "close" \/ (why' = why /\ pc \notin {"idle", "down"})
        /\ acked' = acked \/ (acked' = Append(acked, record) /\ record \in Records)
        /\ Incomplete' \subseteq Incomplete
    BY <1>5, StepTears DEF FileStep
  <2>2. Cardinality(Incomplete)' <= Cardinality(Incomplete) /\ Cardinality(Incomplete)' \in Nat
    BY <2>1, FewerIncomplete
  <2>3. Len(acked') - Len(Earlier) \in Nat
    BY <1>1, <2>1
  <2> QED BY <1>1, <2>1, <2>2, <2>3 DEF TearInv, Confirmed
<1>6. CASE \E n \in 0..MaxFile : WriteFails(n)
  <2>1. PICK n \in 0..MaxFile : WriteFails(n)
    BY <1>6
  <2>2. /\ UNCHANGED <<lives, acked>> /\ pc = "append" /\ n \in Nat /\ n < Length[record] /\ Fail(handle)
        /\ IF n > 0 THEN AppendBytes(n) ELSE content' = content
        /\ stuck' = (n > 0)
    BY <2>1, RotationAssumption DEF WriteFails, AppendFails, historyVars, Sticks
  <2>3. why = "write" /\ ~stuck /\ Cardinality(Incomplete) < lives /\ pc' = "idle"
    BY <2>2 DEF TearInv, PlaceInv, Fail
  <2>4. CASE n = 0
    BY <1>1, <1>2, <2>2, <2>3, <2>4 DEF TearInv, Confirmed
  <2>5. CASE n # 0
    <3>1. PICK x : Incomplete' \subseteq Incomplete \union {x}
      BY <2>2, <2>5, AppendIncomplete
    <3>2. IsFiniteSet(Incomplete \union {x}) /\ Cardinality(Incomplete \union {x}) <= Cardinality(Incomplete) + 1
      <4>1. /\ IsFiniteSet(Incomplete \union {x})
            /\ Cardinality(Incomplete \union {x})
                 = IF x \in Incomplete THEN Cardinality(Incomplete) ELSE Cardinality(Incomplete) + 1
        BY IncompleteFinite, FS_AddElement
      <4> QED BY <1>1, <4>1
    <3>3. Cardinality(Incomplete)' <= Cardinality(Incomplete \union {x}) /\ Cardinality(Incomplete)' \in Nat
      BY <3>1, <3>2, FS_Subset, FS_CardinalityType
    <3>4. Cardinality(Incomplete \union {x}) \in Nat
      BY <3>2, FS_CardinalityType
    <3>5. Cardinality(Incomplete)' <= lives'
      BY <1>1, <2>2, <2>3, <3>2, <3>3, <3>4
    <3>6. stuck'
      <4>1. n > 0
        BY <2>2, <2>5
      <4> QED BY <2>2, <4>1
    <3> QED BY <1>1, <2>2, <2>3, <3>5, <3>6 DEF TearInv, Confirmed
  <2> QED BY <2>4, <2>5
<1>7. CASE UNCHANGED fileVars
  <2>1. UNCHANGED <<content, acked, lives, stuck, pc, why>>
    BY <1>7 DEF fileVars, vars, dirVars, opVars, historyVars
  <2> QED BY <1>1, <1>2, <2>1 DEF TearInv, Confirmed
<1> QED BY <1>3, <1>4, <1>5, <1>6, <1>7 DEF PNext

\* Every entry an earlier process has left is whole.
LEMMA InitTear == PInit => TearInv
<1> SUFFICES ASSUME PInit PROVE TearInv
  OBVIOUS
<1>1. /\ acked = Earlier /\ lives = 0 /\ pc = "down" /\ stuck = FALSE
      /\ content = [f \in Files |-> [i \in IF f = active THEN DOMAIN Earlier ELSE {} |->
                                       [rec |-> Earlier[i], bytes |-> Length[Earlier[i]]]]]
  BY DEF PInit, Init
<1>2. \A f \in Files : \A k \in DOMAIN content[f] : Whole(content[f][k])
  BY <1>1 DEF Whole
<1>3. Incomplete = {}
  <2> SUFFICES ASSUME NEW x \in Incomplete PROVE FALSE
    OBVIOUS
  <2>1. x \in Files \X (1..(Len(Earlier) + MaxLives * Len(Order) + MaxFaults))
        /\ x[2] \in DOMAIN content[x[1]] /\ ~Whole(content[x[1]][x[2]])
    BY DEF Incomplete
  <2>2. x[1] \in Files
    BY <2>1
  <2> QED BY <1>2, <2>1, <2>2
<1>4. Cardinality(Incomplete) = 0
  BY <1>3, FS_EmptySet
<1>5. Confirmed = 0
  BY <1>1, EarlierAssumption DEF Confirmed
<1> QED BY <1>1, <1>4, <1>5 DEF TearInv

\* However often it fails, a process leaves at most one incomplete line behind, so the
\* records of one process never join one (writer.go, WriteContext).
THEOREM OneTearAlways == PSpec => []OneTearPerLife
<1>1. PInit => Init
  BY DEF PInit
<1>2. IInv /\ PlaceInv /\ TearInv /\ [PNext]_fileVars => (IInv /\ PlaceInv /\ TearInv)'
  BY PacketStep, StepKeeps, PlaceKeeps, TearKeeps
<1>3. TearInv => OneTearPerLife
  BY DEF TearInv, OneTearPerLife
<1> QED BY <1>1, <1>2, <1>3, InitInv, InitPlaces, InitTear, PTL DEF PSpec

=============================================================================
