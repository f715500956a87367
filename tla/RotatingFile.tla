---------------------------- MODULE RotatingFile ----------------------------
(***************************************************************************)
(* The rotating output file of gateway/configuration/rotation.go: one      *)
(* active file that records are appended to, archives named after the time *)
(* of their rotation, and a cleanup that keeps the archives within limits. *)
(* A rotation links the archive's name to the active file and then removes *)
(* the active name, so a process that ends in between leaves one file with *)
(* two names; the next one to open the file repairs that.                  *)
(*                                                                         *)
(* One step is one call to the file system, and each call may fail.  The   *)
(* mutex of a RotatingFile makes its operations exclude each other; the    *)
(* process can end between any two steps.  Nobody else writes into the     *)
(* directory, which ValidateOutputs checks for the gateway's own outputs.  *)
(***************************************************************************)
EXTENDS Integers, Sequences, FiniteSets, SequencesExt

CONSTANTS
    Records,     \* what is written, each one until a Write of it succeeds
    Length,      \* the length of a record
    MaxFile,     \* max_file_size_bytes
    MaxTotal,    \* max_total_size_bytes
    MaxBackups,  \* max_backups
    Expires,     \* max_age_days is not zero
    Earlier,     \* records an earlier process has left, maybe with other limits
    MaxTime,     \* bound: archive times are 1..MaxTime
    Clock,       \* bound: what the clock may show at a rotation
    MaxLives,    \* bound: how many times the process is started
    MaxFaults,   \* bound: how many calls to the file system fail
    None         \* no record

ASSUME RecordAssumption == Length \in [Records -> Nat \ {0}] /\ None \notin Records
ASSUME EarlierAssumption == Earlier \in Seq(Records) /\ IsInjective(Earlier)
ASSUME RotationAssumption ==
    /\ MaxFile \in Nat \ {0} /\ MaxBackups \in Nat /\ Expires \in BOOLEAN
    /\ MaxTotal \in Nat /\ MaxTotal >= MaxFile
ASSUME BoundAssumption == MaxTime \in Nat /\ Clock \subseteq 1..MaxTime /\ MaxLives \in Nat \ {0} /\ MaxFaults \in Nat

VARIABLES
    \* The directory.
    active,      \* the file under the active name
    archives,    \* the file under the archive name of each time
    content,     \* what is in a file
    \* The RotatingFile of the running process.
    handle,      \* the open file, l.file
    pc,          \* where the operation in progress is
    why,         \* the operation: "start", "write" or "close"
    rotated,     \* open was called by rotate
    victims,     \* archives still to be removed
    record,      \* the record being written
    \* The world and the history of the run.
    lives,       \* how many times the process was started
    faults,      \* how many calls have failed
    acked,       \* the records of the successful Writes, in their order
    purged,      \* records in archives that cleanup has removed
    spared,      \* records in archives that an interrupted cleanup set out to remove and left
    doubled      \* an archive could not be removed after a failed rotation

dirVars == <<active, archives, content>>
opVars == <<pc, why, rotated, victims, record>>
historyVars == <<acked, purged, spared, doubled>>
vars == <<dirVars, handle, opVars, lives, faults, historyVars>>

----------------------------------------------------------------------------
Times == 1..MaxTime
NoFile == 0
Files == 1..(MaxTime + 2)

Archived == {t \in Times : archives[t] # NoFile}
Named == {active} \union {archives[t] : t \in Times}
Fresh == Min(Files \ Named)   \* the file a creating OpenFile makes

\* The bytes of a file, each by its entry and its place in it: an entry is what one
\* call of write has left of a record.
BytesIn(f) == UNION {{i} \X (1..content[f][i].bytes) : i \in DOMAIN content[f]}
Bytes(f) == Cardinality(BytesIn(f))
Whole(e) == e.bytes = Length[e.rec]

\* The operators named Mutant... are faulty forms of the definition that follows
\* them, no part of the model: each one must make a property fail.

\* Archives that are the open file under another name.
MutantNoAliases(f) == {}
Aliases(f) == {t \in Archived : archives[t] = f}

\* The time an archive is named after: now, but after every other archive, even
\* when the clock has gone back.
MutantNow(now) == now
Stamp(now) == IF \E t \in Archived : t >= now THEN Max(Archived) + 1 ELSE now

\* The bytes about to be written count as part of the active file.
MutantNothingPending == 0
MutantCountedTwice == IF why = "write" THEN 2 * Length[record] ELSE 0
Pending == IF why = "write" THEN Length[record] ELSE 0
Remaining == MaxTotal - Pending - Bytes(handle)

\* The archives cleanup removes: the other names of the open file, and all that
\* are as old as one of which there are too many, too large or expired.
Finished == Archived \ Aliases(handle)
SizeOf(S) == Cardinality(UNION {{t} \X BytesIn(archives[t]) : t \in S})
SizeFrom(t) == SizeOf({u \in Finished : u >= t})
Expendable(t, cutoff) ==
    \/ Cardinality({u \in Finished : u > t}) >= MaxBackups
    \/ SizeFrom(t) > Remaining
    \/ t < cutoff
MutantAllTimes(cutoff) == {t \in Times : Expendable(t, cutoff)}
MutantOneByOne(cutoff) ==
    Aliases(handle) \union {t \in Finished : Bytes(archives[t]) > Remaining \/ t < cutoff}
Outdated(cutoff) == Aliases(handle) \union {t \in Finished : Expendable(t, cutoff)}

Faulty == faults < MaxFaults /\ faults' = faults + 1

Init ==
    /\ active = IF Earlier = <<>> THEN NoFile ELSE Min(Files)
    /\ archives = [t \in Times |-> NoFile]
    /\ content = [f \in Files |->
         [i \in IF f = active THEN DOMAIN Earlier ELSE {} |->
            [rec |-> Earlier[i], bytes |-> Length[Earlier[i]]]]]
    /\ handle = NoFile /\ pc = "down" /\ why = "start" /\ rotated = FALSE
    /\ victims = {} /\ record = None
    /\ lives = 0 /\ faults = 0
    /\ acked = Earlier /\ purged = {} /\ spared = {} /\ doubled = FALSE

----------------------------------------------------------------------------
\* The operations begin.

\* prepareRotatingFile opens the file.
Prepare ==
    /\ pc = "down" /\ lives < MaxLives
    /\ lives' = lives + 1
    /\ pc' = "open" /\ why' = "start" /\ rotated' = FALSE
    /\ UNCHANGED <<dirVars, handle, victims, record, faults, historyVars>>

\* Write opens the file again if a rotation could not.  A record longer than a
\* file may be is refused before anything is done, and so changes nothing.
Write(r) ==
    /\ pc = "idle" /\ Length[r] <= MaxFile
    /\ \A i \in DOMAIN acked : acked[i] # r
    /\ record' = r /\ why' = "write" /\ rotated' = FALSE
    /\ pc' = IF handle = NoFile THEN "open" ELSE "measure"
    /\ UNCHANGED <<dirVars, handle, victims, lives, faults, historyVars>>

\* Close cleans up once more, unless there is no open file.
Close ==
    /\ pc = "idle"
    /\ why' = "close"
    /\ pc' = IF handle = NoFile THEN "down" ELSE "clean"
    /\ UNCHANGED <<dirVars, handle, rotated, victims, record, lives, faults, historyVars>>

----------------------------------------------------------------------------
\* An operation ends without success and leaves the open file h: a failed start
\* closes the file, a failed Write returns, a failed Close has closed the file.
Fail(h) ==
    /\ victims' = {} /\ record' = None /\ rotated' = FALSE
    /\ IF why = "start" /\ h # NoFile
       THEN pc' = "clean" /\ why' = "close" /\ handle' = h
       ELSE /\ pc' = IF why = "write" THEN "idle" ELSE "down"
            /\ handle' = IF why = "close" THEN NoFile ELSE h
            /\ UNCHANGED why

\* The active file is opened, and created if there is none ...
Open ==
    /\ pc = "open"
    /\ active' = IF active = NoFile THEN Fresh ELSE active
    /\ handle' = active'
    /\ victims' = Aliases(active')
    /\ pc' = "dedupe"
    /\ UNCHANGED <<archives, content, why, rotated, record, lives, faults, historyVars>>

\* ... or the outputs have become invalid, or the file cannot be opened.  Closing
\* the archived file may fail as well, with the same result.
OpenFails ==
    /\ pc = "open" /\ Faulty
    /\ Fail(NoFile)
    /\ UNCHANGED <<dirVars, lives, historyVars>>

\* The next archive is removed, the newest of them first: by open if it is the
\* active file, by cleanup if it is to go.  A file without any name is no more.
RemoveArchive ==
    /\ pc \in {"dedupe", "purge"} /\ victims # {}
    /\ LET t == Max(victims)
           gone == archives[t] # active /\ \A u \in Archived \ {t} : archives[u] # archives[t]
       IN /\ victims' = victims \ {t}
          /\ archives' = [archives EXCEPT ![t] = NoFile]
          /\ content' = [f \in Files |-> IF gone /\ f = archives[t] THEN <<>> ELSE content[f]]
          /\ purged' = IF gone THEN purged \union {e.rec : e \in ToSet(content[archives[t]])} ELSE purged
    /\ UNCHANGED <<active, handle, pc, why, rotated, record, lives, faults, acked, spared, doubled>>

\* What cleanup has still to remove stays if it goes no further.
Doomed == UNION {{e.rec : e \in ToSet(content[archives[t]])} : t \in {u \in victims : archives[u] # active}}
Spare == spared' = IF pc = "purge" THEN spared \union Doomed ELSE spared

\* An archive cannot be listed, inspected or removed.  An open file that open
\* could not clear of its other names is closed again.
RemoveFails ==
    /\ pc \in {"dedupe", "purge"} /\ Faulty
    /\ pc = "purge" => victims # {}
    /\ Fail(IF pc = "dedupe" THEN NoFile ELSE handle)
    /\ Spare
    /\ UNCHANGED <<dirVars, lives, acked, purged, doubled>>

\* open has returned: to rotate, which is done, or to the operation that called it.
Opened ==
    /\ pc = "dedupe" /\ victims = {}
    /\ pc' = IF rotated THEN "clean" ELSE "measure"
    /\ UNCHANGED <<dirVars, handle, why, rotated, victims, record, lives, faults, historyVars>>

\* The active file is too large, or would be with the record.
Measure ==
    /\ pc = "measure"
    /\ pc' = IF Bytes(handle) > MaxFile - Pending THEN "link" ELSE "clean"
    /\ UNCHANGED <<dirVars, handle, why, rotated, victims, record, lives, faults, historyVars>>

----------------------------------------------------------------------------
\* rotate, until it opens the new active file.

\* The active file gets an archive name.
Link(now) ==
    /\ pc = "link" /\ Stamp(now) \in Times
    /\ archives' = [archives EXCEPT ![Stamp(now)] = active]
    /\ pc' = "unlink"
    /\ UNCHANGED <<active, content, handle, why, rotated, victims, record, lives, faults, historyVars>>

\* The archives cannot be read, the file cannot be inspected, synced or linked.
LinkFails ==
    /\ pc = "link" /\ Faulty
    /\ Fail(handle)
    /\ UNCHANGED <<dirVars, lives, historyVars>>

\* The active name is removed, the archived file closed, and a new one opened.
Unlink ==
    /\ pc = "unlink"
    /\ active' = NoFile /\ handle' = NoFile
    /\ rotated' = TRUE /\ pc' = "open"
    /\ UNCHANGED <<archives, content, why, victims, record, lives, faults, historyVars>>

UnlinkFails ==
    /\ pc = "unlink" /\ Faulty
    /\ pc' = "undo"
    /\ UNCHANGED <<dirVars, handle, why, rotated, victims, record, lives, historyVars>>

\* Then the archive is removed again, or the file is left with both names.
Undo ==
    /\ pc = "undo"
    /\ archives' = [archives EXCEPT ![Max(Archived)] = NoFile]
    /\ Fail(handle)
    /\ UNCHANGED <<active, content, lives, faults, historyVars>>

UndoFails ==
    /\ pc = "undo" /\ Faulty
    /\ Fail(handle)
    /\ doubled' = TRUE
    /\ UNCHANGED <<dirVars, lives, acked, purged, spared>>

----------------------------------------------------------------------------
\* cleanup decides which archives to remove; the clock decides which are expired.
Clean(cutoff) ==
    /\ pc = "clean" /\ Remaining >= 0
    /\ victims' = Outdated(cutoff)
    /\ pc' = "purge"
    /\ UNCHANGED <<dirVars, handle, why, rotated, record, lives, faults, historyVars>>

\* The active file alone exceeds the total size, or the archives cannot be read.
CleanFails ==
    /\ pc = "clean"
    /\ \/ Remaining < 0 /\ UNCHANGED faults
       \/ Faulty
    /\ Fail(handle)
    /\ UNCHANGED <<dirVars, lives, historyVars>>

\* cleanup has returned: the file is ready, the record is written, or the file
\* is closed.
Cleaned ==
    /\ pc = "purge" /\ victims = {}
    /\ CASE why = "start" -> pc' = "idle" /\ UNCHANGED handle
         [] why = "write" -> pc' = "append" /\ UNCHANGED handle
         [] why = "close" -> pc' = "down" /\ handle' = NoFile
    /\ UNCHANGED <<dirVars, why, rotated, victims, record, lives, faults, historyVars>>

AppendBytes(n) ==
    content' = [content EXCEPT ![handle] = Append(@, [rec |-> record, bytes |-> n])]

\* The record is appended ...
AppendRecord ==
    /\ pc = "append"
    /\ AppendBytes(Length[record])
    /\ pc' = "written"
    /\ UNCHANGED <<active, archives, handle, why, rotated, victims, record, lives, faults, historyVars>>

\* ... or only its first n bytes are, or none.
AppendFails(n) ==
    /\ pc = "append" /\ n < Length[record] /\ Faulty
    /\ IF n > 0 THEN AppendBytes(n) ELSE UNCHANGED content
    /\ Fail(handle)
    /\ UNCHANGED <<active, archives, lives, historyVars>>

\* Write returns without an error.
Return ==
    /\ pc = "written"
    /\ acked' = Append(acked, record)
    /\ pc' = "idle" /\ record' = None
    /\ UNCHANGED <<dirVars, handle, why, rotated, victims, lives, faults, purged, spared, doubled>>

\* The process ends without closing the file.
Crash ==
    /\ pc # "down"
    /\ Spare
    /\ pc' = "down" /\ handle' = NoFile /\ why' = "start" /\ rotated' = FALSE
    /\ victims' = {} /\ record' = None
    /\ UNCHANGED <<dirVars, lives, faults, acked, purged, doubled>>

Step ==
    \/ Prepare \/ Close \/ Open \/ OpenFails \/ RemoveArchive \/ RemoveFails \/ Opened \/ Measure
    \/ \E now \in Clock : Link(now)
    \/ LinkFails \/ Unlink \/ UnlinkFails \/ Undo \/ UndoFails
    \/ \E cutoff \in IF Expires THEN 0..MaxTime ELSE {0} : Clean(cutoff)
    \/ CleanFails \/ Cleaned \/ AppendRecord \/ Return \/ Crash

Next ==
    \/ Step
    \/ \E r \in Records : Write(r)
    \/ \E n \in 0..MaxFile : AppendFails(n)

Spec == Init /\ [][Next]_vars

----------------------------------------------------------------------------
TypeOK ==
    /\ active \in Files \union {NoFile}
    /\ archives \in [Times -> Files \union {NoFile}]
    /\ content \in [Files -> Seq([rec : Records, bytes : Nat \ {0}])]
    /\ handle \in Files \union {NoFile}
    /\ pc \in {"down", "open", "dedupe", "measure", "link", "unlink", "undo", "clean", "purge",
               "append", "written", "idle"}
    /\ why \in {"start", "write", "close"} /\ rotated \in BOOLEAN
    /\ victims \subseteq Archived
    /\ record \in Records \union {None} /\ (record # None => why = "write")
    /\ lives \in 0..MaxLives /\ faults \in 0..MaxFaults
    /\ acked \in Seq(Records) /\ purged \subseteq Records
    /\ spared \subseteq Records /\ doubled \in BOOLEAN

\* Someone reads the archives in the order of their names and then the active file.
ActiveName == MaxTime + 1
NamesInUse == Archived \union (IF active = NoFile THEN {} ELSE {ActiveName})
FileOf(n) == IF n = ActiveName THEN active ELSE archives[n]

\* Where a record is found, as a name and a position in the file of that name.
Entries(f, r) == {k \in DOMAIN content[f] : content[f][k].rec = r /\ Whole(content[f][k])}
Places(r) == UNION {{n} \X Entries(FileOf(n), r) : n \in NamesInUse}
ReadBefore(p, q) == p[1] < q[1] \/ (p[1] = q[1] /\ p[2] < q[2])

\* The comment "Link fails if the archive already exists, preserving existing
\* data" of rotate, and what the rotation is for: a record whose Write has
\* succeeded is in the directory until cleanup removes its archive, whatever
\* fails and wherever the process ends, and the archives and the active file
\* give such records in the order in which they were written.
Readable ==
    /\ \A i \in DOMAIN acked : acked[i] \notin purged => Places(acked[i]) # {}
    /\ \A i, j \in DOMAIN acked :
         i < j /\ {acked[i], acked[j]} \intersect purged = {} =>
             \E p \in Places(acked[i]), q \in Places(acked[j]) : ReadBefore(p, q)

\* "Recover an interruption between linking the archive and removing the active
\* name" of cleanup: when an operation is done no file has two names, so no
\* record is read twice from one file, unless an unfinished archive could not
\* be removed.
OneName ==
    pc = "idle" /\ ~doubled =>
        /\ \A t \in Archived : archives[t] # active
        /\ \A t, u \in Archived : archives[t] = archives[u] => t = u

\* The limits of the configuration (RotationConf) hold in the directory whenever
\* a record has been written.
WithinLimits ==
    pc = "written" =>
        /\ Bytes(active) <= MaxFile
        /\ Cardinality(Archived) <= MaxBackups
        /\ Bytes(active) + SizeOf(Archived) <= MaxTotal

\* What cleanup leaves of the written records are the latest of them (removeOlder),
\* without a hole.  It removes the newest archives first, so that where it is interrupted
\* older ones stay before the hole: these, and no others, it had set out to remove too.
LatestKept ==
    pc # "purge" =>
        \A i, j \in DOMAIN acked :
            i < j /\ Places(acked[i]) # {} /\ acked[i] \notin spared => Places(acked[j]) # {}

=============================================================================
