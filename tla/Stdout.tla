------------------------------- MODULE Stdout --------------------------------
(***************************************************************************)
(* The stdout destination, gateway/destination/writer.go: WriteContext     *)
(* writes one packet, as a line, to the standard output. If that is a pipe *)
(* it may be full and take a line in parts; its deadline ends a write, and *)
(* a goroutine moves the deadline to now when the context is done.         *)
(*                                                                         *)
(* External: whoever reads the pipe. Delivery gives every attempt a        *)
(* deadline, and cancels its context when it has returned (queue.go).      *)
(***************************************************************************)
EXTENDS Naturals, Sequences, SequencesExt

CONSTANTS
    Messages,
    None,
    Room,      \* how many parts of lines the pipe holds
    MaxCalls   \* bound: how many calls of WriteContext are made

VARIABLES
    at,        \* where WriteContext is
    message,   \* the message of the call
    closed,    \* Close was called
    writeErr,  \* w.writeErr is set
    timed,     \* w.deadline: the stream is a pipe and has deadlines
    deadline,  \* of the stream: "none", "ahead" or "past"
    ctxDone,   \* the context of the call is done
    watchers,  \* calls whose goroutine waits for their context
    faulty,    \* the goroutine could not set the deadline
    parts,     \* parts of the line that are written
    unread,    \* parts the pipe holds
    output,    \* the call of every part ever written
    calls,
    result     \* of the last call

streamVars == <<writeErr, timed, watchers, faulty, parts, unread, output>>
vars == <<streamVars, at, message, closed, calls, result, deadline, ctxDone>>

Init ==
    /\ at = "idle" /\ message = None /\ closed = FALSE /\ calls = 0 /\ result = "none"
    /\ writeErr = FALSE /\ timed \in BOOLEAN /\ deadline = "none" /\ ctxDone = FALSE
    /\ watchers = {} /\ faulty = FALSE /\ parts = 0 /\ unread = 0 /\ output = <<>>

----------------------------------------------------------------------------
\* Closed, stopped by a partial write, a context that is done, no encoding, outputs
\* that have become invalid, or no deadline can be set.
Reject ==
    /\ at = "idle" /\ calls < MaxCalls /\ calls' = calls + 1 /\ result' = "error"
    /\ UNCHANGED <<streamVars, at, message, closed, deadline, ctxDone>>

Write(m) ==
    /\ at = "idle" /\ calls < MaxCalls /\ ~closed /\ ~writeErr
    /\ calls' = calls + 1 /\ message' = m /\ result' = "none" /\ at' = "writing"
    /\ ctxDone' = FALSE /\ parts' = 0 /\ faulty' = FALSE
    /\ IF timed THEN deadline' = "ahead" /\ watchers' = watchers \union {calls'}
       ELSE UNCHANGED <<deadline, watchers>>
    /\ UNCHANGED <<closed, writeErr, timed, unread, output>>

\* A line has two parts; what is no pipe has room for all.
Line == 2
Put ==
    /\ at = "writing" /\ deadline # "past"
    /\ IF timed THEN unread < Room /\ unread' = unread + 1 ELSE UNCHANGED unread
    /\ parts' = parts + 1 /\ output' = Append(output, calls)
    /\ at' = IF parts' = Line THEN "written" ELSE "writing"
    /\ UNCHANGED <<writeErr, timed, watchers, faulty, message, closed, calls, result, deadline, ctxDone>>

\* The deadline passes, of the context and of the stream.
Late ==
    /\ at = "writing" /\ timed /\ deadline = "ahead"
    /\ deadline' = "past" /\ ctxDone' = TRUE
    /\ UNCHANGED <<streamVars, at, message, closed, calls, result>>

\* The gateway stops or another destination has stalled.
Cancel ==
    /\ at # "idle" /\ ~ctxDone /\ ctxDone' = TRUE
    /\ UNCHANGED <<streamVars, at, message, closed, calls, result, deadline>>

\* A goroutine sees that its context is done.
Interrupt(c) ==
    /\ c \in watchers /\ (c = calls /\ at # "idle" => ctxDone)
    /\ watchers' = watchers \ {c}
    /\ \/ deadline' = "past" /\ UNCHANGED faulty
       \/ faulty' = TRUE /\ UNCHANGED deadline
    /\ UNCHANGED <<writeErr, timed, parts, unread, output, at, message, closed, calls, result, ctxDone>>

\* The write ends early.
Fails ==
    /\ at = "writing" /\ at' = "failed"
    /\ UNCHANGED <<streamVars, message, closed, calls, result, deadline, ctxDone>>
Expire == deadline = "past" /\ Fails

\* finished is closed: the goroutine ends, and WriteContext waits until it has.
Finish ==
    /\ at \in {"written", "failed"} /\ calls \in watchers /\ watchers' = watchers \ {calls}
    /\ UNCHANGED <<writeErr, timed, faulty, parts, unread, output, at, message, closed, calls, result, deadline, ctxDone>>

\* A partial write, or one after which something failed, stops the Writer.
MutantUnwaited == FALSE
Watched == calls \in watchers
Return ==
    /\ at \in {"written", "failed"} /\ ~Watched
    /\ LET ok == at = "written" /\ ~faulty
       IN result' = (IF ok THEN "ok" ELSE "error") /\ writeErr' = (~ok /\ parts > 0)
    /\ at' = "idle" /\ message' = None
    /\ UNCHANGED <<timed, watchers, faulty, parts, unread, output, closed, calls, deadline, ctxDone>>

Close ==
    /\ at = "idle" /\ ~closed /\ closed' = TRUE /\ result' = "none"
    /\ UNCHANGED <<streamVars, at, message, calls, deadline, ctxDone>>

\* External: the reader of the pipe.
Reader ==
    /\ unread > 0 /\ unread' = unread - 1
    /\ UNCHANGED <<writeErr, timed, watchers, faulty, parts, output, at, message, closed, calls, result, deadline, ctxDone>>

Next ==
    \/ Reject \/ (\E m \in Messages : Write(m)) \/ Put \/ Late \/ Cancel \/ (\E c \in watchers : Interrupt(c))
    \/ Fails \/ Finish \/ Return \/ Close \/ Reader

Spec == Init /\ [][Next]_vars

----------------------------------------------------------------------------
TypeOK ==
    /\ at \in {"idle", "writing", "written", "failed"} /\ message \in Messages \union {None}
    /\ {closed, writeErr, timed, ctxDone, faulty} \subseteq BOOLEAN /\ deadline \in {"none", "ahead", "past"}
    /\ calls \in 0..MaxCalls /\ watchers \subseteq 1..calls /\ parts \in 0..Line /\ unread \in 0..Room
    /\ output \in Seq(1..calls) /\ result \in {"none", "ok", "error"}
    /\ at = "idle" <=> message = None

\* No error means that the whole line of this message was written.
Promise == INSTANCE Destination WITH
    busy <- message, taken <- at # "idle" /\ parts = Line, outcome <- result
Fulfils == Promise!Spec

\* A write is cut short only by its own context, never by the goroutine of a call
\* before, and nothing follows a line that is incomplete.
Undisturbed ==
    /\ at = "writing" /\ deadline = "past" => ctxDone
    /\ \A i \in DOMAIN output :
          output[i] # Last(output) => Cardinality({j \in DOMAIN output : output[j] = output[i]}) = Line

=============================================================================
