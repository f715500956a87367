------------------------------- MODULE Outputs -------------------------------
(***************************************************************************)
(* gateway/configuration: where the gateway writes to, and ValidateOutputs *)
(* of outputs.go, which refuses outputs that would write the same place.   *)
(*                                                                         *)
(* The outputs are the queue dump, the application log and the packet      *)
(* file, each with a directory of its own, the packets on stdout, and      *)
(* stderr. A layout is what the operating system makes of them: "path" is  *)
(* the directory a configured name resolves to, symbolic links followed    *)
(* (resolveDirectory), "linked" holds the pairs of outputs that are one    *)
(* regular file, and "odd" the directories that hold anything else.        *)
(***************************************************************************)
EXTENDS Sequences, FiniteSets, SequencesExt

Directories(cfg) ==
    {"dump"} \union {d \in {"logs"} : cfg.log = "file"} \union {d \in {"packets"} : cfg.file}
Place(cfg, layout, output) == layout.path[cfg.directory[output]]

\* The files of the outputs, and the output each one belongs to: stderr is part of
\* the log whatever the log is written to, stdout only if something is written there.
OutputFiles(cfg) ==
    {[file |-> d, owner |-> d] : d \in Directories(cfg)} \union
    {[file |-> "stderr", owner |-> "logs"]} \union
    {[file |-> "stdout", owner |-> IF cfg.stdout THEN "stdout" ELSE "logs"] :
        x \in {y \in {cfg} : y.stdout \/ y.log = "stdout"}}

Readable(cfg, layout) == \A d \in Directories(cfg) : cfg.directory[d] \notin layout.odd

Shared(cfg, layout) ==
    {x \in OutputFiles(cfg) \X OutputFiles(cfg) :
        x[1].owner # x[2].owner /\ {x[1].file, x[2].file} \in layout.linked}

Overlap(cfg, layout) ==
    \E d, e \in Directories(cfg) :
        d # e /\ IsPrefix(Place(cfg, layout, d), Place(cfg, layout, e))

ValidateOutputs(cfg, layout) ==
    /\ Readable(cfg, layout)
    /\ Shared(cfg, layout) = {}
    /\ ~(cfg.log = "stdout" /\ cfg.stdout)
    /\ ~Overlap(cfg, layout)

MutantStderrUnsafe(cfg, layout) ==
    Readable(cfg, layout) /\ \E x \in Shared(cfg, layout) : {x[1].file, x[2].file} = {"stdout", "stderr"}
\* OutputConflictError.StderrUnsafe: not even the error may be written to stderr.
StderrUnsafe(cfg, layout) ==
    Readable(cfg, layout) /\ \E x \in Shared(cfg, layout) : "stderr" \in {x[1].file, x[2].file}

\* PrepareLogger: where the application log goes.
LogFile(cfg) == IF cfg.log = "file" THEN "logs" ELSE cfg.log

=============================================================================
