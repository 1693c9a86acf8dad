------------------------------- MODULE Logger -------------------------------
(***************************************************************************)
(* pkg/logger/logger.go: which writer an entry goes to, for the options a  *)
(* logger was made with.                                                   *)
(***************************************************************************)
EXTENDS Integers, Sequences, SequencesExt

\* zapcore's levels.
Levels == [debug |-> -1, info |-> 0, warn |-> 1, error |-> 2, dpanic |-> 3, panic |-> 4, fatal |-> 5]
DefaultLevel == Levels.info

\* The With... options that matter here; a file option sets the writer.
Options == {"debug", "info", "warn", "error", "file", "rotation", "disableConsole"}

\* New applies the options in the order given: the last one of a kind counts.
Applied(opts) ==
    LET level == {j \in DOMAIN opts : opts[j] \in DOMAIN Levels}
        file == {j \in DOMAIN opts : opts[j] \in {"file", "rotation"}}
    IN  [level |-> IF level = {} THEN DefaultLevel ELSE Levels[opts[Max(level)]],
         file |-> IF file = {} THEN "nil" ELSE opts[Max(file)],
         disableConsole |-> "disableConsole" \in ToSet(opts)]

LowPriority(opt, lvl) == lvl >= opt.level /\ lvl < Levels.error
HighPriority(opt, lvl) == lvl >= opt.level /\ lvl >= Levels.error

\* Mutant of Writers: the file is added to the console.
WritersBoth(opt, lvl) ==
    {w \in {"stdout", "stderr", opt.file} :
        \/ w = "stdout" /\ LowPriority(opt, lvl) /\ ~opt.disableConsole
        \/ w = "stderr" /\ HighPriority(opt, lvl) /\ ~opt.disableConsole
        \/ w = opt.file /\ w # "nil" /\ lvl >= opt.level}

\* The cores of the tee: console or file, never both.  Without a file option
\* the file core is given a nil writer.
Writers(opt, lvl) ==
    {w \in {"stdout", "stderr", opt.file} :
        \/ w = "stdout" /\ ~opt.disableConsole /\ LowPriority(opt, lvl)
        \/ w = "stderr" /\ ~opt.disableConsole /\ HighPriority(opt, lvl)
        \/ w = opt.file /\ opt.disableConsole /\ lvl >= opt.level}

\* zapcore.AddSync wraps the nil writer, and its first Write is a nil dereference.
Panics(opt, lvl) == "nil" \in Writers(opt, lvl)
=============================================================================
