------------------------------- MODULE Procrun -------------------------------
(***************************************************************************)
(* platform/procrun and platform/passstore: what an external command is    *)
(* given and what its failure says; and the texts the Pulumi runner makes  *)
(* of a command line.  An environment is a function from names to values;  *)
(* a name is <<family, rest>>, so a prefix is a family.                    *)
(***************************************************************************)
EXTENDS Integers, Sequences, FiniteSets, SequencesExt, Functions

scrubbed(r, name) == \E i \in DOMAIN r.Scrub : name[1] = r.Scrub[i]

PATH == <<"PATH", "">>
\* The inherited variables that nothing replaces or scrubs, then the runner's,
\* the call's and the fixed PATH, the later over the earlier.
Environ(r, callEnv, parent) ==
  LET fixed == IF r.Path = <<>> THEN {} ELSE {PATH}
      replaced == fixed \cup DOMAIN callEnv \cup DOMAIN r.Env
      kept == {n \in DOMAIN parent : n \notin replaced /\ ~scrubbed(r, n)}
  IN [n \in replaced \cup kept |->
        IF n \in fixed THEN "fixed" ELSE IF n \in DOMAIN callEnv THEN callEnv[n]
        ELSE IF n \in DOMAIN r.Env THEN r.Env[n] ELSE parent[n]]

\* A name with a separator is its own answer; without a fixed path the
\* parent's decides; else the first directory that has the command.
LookPath(r, name, parentPath, has) ==
  LET dirs == SelectSeq(IF r.Path = <<>> THEN parentPath ELSE r.Path,
                        LAMBDA d : d # "" /\ <<d, name>> \in has)
  IN IF name = "dir/command" THEN [err |-> "nil", found |-> "as named"]
     ELSE IF dirs = <<>> THEN [err |-> "ErrNotOnPath", found |-> ""]
     ELSE [err |-> "nil", found |-> dirs[1]]

DefaultTailLines == 20
tailLines(r) == IF r.TailLines = 0 THEN DefaultTailLines ELSE r.TailLines
tail(lines, n) == IF n <= 0 THEN <<>>
                  ELSE SubSeq(lines, IF Len(lines) > n THEN Len(lines) - n + 1 ELSE 1, Len(lines))

\* A command that never started has no exit code.
exitError(r, started, code, lines) ==
  IF started THEN [kind |-> "ExitError", code |-> code, tail |-> tail(lines, tailLines(r))]
  ELSE [kind |-> "could not run", code |-> -1, tail |-> <<>>]
ExitCodeOf(err) == IF err.kind = "ExitError" THEN err.code ELSE -1
-----------------------------------------------------------------------------
(* runner: command lines.  A flag is one of Flags; any other word is       *)
(* positional.  A value that looks like a flag is outside the model: the   *)
(* command line takes it for one as well.                                  *)
Flags == {"--cwd", "--stack", "--secret", "--yes", "--create", "--json", "--skip-preview"}
keepsValue(flag) == flag \in {"--cwd", "--stack"}
maxLogWords == 2

\* Characters that a file name may not have vanish from a word.
noWord == ""   \* the empty text
safeWord(w) == IF w = "?!" THEN noWord ELSE w

\* A word more, until there are enough.
Named(words, w) == IF w = noWord \/ Len(words) = maxLogWords THEN words ELSE Append(words, w)
\* The first words before the first flag.
logName(args) ==
  LET flags == {i \in DOMAIN args : args[i] \in Flags}
      words[i \in 0 .. Len(args)] ==
        IF i = 0 THEN <<>>
        ELSE IF \E j \in 1 .. i : j \in flags THEN words[i - 1]
        ELSE Named(words[i - 1], safeWord(args[i]))
  IN IF words[Len(args)] = <<>> THEN <<"run">> ELSE words[Len(args)]

\* The words after "config set" that are neither flags nor a kept flag's value.
positional(args) ==
  {i \in 3 .. Len(args) : args[i] \notin Flags /\ ~(i > 3 /\ keepsValue(args[i - 1]))}
\* Mutation of redactArgs: only a secret is redacted.
redactSecrets(args) ==
  IF Len(args) < 3 \/ args[3] # "--secret" THEN args
  ELSE [i \in DOMAIN args |->
          IF i \in positional(args) /\ \E j \in positional(args) : j < i
          THEN "[redacted]" ELSE args[i]]

redactArgs(args) ==
  IF Len(args) < 2 \/ args[1] # "config" \/ args[2] # "set" THEN args
  ELSE [i \in DOMAIN args |->
          IF i \in positional(args) /\ \E j \in positional(args) : j < i
          THEN "[redacted]" ELSE args[i]]

SelectOrCreateStack(s) == <<"stack", "select", s, "--create", "--cwd", "dir">>
SelectStack(s) == <<"stack", "select", s, "--cwd", "dir">>
SetConfig(k, v) == <<"config", "set", k, v, "--cwd", "dir">>
SetSecret(k, v) == <<"config", "set", "--secret", k, v, "--cwd", "dir">>
Up(stack, skip) == <<"up", "--yes", "--cwd", "dir">>
                   \o (IF stack = noWord THEN <<>> ELSE <<"--stack", stack>>)
                   \o (IF skip THEN <<"--skip-preview">> ELSE <<>>)
Destroy == <<"destroy", "--yes", "--cwd", "dir">>
-----------------------------------------------------------------------------
\* A child sees no scrubbed variable that was not set on purpose, the call's
\* value before the runner's, and the fixed path.
EnvIsControlled(r, callEnv, parent) ==
  LET env == Environ(r, callEnv, parent)
  IN /\ \A n \in DOMAIN env : scrubbed(r, n) =>
          n \in DOMAIN callEnv \cup DOMAIN r.Env \cup {PATH}
     /\ \A n \in DOMAIN callEnv : n # PATH \/ r.Path = <<>> => env[n] = callEnv[n]
     /\ r.Path # <<>> => env[PATH] = "fixed"
     /\ \A n \in DOMAIN r.Env \ (DOMAIN callEnv \cup {PATH}) : env[n] = r.Env[n]
     /\ \A n \in DOMAIN parent : n \notin DOMAIN env => scrubbed(r, n)

\* A configuration value is neither in the name of a log file nor in an error,
\* where the key and the flags stay readable.
ValueStaysPrivate(k, v) ==
  \A args \in {SetConfig(k, v), SetSecret(k, v)} :
    /\ v \notin ToSet(redactArgs(args)) \cup ToSet(logName(args))
    /\ {k, "--cwd", "dir"} \subseteq ToSet(redactArgs(args))
    /\ Len(logName(args)) <= maxLogWords
CommandsAreNamed(s) ==
  \A args \in {SelectOrCreateStack(s), SelectStack(s), Up(s, TRUE), Up(noWord, FALSE), Destroy} :
    redactArgs(args) = args /\ s \notin ToSet(logName(args)) /\ logName(args) # <<"run">>
=============================================================================
