---------------------------- MODULE PulumiRunner ----------------------------
(***************************************************************************)
(* iac/pulumi/runner: callers drive the CLI over a project directory.  The *)
(* CLI is external: it keeps the selected stack in the directory, and its  *)
(* configuration and outputs with the stack.  GetRawOutputs reads back the *)
(* file that the command wrote; every call of a Runner, and every Runner   *)
(* with the same log directory, uses the same one, and the log directory   *)
(* that Runners have by default is the same whatever their project.        *)
(***************************************************************************)
EXTENDS Integers, Sequences, FiniteSets, SequencesExt

CONSTANTS
  Callers,   \* each is after the stack of its own name
  Keys,      \* the configuration keys, a sequence in alphabetical order
  Shared,    \* callers that share a project directory; others are alone
  Logging,   \* callers whose Runner has the default log directory; others set
             \* one of their own
  MaxRuns    \* commands a caller gives

Dir(c) == IF c \in Shared THEN CHOOSE s \in Shared : TRUE ELSE c
LogDir(c) == IF c \in Logging THEN CHOOSE s \in Logging : TRUE ELSE c

VARIABLES
  selected,  \* the stack selected in each project directory
  config,    \* the keys set on each stack, as a sequence
  deployed,  \* whether each stack has been brought up
  file,      \* the output file of each log directory: what was written where
  caller,    \* where each caller is
  history    \* observability: who was disturbed, what went to which stack

runnerVars == <<selected, config, deployed, file, caller, history>>

Chunk(c, k) == [of |-> c, part |-> k]
Idle == [pc |-> "idle", n |-> 0, next |-> 0, out |-> <<>>, runs |-> 0]

Init ==
  /\ selected = [d \in Callers |-> "none"]
  /\ config = [s \in Callers |-> <<>>]
  /\ deployed = [s \in Callers |-> FALSE]
  /\ file = [d \in Callers |-> <<>>]
  /\ caller = [c \in Callers |-> Idle]
  /\ history = [alone |-> {}, hit |-> {}, got |-> {}]

At(c, pc) == caller[c].pc = pc
Goto(c, pc) == caller' = [caller EXCEPT ![c].pc = pc]
Begins(c) == At(c, "idle") /\ caller[c].runs < MaxRuns
Begin(c, pc) == caller' = [caller EXCEPT ![c].pc = pc, ![c].runs = @ + 1, ![c].next = 1]

\* SelectStack and SelectOrCreateStack: from now on the directory's commands
\* are for this stack.
Select(c) ==
  /\ Begins(c) /\ Begin(c, "idle")
  /\ selected' = [selected EXCEPT ![Dir(c)] = c]
  /\ UNCHANGED <<config, deployed, file, history>>

\* SetConfigs: one command for each key in order, until one fails.
SetConfigs(c) == Begins(c) /\ selected[Dir(c)] # "none" /\ Begin(c, "set")
                 /\ UNCHANGED <<selected, config, deployed, file, history>>
SetConfig(c) ==
  LET s == selected[Dir(c)] IN
  /\ At(c, "set")
  /\ \/ /\ caller[c].next > Len(Keys) /\ Goto(c, "idle")
        /\ UNCHANGED <<config, history>>
     \/ /\ caller[c].next <= Len(Keys)
        /\ config' = [config EXCEPT ![s] = Append(@, Keys[caller[c].next])]
        /\ history' = [history EXCEPT !.hit = @ \cup {<<c, s>>}]
        /\ caller' = [caller EXCEPT ![c].next = @ + 1]
     \/ Goto(c, "idle") /\ UNCHANGED <<config, history>>
  /\ UNCHANGED <<selected, deployed, file>>

\* Up, on the stack that is named or on the selected one.
Up(c, named) ==
  LET s == IF named THEN c ELSE selected[Dir(c)] IN
  /\ Begins(c) /\ s # "none" /\ Begin(c, "idle")
  /\ \E ok \in BOOLEAN : deployed' = IF ok THEN [deployed EXCEPT ![s] = TRUE] ELSE deployed
  /\ history' = [history EXCEPT !.hit = @ \cup {<<c, s>>}]
  /\ UNCHANGED <<selected, config, file>>
Destroy(c) ==
  /\ Begins(c) /\ selected[Dir(c)] # "none" /\ Begin(c, "idle")
  /\ \E ok \in BOOLEAN :
       deployed' = IF ok THEN [deployed EXCEPT ![selected[Dir(c)]] = FALSE] ELSE deployed
  /\ history' = [history EXCEPT !.hit = @ \cup {<<c, selected[Dir(c)]>>}]
  /\ UNCHANGED <<selected, config, file>>

\* GetRawOutputs: the file is truncated, the command writes its output in
\* two parts from its own offset, and the file is read when it has ended.
Busy(c) == {d \in Callers \ {c} : LogDir(d) = LogDir(c)
                                   /\ caller[d].pc \in {"write", "read"}}
\* Mutation of Open: the file is not truncated.
OpenAppending(c) ==
  /\ Begins(c) /\ selected[Dir(c)] # "none"
  /\ caller' = [caller EXCEPT ![c] = [@ EXCEPT !.pc = "write", !.runs = @ + 1,
                                               !.next = Len(file[LogDir(c)]) + 1,
                                               !.out = <<selected[Dir(c)]>>]]
  /\ history' = [history EXCEPT !.alone = IF Busy(c) = {} THEN @ \cup {c}
                                             ELSE @ \ (Busy(c) \cup {c})]
  /\ UNCHANGED <<selected, config, deployed, file>>

Open(c) ==
  /\ Begins(c) /\ selected[Dir(c)] # "none"
  /\ caller' = [caller EXCEPT ![c].pc = "write", ![c].runs = @ + 1, ![c].next = 1,
                              ![c].out = <<selected[Dir(c)]>>]
  /\ file' = [file EXCEPT ![LogDir(c)] = <<>>]
  /\ history' = [history EXCEPT !.alone = IF Busy(c) = {} THEN @ \cup {c}
                                             ELSE @ \ (Busy(c) \cup {c})]
  /\ UNCHANGED <<selected, config, deployed>>

\* A write past the end of the file leaves a hole.
Written(f, at, chunk) ==
  [i \in 1 .. (IF at > Len(f) THEN at ELSE Len(f)) |->
     IF i = at THEN chunk ELSE IF i <= Len(f) THEN f[i] ELSE Chunk("hole", 0)]
Write(c) ==
  /\ At(c, "write")
  /\ \/ /\ caller[c].n < 2
        /\ file' = [file EXCEPT ![LogDir(c)] = Written(@, caller[c].next,
                                              Chunk(caller[c].out[1], caller[c].n + 1))]
        /\ caller' = [caller EXCEPT ![c].next = @ + 1, ![c].n = @ + 1,
                                    ![c].pc = IF caller[c].n = 1 THEN "read" ELSE "write"]
     \/ caller' = [caller EXCEPT ![c].pc = "idle", ![c].n = 0, ![c].out = <<>>] /\ UNCHANGED file
  /\ UNCHANGED <<selected, config, deployed, history>>

Read(c) ==
  /\ At(c, "read")
  /\ caller' = [caller EXCEPT ![c].pc = "idle", ![c].n = 0, ![c].out = <<>>]
  /\ history' = [history EXCEPT !.got = @ \cup {[by |-> c, stack |-> caller[c].out[1],
                                                 alone |-> c \in history.alone,
                                                 data |-> file[LogDir(c)]]}]
  /\ UNCHANGED <<selected, config, deployed, file>>

Next == \E c \in Callers :
          \/ Select(c) \/ SetConfigs(c) \/ SetConfig(c) \/ Up(c, TRUE) \/ Up(c, FALSE)
          \/ Destroy(c) \/ Open(c) \/ Write(c) \/ Read(c)
Spec == Init /\ [][Next]_runnerVars
-----------------------------------------------------------------------------
\* An answer that no other call on the log directory overlapped, of whichever
\* project, is the whole output of the stack that was selected when the call
\* began, and nothing else; only callers that share a project directory ever
\* touch another's stack, and
\* a stack's configuration is a run of alphabetical beginnings.
OwnAnswer ==
  \A g \in history.got : g.alone => g.data = <<Chunk(g.stack, 1), Chunk(g.stack, 2)>>
OwnStack == \A h \in history.hit : h[1] # h[2] => {h[1], h[2]} \subseteq Shared
InOrder ==
  \A s \in Callers \ Shared : \A i \in DOMAIN config[s] :
    \/ config[s][i] = Keys[1]
    \/ i > 1 /\ \E k \in 2 .. Len(Keys) :
                 config[s][i] = Keys[k] /\ config[s][i - 1] = Keys[k - 1]
RunnerSound == OwnAnswer /\ OwnStack /\ InOrder
=============================================================================
