------------------------------ MODULE ShellRuns ------------------------------
(***************************************************************************)
(* One command of the bash tool (src/agent/harness): the child process and *)
(* its two pipes, the call of NodeExecutionEnv::exec that reads them, one  *)
(* after the other, while it watches a deadline and an abort               *)
(* (env/nodejs.rs), and the capture that keeps the end of the output and   *)
(* saves all of it when it is too long (utils/shell_output.rs,             *)
(* utils/truncate.rs).  A text is a sequence of bytes of these kinds: a    *)
(* character of one byte, the two bytes of a wide one, a newline, a        *)
(* control character and a byte that UTF-8 knows not.                      *)
(***************************************************************************)
EXTENDS Naturals, Sequences, FiniteSets, SequencesExt, FiniteSetsExt

CONSTANTS Commands,    \* what may be asked for: see CommandAssumption
          Pieces,      \* what a child may write at once
          MaxPieces,   \* how often it writes
          PipeRoom,    \* how many writes a pipe holds
          ByteLimit, LineLimit

Streams == {"stdout", "stderr"}
Byte == {"one", "w1", "w2", "newline", "control", "bad"}

\* deadline: a timeout was given; keeper: which descendant outlives the shell with the
\* pipes open, one of its process group or one of a session of its own; endless: the
\* shell never ends by itself; plain: the call is not the tool's, its listener may fail.
\* The limit on the bytes is 51 200 in the code.  With one or two the end that is kept would
\* not do: it may lose half a character, and with it a line that the whole text shows.
ASSUME CommandAssumption ==
    /\ Commands \subseteq [deadline : BOOLEAN, keeper : {"none", "group", "detached"},
                           endless : BOOLEAN, plain : BOOLEAN]
    /\ Pieces \subseteq Seq(Byte) /\ MaxPieces \in Nat /\ PipeRoom \in Nat \ {0}
    /\ ByteLimit \in Nat /\ LineLimit \in Nat \ {0}
    /\ ByteLimit > 2

VARIABLES command,
          script,      \* what the child has still to write
          written,     \* what it has written to either stream
          child,       \* "none", "running", or how it came to its end
          keeping,     \* a descendant holds the pipes open
          pipe,        \* the writes that are in either pipe
          known,       \* its pid is among the active children of the environment
          reading,     \* where the call is
          undecoded,   \* the bytes that the decoder has kept back
          given,       \* what the listeners were given, in order
          capture,     \* what the capture makes of it
          watching, late, halted, broke,   \* the watch; what ended the command
          outcome,     \* what exec returned
          saved,       \* the writes in the file with the full output; none, no file
          reply        \* what the tool returned

shellVars == <<command, script, written, child, keeping, pipe, known, reading, undecoded,
               given, capture, watching, late, halted, broke, outcome, saved, reply>>

processVars == <<script, written, child, keeping, pipe, known>>
endVars == <<watching, late, halted, broke, outcome>>

(********************************* The text ********************************)

\* What UTF-8 accepts: the second byte of a wide character follows the first.
IsUtf8(t) ==
    \A i \in 1..Len(t) :
        /\ t[i] # "bad"
        /\ t[i] = "w1" => (i < Len(t) /\ t[i + 1] = "w2")
        /\ t[i] = "w2" => (i > 1 /\ t[i - 1] = "w1")

\* from_utf8's valid_up_to: the longest beginning that is valid.  What comes behind an
\* invalid byte is never valid, so the decoder keeps it for good.
ValidUpTo(t) == Max({n \in 0..Len(t) : IsUtf8(SubSeq(t, 1, n))})
Utf8Prefix(t) == SubSeq(t, 1, ValidUpTo(t))

IsPrinted(byte) == byte # "control"
Sanitized(t) == FlattenSeq([i \in DOMAIN t |-> IF IsPrinted(t[i]) THEN <<t[i]>> ELSE <<>>])

\* The last bytes of a text, from the beginning of a character on.
LastBytes(t, n) ==
    LET starts == {s \in 1..(Len(t) + 1) : Len(t) - s + 1 <= n /\ (s <= Len(t) => t[s] # "w2")}
    IN  SubSeq(t, Min(starts), Len(t))

\* A newline at the very end begins no line.
Unended(t) == IF t # <<>> /\ Last(t) = "newline" THEN Front(t) ELSE t
LineStarts(t) ==
    IF t = <<>> THEN {} ELSE {1} \cup {i + 1 : i \in {j \in DOMAIN Unended(t) : t[j] = "newline"}}
Exceeds(t) == Len(t) > ByteLimit \/ Cardinality(LineStarts(t)) > LineLimit

\* truncate_tail: the last lines that both limits allow; of a last line that is too
\* long, its end.
TruncateTail(t) ==
    LET fitting == {s \in LineStarts(t) : /\ Len(Unended(t)) - s + 1 <= ByteLimit
                                          /\ Cardinality({x \in LineStarts(t) : x >= s}) <= LineLimit}
    IN  IF ~Exceeds(t) THEN t
        ELSE IF fitting = {} THEN LastBytes(Unended(t), ByteLimit)
        ELSE SubSeq(Unended(t), Min(fitting), Len(Unended(t)))

(******************************* The capture *******************************)

NoCapture == [bytes |-> 0, lines |-> 0, open |-> FALSE, tail |-> <<>>, asked |-> FALSE, writes |-> <<>>]

\* create_progress: whether the counts exceed the limits.
IsTruncated(k) == k.bytes > ByteLimit \/ k.lines + (IF k.open THEN 1 ELSE 0) > LineLimit

\* Mutant: the text that goes to the file is what is left of the tail.
CapturedTrimmed(k, t) ==
    LET newlines == {i \in DOMAIN t : t[i] = "newline"}
        counted == [k EXCEPT !.bytes = @ + Len(t),
                             !.lines = @ + Cardinality(newlines),
                             !.open = IF t = <<>> THEN @ ELSE Last(t) # "newline"]
        trimmed == LastBytes(k.tail \o t, ByteLimit)
    IN  [counted EXCEPT !.tail = trimmed,
                        !.asked = @ \/ IsTruncated(counted),
                        !.writes = IF k.asked THEN Append(@, t)
                                   ELSE IF IsTruncated(counted) THEN <<trimmed>> ELSE @]

\* on_chunk: counts, and once the output is too long everything so far, and then every
\* chunk, is queued for the file; the tail keeps twice what is shown.
Captured(k, t) ==
    LET newlines == {i \in DOMAIN t : t[i] = "newline"}
        counted == [k EXCEPT !.bytes = @ + Len(t),
                             !.lines = @ + Cardinality(newlines),
                             !.open = IF t = <<>> THEN @ ELSE Last(t) # "newline"]
    IN  [counted EXCEPT !.tail = LastBytes(k.tail \o t, 2 * ByteLimit),
                        !.asked = @ \/ IsTruncated(counted),
                        !.writes = IF k.asked THEN Append(@, t)
                                   ELSE IF IsTruncated(counted) THEN <<k.tail \o t>> ELSE @]

(********************************* The child *******************************)

Scripts == UNION {[1..n -> Streams \X Pieces] : n \in 0..MaxPieces}

ShellInit ==
    /\ command \in Commands /\ script \in Scripts
    /\ written = [s \in Streams |-> <<>>] /\ pipe = [s \in Streams |-> <<>>]
    /\ child = "none" /\ keeping = FALSE /\ known = FALSE
    /\ reading = "new" /\ undecoded = <<>> /\ given = <<>> /\ capture = NoCapture
    /\ watching = FALSE /\ late = FALSE /\ halted = FALSE /\ broke = FALSE
    /\ outcome = "none" /\ saved = <<>> /\ reply = [says |-> "nothing", shows |-> <<>>]

\* A write waits while the pipe is full.
ChildWrites ==
    /\ child = "running" /\ script # <<>>
    /\ LET to == Head(script)[1]  piece == Head(script)[2] IN
       /\ Len(pipe[to]) < PipeRoom
       /\ pipe' = [pipe EXCEPT ![to] = Append(@, piece)]
       /\ written' = [written EXCEPT ![to] = @ \o piece]
    /\ script' = Tail(script)
    /\ UNCHANGED <<command, child, keeping, known, reading, undecoded, given, capture,
                   endVars, saved, reply>>

ChildEnds ==
    /\ child = "running" /\ script = <<>> /\ ~command.endless
    /\ child' \in {"succeeded", "failed"}
    /\ UNCHANGED <<command, script, written, keeping, pipe, known, reading, undecoded, given,
                   capture, endVars, saved, reply>>

\* Somebody else kills it.
ChildSlain ==
    /\ child = "running"
    /\ child' = "killed" /\ script' = <<>>
    /\ UNCHANGED <<command, written, keeping, pipe, known, reading, undecoded, given,
                   capture, endVars, saved, reply>>

KeeperEnds ==
    /\ keeping /\ child # "running"
    /\ keeping' = FALSE
    /\ UNCHANGED <<command, script, written, child, pipe, known, reading, undecoded, given,
                   capture, endVars, saved, reply>>

PipesClosed == child # "running" /\ ~keeping

\* kill_process_tree: the shell and what is still in its process group.
KillsTree ==
    /\ child' = IF child = "running" THEN "killed" ELSE child
    /\ script' = IF child = "running" THEN <<>> ELSE script
    /\ keeping' = (keeping /\ command.keeper = "detached")
    /\ UNCHANGED <<written, pipe>>

\* NodeExecutionEnv::cleanup, at any time.
CleansUp ==
    /\ known
    /\ KillsTree /\ known' = FALSE
    /\ UNCHANGED <<command, reading, undecoded, given, capture, endVars, saved, reply>>

(********************************** The call *******************************)

\* An invalid timeout, no shell, no such directory, a process that does not start; or
\* an abort that came first.
ExecRefused ==
    /\ reading = "new"
    /\ outcome' = IF halted THEN "aborted" ELSE "refused"
    /\ reading' = "files"
    /\ UNCHANGED <<command, processVars, undecoded, given, capture, watching, late, halted, broke,
                   saved, reply>>

ExecSpawns ==
    /\ reading = "new" /\ ~halted
    /\ child' = "running" /\ keeping' = (command.keeper # "none") /\ known' = TRUE
    /\ reading' = "stdout" /\ watching' = TRUE
    /\ UNCHANGED <<command, script, written, pipe, undecoded, given, capture, late, halted,
                   broke, outcome, saved, reply>>

\* What a read finds in the pipe: any number of the writes in it.
NextStream(s) == IF s = "stdout" THEN "stderr" ELSE "reap"

ReadsPipe(s) ==
    /\ reading = s /\ pipe[s] # <<>>
    /\ \E n \in 1..Len(pipe[s]) :
       \E bytes \in {undecoded \o FlattenSeq(SubSeq(pipe[s], 1, n))} :
       \E chunk \in {Utf8Prefix(bytes)} :
       \E printed \in {Sanitized(chunk)} :
          /\ pipe' = [pipe EXCEPT ![s] = SubSeq(@, n + 1, Len(@))]
          /\ undecoded' = SubSeq(bytes, Len(chunk) + 1, Len(bytes))
          /\ given' = given \o chunk
          /\ capture' = IF command.plain THEN capture ELSE Captured(capture, printed)
    /\ UNCHANGED <<command, script, written, child, keeping, known, reading, endVars, saved, reply>>

\* A listener that returns an error ends the reading of its stream and the command.
ListenerFails(s) ==
    /\ command.plain /\ reading = s /\ pipe[s] # <<>>
    /\ broke' = TRUE /\ KillsTree
    /\ reading' = NextStream(s) /\ undecoded' = <<>>
    /\ UNCHANGED <<command, known, given, capture, watching, late, halted, outcome, saved, reply>>

\* Whatever the decoder has kept back is dropped.
StreamEnds(s) ==
    /\ reading = s /\ pipe[s] = <<>> /\ PipesClosed
    /\ reading' = NextStream(s) /\ undecoded' = <<>>
    /\ UNCHANGED <<command, processVars, given, capture, endVars, saved, reply>>

\* The signal of the call; its owner may cancel it at any time.
Halt ==
    /\ ~halted /\ reading # "over"
    /\ halted' = TRUE
    /\ UNCHANGED <<command, processVars, reading, undecoded, given, capture, watching, late, broke,
                   outcome, saved, reply>>

Awaiting == reading \in {"stdout", "stderr", "reap"}

\* The watch fires once.
WatchHalts ==
    /\ Awaiting /\ watching /\ halted
    /\ watching' = FALSE /\ KillsTree
    /\ UNCHANGED <<command, known, reading, undecoded, given, capture, late, halted, broke,
                   outcome, saved, reply>>

WatchExpires ==
    /\ Awaiting /\ watching /\ command.deadline
    /\ watching' = FALSE /\ late' = TRUE /\ KillsTree
    /\ UNCHANGED <<command, known, reading, undecoded, given, capture, halted, broke, outcome,
                   saved, reply>>

\* The order in which exec looks at what happened.  A shell that a signal killed has no
\* exit code, which counts as 0.
Verdict ==
    IF broke THEN "callback"
    ELSE IF late THEN "timeout"
    ELSE IF halted THEN "aborted"
    ELSE IF child = "failed" THEN "nonzero" ELSE "zero"

Reaps ==
    /\ reading = "reap" /\ child # "running"
    /\ known' = FALSE /\ watching' = FALSE
    /\ outcome' = Verdict
    /\ reading' = "files"
    /\ UNCHANGED <<command, script, written, child, keeping, pipe, undecoded, given, capture,
                   late, halted, broke, saved, reply>>

\* The queued writes, one after another: the first one makes the file.
SavesOutput ==
    /\ reading = "files" /\ capture.writes # <<>>
    /\ saved' = Append(saved, Head(capture.writes))
    /\ capture' = [capture EXCEPT !.writes = Tail(@)]
    /\ UNCHANGED <<command, processVars, reading, undecoded, given, endVars, reply>>

SavingFails ==
    /\ reading = "files" /\ capture.writes # <<>>
    /\ reading' = "over" /\ reply' = [says |-> "unsaved", shows |-> <<>>]
    /\ UNCHANGED <<command, processVars, undecoded, given, capture, endVars, saved>>

\* The capture's result, and what the tool says of it: an abort first, then a deadline
\* and any other error, whose output is not shown, then the exit code.
ToolSays ==
    CASE halted -> "aborted"
      [] ~halted /\ outcome = "timeout" -> "timeout"
      [] ~halted /\ outcome \in {"callback", "refused"} -> "error"
      [] ~halted /\ outcome = "nonzero" -> "exited"
      [] ~halted /\ outcome = "zero" -> "ok"

Shown == IF IsTruncated(capture) THEN TruncateTail(capture.tail) ELSE capture.tail

ToolReplies ==
    /\ reading = "files" /\ capture.writes = <<>>
    /\ reading' = "over"
    /\ reply' = IF command.plain THEN [says |-> outcome, shows |-> given]
                ELSE [says |-> ToolSays, shows |-> IF ToolSays = "error" THEN <<>> ELSE Shown]
    /\ UNCHANGED <<command, processVars, undecoded, given, capture, endVars, saved>>

\* The future of the call is dropped: the child goes on, and stays known.
RunDropped ==
    /\ Awaiting
    /\ reading' = "dropped" /\ watching' = FALSE
    /\ UNCHANGED <<command, processVars, undecoded, given, capture, late, halted, broke, outcome,
                   saved, reply>>

ReadsStreams == \E s \in Streams : ReadsPipe(s) \/ StreamEnds(s)

CallSteps ==
    \/ ExecRefused \/ ExecSpawns \/ ReadsStreams \/ Reaps \/ WatchHalts
    \/ SavesOutput \/ SavingFails \/ ToolReplies

ShellNext ==
    \/ CallSteps \/ WatchExpires \/ ChildWrites \/ ChildEnds \/ ChildSlain \/ KeeperEnds
    \/ CleansUp \/ Halt \/ RunDropped
    \/ \E s \in Streams : ListenerFails(s)

\* The call is polled, time passes, and a child that is not endless goes on.
ShellFairness ==
    /\ WF_shellVars(CallSteps) /\ WF_shellVars(WatchExpires)
    /\ WF_shellVars(ChildWrites \/ ChildEnds)

ShellSpec == ShellInit /\ [][ShellNext]_shellVars /\ ShellFairness

(******************************** Properties *******************************)

\* What a whole text shows at most: each stream as far as it is valid, stdout first.
AllWritten == Utf8Prefix(written["stdout"]) \o Utf8Prefix(written["stderr"])

\* What the tool shows is the end of everything that was given, although the capture
\* forgets all but twice as much as it shows; and the file has all of it, exactly when
\* something is not shown.
ShownIsTheEnd ==
    (reading = "over" /\ ~command.plain /\ reply.says \notin {"unsaved", "error"}) =>
        /\ reply.shows = TruncateTail(Sanitized(given))
        /\ FlattenSeq(saved) = IF Exceeds(Sanitized(given)) THEN Sanitized(given) ELSE <<>>

\* What the listeners are given is what was written, each stream in order, no character cut by the
\* reads and nothing twice; and all of it, once the call has seen the pipes' end.
HeardInFull ==
    ~broke => /\ IsPrefix(given, AllWritten)
              /\ outcome \notin {"none", "refused"} /\ child # "none" => given = AllWritten

\* The tool reports a success for a command that succeeded, or that somebody else killed.
SuccessIsEarned ==
    (reading = "over" /\ reply.says = "ok") =>
        child \in {"succeeded", "killed"} /\ ~late /\ ~broke /\ script = <<>>

CaptureHolds == ShownIsTheEnd /\ HeardInFull /\ SuccessIsEarned

\* A call returns: after an abort or its deadline, unless a process that left the group
\* holds the pipes; and without either, when the command ends, nothing outlives it and
\* what it writes to stderr is no more than its pipe holds.
Returned == reading \in {"over", "dropped"}
ErrorsFit == Cardinality({i \in DOMAIN script : script[i][1] = "stderr"}) <= PipeRoom

MayEnd ==
    \/ Awaiting /\ command.keeper # "detached" /\ (halted \/ command.deadline)
    \/ reading = "new" /\ command.keeper = "none" /\ ~command.endless /\ ErrorsFit

ShellReturns == MayEnd ~> Returned

\* "Called with stderr chunks as they are produced" (types.rs): what a command writes to
\* stderr is taken from its pipe.
StderrIsHeard == (pipe["stderr"] # <<>> /\ reading = "stdout") ~> (pipe["stderr"] = <<>> \/ Returned)
=============================================================================
