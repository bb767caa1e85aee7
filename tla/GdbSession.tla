------------------------------ MODULE GdbSession ------------------------------
(***************************************************************************)
(* How the parent has gdb look at a child that crashed or hangs:           *)
(* generate_backtrace() starts gdb with two pipes, and                     *)
(* communicate_gdb_backtrace() talks to it until a deadline.  gdb, which   *)
(* is not part of the program, writes a symbol at a time, is slow, knows   *)
(* no Python, or dies; a read returns what is there.                       *)
(***************************************************************************)
EXTENDS Integers, SequencesExt

CONSTANTS
  BufferSize,   \* sizeof(buf): 4096
  Frames        \* what gdb may print in answer to the Python commands: sequences of "x"

Prompt == <<"(gdb", ") ">>
Ok == <<"ok", "nl">>
Done == <<"..Done", "..nl">>
Backtrace == <<"bt", "bt">>
Answers == {"drain", "reply", "skip", "python", "splice"}

VARIABLES
  at,           \* of the parent: "call", one of Answers, "close", "wait", "done", "killed", "undefined"
  handle,       \* the thread that crashed, or 0
  sigpipe,      \* "default" or "ignored"
  commands,     \* the pipe to gdb
  output,       \* the pipe from gdb
  buf,          \* what was read
  stale,        \* behind it are bytes of an earlier read, and no terminator
  thread_info, backtrace,
  gdb,          \* "none", "reading", "dead", "reaped"
  gdbWrites,    \* what it still has to print for the command it is at
  gdbKnows,     \* [python, frame]
  quits,        \* it read the last command
  expired,      \* the deadline passed
  crashed       \* gdb died of something else than its input

gdbVars == <<at, handle, sigpipe, commands, output, buf, stale, thread_info, backtrace, gdb, gdbWrites, gdbKnows, quits,
             expired, crashed>>
gdbSide == <<gdb, gdbWrites, gdbKnows, quits, crashed>>
said == <<stale, thread_info, backtrace>>

GdbInit ==
  /\ at = "call" /\ handle = 0 /\ sigpipe = "default"
  /\ commands = <<>> /\ output = <<>> /\ buf = <<>> /\ stale = FALSE /\ thread_info = <<>> /\ backtrace = <<>>
  /\ gdb = "none" /\ gdbWrites = <<>> /\ quits = FALSE /\ expired = FALSE /\ crashed = FALSE
  /\ gdbKnows \in [python : BOOLEAN, frame : Frames]

-----------------------------------------------------------------------------
(* gdb.                                                                    *)

Alive == gdb = "reading"

\* mutant: the pipe to gdb stays open
InputClosed_not == FALSE

InputClosed == at \in {"wait", "killed"}

PipeOpen == at \in Answers \cup {"close"}

GdbWrite ==
  /\ Alive /\ gdbWrites # <<>>
  /\ IF PipeOpen THEN output' = Append(output, Head(gdbWrites)) ELSE UNCHANGED output
  /\ gdbWrites' = Tail(gdbWrites)
  /\ UNCHANGED <<at, handle, sigpipe, commands, buf, said, gdb, gdbKnows, quits, expired, crashed>>

\* reads a command, the end of its input, or ends after the last command
GdbRead ==
  /\ Alive /\ gdbWrites = <<>>
  /\ IF quits \/ (commands = <<>> /\ InputClosed) THEN gdb' = "dead" /\ UNCHANGED <<commands, gdbWrites, quits>>
     ELSE /\ commands # <<>>
          /\ gdbWrites' = CASE Head(commands) = "preamble" -> IF gdbKnows.python THEN Ok ELSE <<"error", "nl">>
                            [] Head(commands) = "python" -> <<">", ">">> \o gdbKnows.frame \o Done
                            [] Head(commands) = "bt" -> Backtrace
          /\ commands' = Tail(commands)
          /\ quits' = (Head(commands) = "bt")
          /\ UNCHANGED gdb
  /\ UNCHANGED <<at, handle, sigpipe, output, buf, said, gdbKnows, expired, crashed>>

GdbDies ==
  /\ Alive
  /\ gdb' = "dead" /\ crashed' = TRUE
  /\ UNCHANGED <<at, handle, sigpipe, commands, output, buf, said, gdbWrites, gdbKnows, quits, expired>>

-----------------------------------------------------------------------------
(* The parent.                                                             *)

IgnoreSigpipe == "ignored"

\* print_crash_info() or debug_hung_child(), and generate_backtrace(); the pipes or the process may not be had
StartGdb(h, works) ==
  /\ at = "call"
  /\ handle' = h
  /\ IF works THEN at' = "drain" /\ gdb' = "reading" /\ gdbWrites' = <<"banner">> \o Prompt /\ sigpipe' = IgnoreSigpipe
     ELSE at' = "done" /\ UNCHANGED <<gdb, gdbWrites, sigpipe>>
  /\ UNCHANGED <<commands, output, buf, said, gdbKnows, quits, expired, crashed>>

\* the mark, and the terminator right behind it
Complete == ~stale /\ IsSuffix(Done, buf)

\* wait_for_more(): the deadline is one for the session, and what came may be left unread
Deadline ==
  /\ at \in Answers
  /\ at = "python" => ~Complete
  /\ expired' = TRUE /\ at' = "close"
  /\ UNCHANGED <<handle, sigpipe, commands, output, buf, said, gdbSide>>

Available == output # <<>> \/ ~Alive
Take(size) == SubSeq(output, 1, IF Len(output) < size THEN Len(output) ELSE size)
Rest(size) == SubSeq(output, Len(Take(size)) + 1, Len(output))

\* what the parent sends next; to a gdb that is gone it cannot
Send(command, next) ==
  /\ IF Alive THEN commands' = Append(commands, command) /\ at' = next
     ELSE UNCHANGED commands /\ at' = IF sigpipe = "ignored" THEN "close" ELSE "killed"
  /\ UNCHANGED <<handle, sigpipe, said, gdbSide, expired>>

Return ==
  /\ at' = "close"
  /\ UNCHANGED <<handle, sigpipe, commands, said, gdbSide, expired>>

Continue(next) ==
  /\ at' = next
  /\ UNCHANGED <<handle, sigpipe, commands, said, gdbSide, expired>>

\* mutant: the prompt is expected alone
PromptRead_alone(read) == read = Prompt

PromptRead(read) == IsSuffix(Prompt, read)

\* drains gdb's start: the prompt has to be the end of what one read returned
Drain ==
  /\ at = "drain" /\ Available
  /\ output' = Rest(BufferSize - 1) /\ buf' = Take(BufferSize - 1)
  /\ IF output = <<>> THEN Return
     ELSE IF PromptRead(Take(BufferSize - 1)) THEN Send("preamble", "reply") ELSE Continue("drain")

PythonWorks(answer) == handle # 0 /\ answer = Ok

Reply ==
  /\ at = "reply" /\ Available
  /\ output' = Rest(BufferSize - 1) /\ buf' = Take(BufferSize - 1)
  /\ IF output = <<>> THEN Return
     ELSE IF PythonWorks(Take(BufferSize - 1)) THEN Send("python", "skip") ELSE Send("bt", "splice")

\* the prompts for the lines of the Python command, where they are the start of what was read
Prompts(read) == CHOOSE n \in 0..Len(read) :
  /\ \A i \in 1..n : read[i] = ">"
  /\ n < Len(read) => read[n + 1] # ">"

\* what follows the prompts is moved to the front of the buffer, without the terminator
Skip ==
  /\ at = "skip" /\ Available
  /\ LET read == Take(BufferSize - 1)
         n == Prompts(read)
     IN  /\ output' = Rest(BufferSize - 1)
         /\ buf' = SubSeq(read, n + 1, Len(read))
         /\ stale' = (n > 0 /\ n < Len(read))
         /\ at' = IF read = <<>> THEN "close" ELSE IF n = Len(read) THEN "skip" ELSE "python"
  /\ UNCHANGED <<handle, sigpipe, commands, thread_info, backtrace, gdbSide, expired>>

\* the reply is complete, or is read on; the terminator of a reply that fills the buffer is written behind
\* the buffer, and what happens then is not defined
ReadPython ==
  /\ at = "python"
  /\ IF Complete
     THEN /\ thread_info' = SubSeq(buf, 1, Len(buf) - Len(Done))
          /\ IF Alive THEN commands' = Append(commands, "bt") /\ at' = "splice"
             ELSE UNCHANGED commands /\ at' = IF sigpipe = "ignored" THEN "close" ELSE "killed"
          /\ UNCHANGED <<output, buf, stale>>
     ELSE /\ Available
          /\ LET read == Take(BufferSize - Len(buf))
             IN  /\ output' = Rest(BufferSize - Len(buf)) /\ buf' = buf \o read
                 /\ stale' = (stale /\ read = <<>>)
                 /\ at' = CASE read = <<>> -> "close"
                            [] read # <<>> /\ Len(buf \o read) = BufferSize -> "undefined"
                            [] OTHER -> "python"
          /\ UNCHANGED <<commands, thread_info>>
  /\ UNCHANGED <<handle, sigpipe, backtrace, gdbSide, expired>>

\* mutant: one read is taken for all of it
SpliceNext_once == "close"

SpliceNext == "splice"

Splice ==
  /\ at = "splice" /\ Available
  /\ output' = Rest(BufferSize) /\ buf' = Take(BufferSize)
  /\ backtrace' = backtrace \o Take(BufferSize)
  /\ at' = IF output = <<>> THEN "close" ELSE SpliceNext
  /\ UNCHANGED <<handle, sigpipe, commands, stale, thread_info, gdbSide, expired>>

\* logs what there is and closes the pipes
CloseGdb ==
  /\ at = "close"
  /\ at' = "wait" /\ output' = <<>>
  /\ UNCHANGED <<handle, sigpipe, commands, buf, said, gdbSide, expired>>

WaitGdb ==
  /\ at = "wait" /\ gdb = "dead"
  /\ gdb' = "reaped" /\ at' = "done" /\ sigpipe' = "default"
  /\ UNCHANGED <<handle, commands, output, buf, said, gdbWrites, gdbKnows, quits, expired, crashed>>

ParentStep == Drain \/ Reply \/ Skip \/ ReadPython \/ Splice \/ CloseGdb \/ WaitGdb
GdbStep == GdbWrite \/ GdbRead

GdbNext ==
  \/ ParentStep \/ GdbStep \/ GdbDies \/ Deadline
  \/ \E h \in {0, 1}, works \in BOOLEAN : StartGdb(h, works)

\* as long as one of the two can go on, or the deadline is to come, something happens: the session has no loop
GdbGoesOn == ParentStep \/ GdbStep \/ Deadline
GdbSpec == GdbInit /\ [][GdbNext]_gdbVars /\ WF_gdbVars(GdbGoesOn)

-----------------------------------------------------------------------------
(* Properties.                                                             *)

\* What the log shows is what gdb said, however its output comes in pieces.  The information on the thread
\* is what gdb printed for it and nothing else: not the prompts before it, not the mark behind it, and none
\* without Python or for a child that hangs.  The backtrace ends with all that gdb prints for the last
\* command, if the deadline does not come and gdb does not die.
LoggedAsSaid ==
  /\ thread_info # <<>> => thread_info = gdbKnows.frame /\ gdbKnows.python /\ handle # 0
  /\ at = "done" /\ gdb = "reaped" /\ ~expired /\ ~crashed => IsSuffix(Backtrace, backtrace)

\* communicate_gdb_backtrace() and gdb wait for each other, until the deadline, in two cases only: the
\* prompt came in two pieces, or the reply to the Python commands came with the last of the prompts
\* before it, whose bytes the memmove() leaves where the terminator should be.
StalemateExplained ==
  /\ at \in Answers /\ Alive /\ output = <<>> /\ gdbWrites = <<>> /\ commands = <<>> /\ ~quits
  /\ at = "python" => ~Complete
  => (at = "drain" /\ buf = <<") ">>) \/ (at = "python" /\ stale)

\* The parent gets on with the tests: it has waited for gdb, whatever gdb did, and SIGPIPE is as before.
\* (Not after the terminator was written behind the buffer.)
GdbEnds ==
  (at \in Answers) ~> \/ at = "done" /\ gdb = "reaped" /\ sigpipe = "default"
                      \/ at = "undefined"
=============================================================================
