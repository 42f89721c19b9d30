----------------------------- MODULE LogStream -----------------------------
(***************************************************************************)
(* How the attached up and logs of bin/podman_compose.py print what        *)
(* containers write: Podman.run starts podman with two pipes, a task of    *)
(* _format_stream for each turns them into lines with a prefix, all on one *)
(* standard output, and nobody waits for these tasks.                      *)
(*                                                                         *)
(* The pipes and asyncio's StreamReader are external: they are modelled as *)
(* the code uses them.  A reader may be suspended after each chunk.        *)
(***************************************************************************)
EXTENDS Integers, FiniteSets, SequencesExt

CONSTANTS
  Streams,    \* pipes
  Owner,      \* Owner[s]: the podman process that writes s
  Outputs,    \* what the processes may write
  Limit,      \* limit of a StreamReader
  PipeSize    \* bytes a pipe holds

Processes == {Owner[s] : s \in Streams}

\* Bytes: "a"; "m" and "t", which are one character together; "x", which is
\* no part of any; and the end of a line.
Bytes == {"a", "m", "t", "x", "\n"}

ASSUME LogStreamAssumption ==
  /\ Outputs \subseteq [Streams -> Seq(Bytes)]
  /\ Limit \in Nat \ {0} /\ PipeSize \in Nat \ {0}

VARIABLES
  output,   \* what the processes write; never changes
  written,  \* written[s]: how much of output[s] has been written
  pipe,     \* pipe[s]: what is in the pipe
  exited,   \* processes that have exited
  buffer,   \* buffer[s]: what the StreamReader holds
  eof,      \* streams whose readers have been fed the end of file
  reader,   \* reader[s]: where its _format_stream is
  ongoing,  \* ongoing[s]: line_ongoing
  sink,     \* standard output: <<stream, what>>
  returned  \* processes whose Podman.run has returned

vars == <<output, written, pipe, exited, buffer, eof, reader, ongoing, sink,
          returned>>

Init ==
  /\ output \in Outputs
  /\ written = [s \in Streams |-> 0]
  /\ pipe = [s \in Streams |-> <<>>]
  /\ exited = {}
  /\ buffer = [s \in Streams |-> <<>>]
  /\ eof = {}
  /\ reader = [s \in Streams |-> "reading"]
  /\ ongoing = [s \in Streams |-> FALSE]
  /\ sink = <<>>
  /\ returned = {}

-----------------------------------------------------------------------------
(* Processes, pipes and what asyncio does with them.                       *)

Write(s) ==
  /\ written[s] < Len(output[s]) /\ Len(pipe[s]) < PipeSize
  /\ written' = [written EXCEPT ![s] = @ + 1]
  /\ pipe' = [pipe EXCEPT ![s] = Append(@, output[s][written[s] + 1])]
  /\ UNCHANGED <<output, exited, buffer, eof, reader, ongoing, sink, returned>>

ProcessExits(p) ==
  /\ p \notin exited
  /\ \A s \in Streams : Owner[s] = p => written[s] = Len(output[s])
  /\ exited' = exited \cup {p}
  /\ UNCHANGED <<output, written, pipe, buffer, eof, reader, ongoing, sink, returned>>

\* Reading from the pipe is suspended while the buffer holds more than twice
\* the limit.
Feed(s) ==
  /\ Len(buffer[s]) <= 2 * Limit
  /\ \E n \in 1..Len(pipe[s]) :
       /\ buffer' = [buffer EXCEPT ![s] = @ \o SubSeq(pipe[s], 1, n)]
       /\ pipe' = [pipe EXCEPT ![s] = SubSeq(@, n + 1, Len(@))]
  /\ UNCHANGED <<output, written, exited, eof, reader, ongoing, sink, returned>>

FeedEof(s) ==
  /\ Owner[s] \in exited /\ pipe[s] = <<>> /\ s \notin eof
  /\ eof' = eof \cup {s}
  /\ UNCHANGED <<output, written, pipe, exited, buffer, reader, ongoing, sink, returned>>

-----------------------------------------------------------------------------
(* _format_stream.                                                         *)

Ends(b) == {n \in DOMAIN b : b[n] = "\n"}
LineEnd(b) == CHOOSE n \in Ends(b) : \A m \in Ends(b) : n <= m

\* A bug to catch: only the text up to the limit is waited for.
ReadableShort(s) ==
  LET b == buffer[s] IN
  IF Ends(b) # {} THEN {LineEnd(b)} ELSE IF b # <<>> THEN {Len(b)} ELSE {}

\* A bug to catch: overlong lines are left to wait for their ends.
ReadableWhole(s) ==
  LET b == buffer[s] IN
  IF Ends(b) # {} THEN {LineEnd(b)} ELSE IF s \in eof THEN {Len(b)} ELSE {}

\* _readchunk: how much it takes from the buffer, nothing while it waits.
\* readuntil gives a line with its end; a line beyond the limit is read
\* without it, and a longer one as far as it has come; so is the last one.
Readable(s) ==
  LET b == buffer[s] IN
  IF Ends(b) # {} THEN {IF LineEnd(b) - 1 > Limit THEN LineEnd(b) - 1 ELSE LineEnd(b)}
  ELSE IF Len(b) > Limit \/ s \in eof THEN {Len(b)} ELSE {}

Decodable(text) ==
  \A n \in DOMAIN text :
    /\ text[n] # "x"
    /\ text[n] = "m" => n < Len(text) /\ text[n + 1] = "t"
    /\ text[n] = "t" => n > 1 /\ text[n - 1] = "m"

\* What print writes for one part.
Printed(s, part, nl) ==
  (IF ongoing[s] THEN <<>> ELSE << <<s, "prefix">> >>)
    \o [n \in DOMAIN part |-> <<s, part[n]>>]
    \o (IF nl THEN << <<s, "\n">> >> ELSE <<>>)

\* A bug to catch: the line stays ongoing.
OngoingAfterSticky(s, part, nl) == ongoing[s] \/ (part # <<>> /\ ~ nl)

OngoingAfter(s, part, nl) == ~ nl /\ (part # <<>> \/ ongoing[s])

\* A bug to catch: what is ongoing is left so.
LastEolNone(s, goesOn) == <<>>

\* The last line gets its end.
LastEol(s, goesOn) == IF goesOn THEN << <<s, "\n">> >> ELSE <<>>

\* The parts of a chunk are its text and, behind an end of line, nothing.
\* Bytes that cannot be decoded end the task.  At the end of the file the
\* loop ends without waiting.
Format(s) ==
  /\ reader[s] = "reading" /\ buffer[s] # <<>>
  /\ \E n \in Readable(s) :
       LET chunk == SubSeq(buffer[s], 1, n)
           nl == Last(chunk) = "\n"
           part == IF nl THEN Front(chunk) ELSE chunk
           goesOn == OngoingAfter(s, part, nl)
           atEof == s \in eof /\ n = Len(buffer[s])
       IN /\ buffer' = [buffer EXCEPT ![s] = SubSeq(@, n + 1, Len(@))]
          /\ IF ~ Decodable(part)
             THEN reader' = [reader EXCEPT ![s] = "dead"] /\ UNCHANGED <<ongoing, sink>>
             ELSE /\ sink' = sink \o Printed(s, part, nl)
                              \o IF atEof THEN LastEol(s, goesOn) ELSE <<>>
                  /\ ongoing' = [ongoing EXCEPT ![s] = goesOn]
                  /\ reader' = IF atEof THEN [reader EXCEPT ![s] = "done"] ELSE reader
  /\ UNCHANGED <<output, written, pipe, exited, eof, returned>>

\* The end of the file comes while the reader waits.
FormatEnds(s) ==
  /\ reader[s] = "reading" /\ s \in eof /\ buffer[s] = <<>>
  /\ reader' = [reader EXCEPT ![s] = "done"]
  /\ sink' = sink \o LastEol(s, ongoing[s])
  /\ UNCHANGED <<output, written, pipe, exited, buffer, eof, ongoing, returned>>

-----------------------------------------------------------------------------
(* Podman.run: p.wait() does not wait for the readers.                     *)

RunReturns(p) ==
  /\ p \in exited \ returned
  /\ returned' = returned \cup {p}
  /\ UNCHANGED <<output, written, pipe, exited, buffer, eof, reader, ongoing, sink>>

\* The program ends, asyncio.run cancels the tasks that are left.
ProgramEnds ==
  /\ returned = Processes
  /\ \E s \in Streams : reader[s] = "reading"
  /\ reader' = [s \in Streams |-> IF reader[s] = "reading" THEN "cancelled" ELSE reader[s]]
  /\ UNCHANGED <<output, written, pipe, exited, buffer, eof, ongoing, sink, returned>>

StreamSteps(s) == Write(s) \/ Feed(s) \/ FeedEof(s) \/ Format(s) \/ FormatEnds(s)

ProcessSteps(p) == ProcessExits(p) \/ RunReturns(p)

Next ==
  \/ \E s \in Streams : StreamSteps(s)
  \/ \E p \in Processes : ProcessSteps(p)
  \/ ProgramEnds

Spec == Init /\ [][Next]_vars

\* Processes run, the kernel fills pipes, the event loop serves every task
\* that is ready.
FairSpec ==
  /\ Spec
  /\ \A s \in Streams : WF_vars(StreamSteps(s))
  /\ \A p \in Processes : WF_vars(ProcessSteps(p))

-----------------------------------------------------------------------------
(* Properties.                                                             *)

\* The members of T among entries, in their order: SelectSeq, which takes an
\* operator and so is beyond the proofs.
KeptTo(entries, T) ==
  LET kept[n \in 0..Len(entries)] ==
        IF n = 0 THEN <<>>
        ELSE IF entries[n] \in T THEN Append(kept[n - 1], entries[n]) ELSE kept[n - 1]
  IN kept
Kept(entries, T) == KeptTo(entries, T)[Len(entries)]

\* What was printed of s, and of this what the container wrote.
Shown(s) == Kept(sink, {s} \X (Bytes \cup {"prefix"}))
Text(s) == LET bytes == Kept(sink, {s} \X Bytes) IN [n \in DOMAIN bytes |-> bytes[n][2]]

Unfinished(text) == text # <<>> /\ Last(text) # "\n"

\* The lines of a stream, without their ends.
Lines(text) ==
  LET Cuts == {0, Len(text) + 1} \cup Ends(text)
  IN {SubSeq(text, x[1] + 1, x[2] - 1) :
        x \in {y \in Cuts \X Cuts : y[1] < y[2] /\ ~ \E k \in Cuts : y[1] < k /\ k < y[2]}}

Overlong == \E s \in Streams : \E l \in Lines(output[s]) : Len(l) > Limit

\* However pipes are filled and lines are cut at the limit, what is printed
\* of a stream is what was written, in order and nothing twice, as far as the
\* reader has come; a reader that ends by itself has printed it all, the last
\* line with an end.  A reader dies only of bytes that are no text, or of a
\* character that the limit has cut in two.
NothingLost ==
  \A s \in Streams :
    CASE reader[s] \in {"reading", "cancelled"} ->
           Text(s) \o buffer[s] \o pipe[s] = SubSeq(output[s], 1, written[s])
      [] reader[s] = "done" ->
           Text(s) = output[s] \o IF Unfinished(output[s]) THEN <<"\n">> ELSE <<>>
      [] reader[s] = "dead" ->
           /\ IsPrefix(Text(s), output[s])
           /\ Overlong \/ \E l \in Lines(output[s]) : ~ Decodable(l)

\* Every line has the prefix of its container exactly once, at its start,
\* also when it was printed in pieces.
PrefixPerLine ==
  \A s \in Streams :
    \A n \in DOMAIN Shown(s) :
      (Shown(s)[n][2] = "prefix") <=> (n = 1 \/ Shown(s)[n - 1][2] = "\n")

\* Lines of different streams do not run into each other on the standard
\* output they share, unless one of them is longer than the limit.
LinesApart ==
  Overlong \/ \A n \in DOMAIN sink :
    n > 1 /\ sink[n - 1][1] # sink[n][1] => sink[n - 1][2] = "\n"

\* Podman is never blocked for good on a pipe nobody reads, so up and logs
\* end with their containers, however much these write, as long as it is
\* text whose lines keep to the limit, or overlong lines that are cut between
\* characters.
RunsReturn ==
  <>(returned = Processes) \/ <>(\E s \in Streams : reader[s] = "dead")
=============================================================================
