----------------------------- MODULE FhStream -----------------------------
(***************************************************************************)
(* The streams git-crypt talks to a child process with: ofhbuf before the  *)
(* pipe to its standard input and ifhbuf behind the pipe from its standard *)
(* output (fhstream.cpp), as Coprocess and exec_command of util.cpp use    *)
(* them.  The child hands on the bytes it reads, so that every byte can be *)
(* followed through both.  The sizes of the code, 8192 and 4096, are       *)
(* constants.                                                              *)
(***************************************************************************)
EXTENDS Integers, Sequences

CONSTANTS MaxPut,       \* bound: bytes put
          BufferSize,   \* default_buffer_size of both buffers
          Direct,       \* from here on the buffer is passed by
          Capacity      \* bytes a pipe holds

ASSUME SizeAssumption == /\ MaxPut \in Nat /\ BufferSize \in Nat \ {0}
                         /\ Direct \in Nat \ {0} /\ Capacity \in Nat \ {0}

VARIABLES
  offered,   \* bytes given to the ostream so far; the i-th is the number i
  obuf,      \* ofhbuf: from pbase to pptr
  writing,   \* what is left of p or s in the write loop that runs
  string,    \* the string that is written when the buffer is flushed
  good,      \* the ostream's state
  input,     \* the pipe to the child
  held,      \* what the child has read and not yet written
  output,    \* the pipe from the child
  nudged,    \* a write of zero bytes is in that pipe
  ibuf,      \* ifhbuf: from gptr to egptr
  wanted,    \* n of the xsgetn that runs
  got,       \* bytes taken from the istream
  open,      \* is the writing end of the child's input open?
  eof,       \* read_stdout has returned 0
  child,     \* its state
  ignored,   \* is SIGPIPE ignored, or the system one without it?
  lost,      \* history: has a write failed?
  pc, exit

ostream == <<obuf, writing, string, good, lost>>
istream == <<ibuf, wanted, got, eof>>
theirs == <<held, output, child, nudged>>
vars == <<offered, ostream, input, theirs, istream, open, ignored, pc, exit>>

Min2(a, b) == IF a < b THEN a ELSE b
Bytes(first, n) == [i \in 1..n |-> first + i]
Drop(s, k) == SubSeq(s, k + 1, Len(s))

Init ==
  /\ offered = 0 /\ obuf = <<>> /\ writing = <<>> /\ string = <<>> /\ good = TRUE
  /\ input = <<>> /\ held = <<>> /\ output = <<>> /\ nudged = FALSE
  /\ ibuf = <<>> /\ wanted = 0 /\ got = <<>>
  /\ open = TRUE /\ eof = FALSE /\ child = "running"
  /\ ignored \in BOOLEAN /\ lost = FALSE
  /\ pc = "idle" /\ exit = "none"

-----------------------------------------------------------------------------
(* ofhbuf.  One byte of the buffer is kept for the character overflow is   *)
(* called with.                                                            *)

\* Mutant of Room: the byte is not kept.
RoomToTheEnd == BufferSize - Len(obuf)

Room == BufferSize - 1 - Len(obuf)

PutChar ==
  /\ pc = "idle" /\ open /\ good /\ offered < MaxPut
  /\ offered' = offered + 1
  /\ IF Room = 0
     THEN writing' = Append(obuf, offered') /\ pc' = "overflow" /\ UNCHANGED obuf
     ELSE obuf' = Append(obuf, offered') /\ UNCHANGED <<writing, pc>>
  /\ UNCHANGED <<string, good, lost, input, theirs, istream, open, ignored, exit>>

\* A string goes to the buffer when it is short and fits; otherwise the buffer
\* is flushed and the string written after it.
PutString(n) ==
  /\ pc = "idle" /\ open /\ good /\ offered + n <= MaxPut
  /\ offered' = offered + n
  /\ LET s == Bytes(offered, n)
     IN \/ /\ n < Min2(Direct, Room)
           /\ obuf' = obuf \o s /\ UNCHANGED <<writing, string, pc>>
        \/ /\ n >= Min2(Direct, Room) /\ obuf # <<>>
           /\ writing' = obuf /\ string' = s /\ pc' = "flush" /\ UNCHANGED obuf
        \/ /\ n >= Min2(Direct, Room) /\ obuf = <<>>
           /\ writing' = s /\ pc' = "direct" /\ UNCHANGED <<obuf, string>>
  /\ UNCHANGED <<good, lost, input, theirs, istream, open, ignored, exit>>

\* An ostream that is bad does nothing, and nobody asks it.
PutInVain ==
  /\ pc = "idle" /\ open /\ ~good /\ offered < MaxPut
  /\ offered' = offered + 1
  /\ UNCHANGED <<ostream, input, theirs, istream, open, ignored, pc, exit>>

\* ostream::flush; the library may call sync on a stream that is bad, too.
Sync ==
  /\ pc = "idle" /\ open
  /\ writing' = obuf /\ pc' = "overflow"
  /\ UNCHANGED <<offered, obuf, string, good, lost, input, theirs, istream, open, ignored, exit>>

\* write_stdin takes as much as it pleases.
WriteSome(k) ==
  /\ writing # <<>> /\ child = "running" /\ Len(input) + k <= Capacity
  /\ input' = input \o SubSeq(writing, 1, k)
  /\ writing' = Drop(writing, k)
  /\ UNCHANGED <<offered, obuf, string, good, lost, theirs, istream, open, ignored, pc, exit>>

\* Mutant of Written: the buffer is not reset.
WrittenNoReset ==
  /\ writing = <<>> /\ pc \in {"overflow", "flush", "direct"}
  /\ IF pc = "flush" THEN writing' = string /\ string' = <<>> /\ pc' = "direct"
     ELSE pc' = "idle" /\ UNCHANGED <<writing, string>>
  /\ UNCHANGED <<offered, obuf, good, lost, input, theirs, istream, open, ignored, exit>>

\* The loop is over: reset_buffer, and the string that waited.
Written ==
  /\ writing = <<>> /\ pc \in {"overflow", "flush", "direct"}
  /\ obuf' = IF pc = "direct" THEN obuf ELSE <<>>
  /\ IF pc = "flush" THEN writing' = string /\ string' = <<>> /\ pc' = "direct"
     ELSE pc' = "idle" /\ UNCHANGED <<writing, string>>
  /\ UNCHANGED <<offered, good, lost, input, theirs, istream, open, ignored, exit>>

\* What write_stdin throws, the ostream catches; the buffer is as it was.
WriteFails ==
  /\ writing # <<>> /\ pc # "destroy" /\ child # "running" /\ ignored
  /\ writing' = <<>> /\ string' = <<>> /\ good' = FALSE /\ lost' = TRUE /\ pc' = "idle"
  /\ UNCHANGED <<offered, obuf, input, theirs, istream, open, ignored, exit>>

\* A write to a pipe nobody reads is a SIGPIPE.
Killed ==
  /\ writing # <<>> /\ child # "running" /\ ~ignored
  /\ pc' = "done" /\ exit' = "killed" /\ lost' = TRUE
  /\ writing' = <<>> /\ open' = FALSE
  /\ UNCHANGED <<offered, obuf, string, good, input, theirs, istream, ignored>>

-----------------------------------------------------------------------------
(* Coprocess::close_stdin: the destructor of ofhbuf writes the buffer, the *)
(* one a write failed on too, and ignores what it throws.                  *)

CloseStdin ==
  /\ pc = "idle" /\ open
  /\ writing' = obuf /\ pc' = "destroy"
  /\ UNCHANGED <<offered, obuf, string, good, lost, input, theirs, istream, open, ignored, exit>>

Destroyed ==
  /\ pc = "destroy"
  /\ \/ writing = <<>> /\ UNCHANGED lost
     \/ writing # <<>> /\ child # "running" /\ ignored /\ lost' = TRUE
  /\ obuf' = <<>> /\ writing' = <<>>
  /\ open' = FALSE /\ pc' = "idle"
  /\ UNCHANGED <<offered, string, good, input, theirs, istream, ignored, exit>>

-----------------------------------------------------------------------------
(* ifhbuf.  The bytes kept for putback are never asked for.                *)

\* How much can be read at once: not more than is there.
Readable(k) == k <= Len(output)

\* underflow: only when the buffer is used up.
Underflow(k) ==
  /\ pc \in {"get", "gets"} /\ ibuf = <<>> /\ k <= BufferSize /\ Readable(k)
  /\ ibuf' = SubSeq(output, 1, k) /\ output' = Drop(output, k)
  /\ UNCHANGED <<offered, ostream, input, held, child, nudged, wanted, got, eof, open, ignored, pc, exit>>

Get ==
  /\ pc = "idle" /\ ~eof
  /\ pc' = "get" /\ wanted' = 1
  /\ UNCHANGED <<offered, ostream, input, theirs, ibuf, got, eof, open, ignored, exit>>

\* xsgetn: what is in the buffer first, and then either through the buffer
\* (streambuf::xsgetn) or past it.
GetString(n) ==
  /\ pc = "idle" /\ ~eof
  /\ IF n < Len(ibuf) + Direct
     THEN wanted' = n /\ pc' = "gets" /\ UNCHANGED <<ibuf, got>>
     ELSE /\ got' = got \o ibuf /\ ibuf' = <<>>
          /\ wanted' = n - Len(ibuf) /\ pc' = "direct_read"
  /\ UNCHANGED <<offered, ostream, input, theirs, eof, open, ignored, exit>>

Take ==
  /\ pc \in {"get", "gets"} /\ ibuf # <<>>
  /\ LET k == Min2(wanted, Len(ibuf))
     IN /\ got' = got \o SubSeq(ibuf, 1, k) /\ ibuf' = Drop(ibuf, k)
        /\ wanted' = wanted - k
  /\ pc' = IF wanted' = 0 THEN "idle" ELSE pc
  /\ UNCHANGED <<offered, ostream, input, theirs, eof, open, ignored, exit>>

DirectRead(k) ==
  /\ pc = "direct_read" /\ k <= wanted /\ Readable(k)
  /\ got' = got \o SubSeq(output, 1, k) /\ output' = Drop(output, k)
  /\ wanted' = wanted - k
  /\ pc' = IF wanted' = 0 THEN "idle" ELSE pc
  /\ UNCHANGED <<offered, ostream, input, held, child, nudged, ibuf, eof, open, ignored, exit>>

\* In read_stdout, which has nothing for its caller yet.
Reading == \/ pc \in {"get", "gets"} /\ ibuf = <<>>
           \/ pc = "direct_read"

\* Mutant of ReadNothing: the loop of read_stdout is left.
ReadNothingEnds ==
  /\ Reading /\ nudged
  /\ nudged' = FALSE /\ eof' = TRUE /\ wanted' = 0 /\ pc' = "idle"
  /\ UNCHANGED <<offered, ostream, input, held, output, child, ibuf, got, open, ignored, exit>>

\* ReadFile returns no bytes, and is called again.
ReadNothing ==
  /\ Reading /\ nudged
  /\ nudged' = FALSE
  /\ UNCHANGED <<offered, ostream, input, held, output, child, istream, open, ignored, pc, exit>>

\* read_stdout returns 0 when the child has ended and the pipe is empty.
EndOfFile ==
  /\ Reading /\ output = <<>> /\ child # "running"
  /\ eof' = TRUE /\ wanted' = 0 /\ pc' = "idle"
  /\ UNCHANGED <<offered, ostream, input, theirs, ibuf, got, open, ignored, exit>>

\* exec_command and get_encrypted_files read to the end, and look at the status
\* of the child, not at the state of the streams.
Wait ==
  /\ pc = "idle" /\ ~open /\ eof /\ child # "running"
  /\ pc' = "done" /\ exit' = child
  /\ UNCHANGED <<offered, ostream, input, theirs, istream, open, ignored>>

-----------------------------------------------------------------------------
(* The child.                                                              *)

ChildReads(k) ==
  /\ child = "running" /\ held = <<>> /\ k <= Len(input)
  /\ held' = SubSeq(input, 1, k) /\ input' = Drop(input, k)
  /\ UNCHANGED <<offered, ostream, output, child, nudged, istream, open, ignored, pc, exit>>

ChildWrites(k) ==
  /\ child = "running" /\ k <= Len(held) /\ Len(output) + k <= Capacity
  /\ output' = output \o SubSeq(held, 1, k) /\ held' = Drop(held, k)
  /\ UNCHANGED <<offered, ostream, input, child, nudged, istream, open, ignored, pc, exit>>

\* Windows hands on a write of zero bytes; SIGPIPE is what it has not.  Where it is
\* among the bytes in the pipe is left open.
ChildWritesNothing ==
  /\ child = "running" /\ ignored /\ ~nudged
  /\ nudged' = TRUE
  /\ UNCHANGED <<offered, ostream, input, held, output, child, istream, open, ignored, pc, exit>>

\* It ends well when it has read its input to the end.
ChildEnds(how) ==
  /\ child = "running" /\ pc # "done"
  /\ how = "ok" => ~open /\ input = <<>> /\ held = <<>>
  /\ child' = how
  /\ UNCHANGED <<offered, ostream, input, held, output, nudged, istream, open, ignored, pc, exit>>

-----------------------------------------------------------------------------
Length == 1..(BufferSize + 1)

Next ==
  \/ PutChar \/ PutInVain \/ Sync \/ Written \/ WriteFails \/ Killed \/ CloseStdin \/ Destroyed
  \/ \E n \in Length : PutString(n) \/ GetString(n)
  \/ \E k \in DOMAIN writing : WriteSome(k)
  \/ \E k \in DOMAIN output : Underflow(k) \/ DirectRead(k)
  \/ Get \/ Take \/ ReadNothing \/ EndOfFile \/ Wait \/ ChildWritesNothing
  \/ \E k \in DOMAIN input : ChildReads(k)
  \/ \E k \in DOMAIN held : ChildWrites(k)
  \/ \E how \in {"ok", "failed"} : ChildEnds(how)

Spec == Init /\ [][Next]_vars

-----------------------------------------------------------------------------
(* Properties.                                                             *)

TypeOK ==
  /\ offered \in 0..MaxPut
  /\ \A s \in {obuf, writing, string, input, held, output, ibuf, got} :
       s \in Seq(1..MaxPut)
  /\ Len(obuf) <= BufferSize - 1 /\ Len(ibuf) <= BufferSize
  /\ Len(input) <= Capacity /\ Len(output) <= Capacity
  /\ good \in BOOLEAN /\ open \in BOOLEAN /\ eof \in BOOLEAN
  /\ ignored \in BOOLEAN /\ lost \in BOOLEAN /\ nudged \in BOOLEAN
  /\ wanted \in Nat /\ child \in {"running", "ok", "failed"}
  /\ pc \in {"idle", "overflow", "flush", "direct", "destroy",
             "get", "gets", "direct_read", "done"}
  /\ exit \in {"none", "ok", "failed", "killed"}

\* No error of either stream is ever looked at: the exit status of the child
\* alone must tell that it got all there was, and git-crypt all its answer
\* (util.cpp:44-61).
StatusTellsAll == exit = "ok" => got = Bytes(0, offered)

\* The two streams and the child in between are one stream.
Pipe == INSTANCE BytePipe WITH
          sent <- offered, received <- got, ended <- eof, closed <- ~open,
          broken <- lost \/ child = "failed"
ImplementsPipe == Pipe!Spec
=============================================================================
