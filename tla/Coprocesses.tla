---------------------------- MODULE Coprocesses ----------------------------
(***************************************************************************)
(* get_encrypted_files (commands.cpp:523): git-crypt reads the list of     *)
(* tracked files from git ls-files and asks git check-attr for the         *)
(* attributes of each, through three pipes made and inherited as           *)
(* coprocess-unix.cpp and coprocess-win32.cpp do it.  A git before 1.8.5   *)
(* is asked with one git check-attr for every file.  Any of the processes  *)
(* may be descheduled at any point, and the children may die.              *)
(***************************************************************************)
EXTENDS Naturals, Sequences

CONSTANTS Count,     \* number of entries in the index
          Capacity   \* messages a pipe holds

ASSUME CountAssumption == Count \in Nat
ASSUME CapacityAssumption == Capacity \in Nat \ {0}

Entries == 1..Count
Procs == {"git-crypt", "ls-files", "check-attr"}
Children == Procs \ {"git-crypt"}

\* Pipes: what ls-files lists, and what check-attr is asked and answers.
Pipes == {"listing", "names", "answers"}

VARIABLES
  windows,    \* coprocess-win32.cpp
  old,        \* git is older than 1.8.5
  regular,    \* entries whose mode is a file's
  encrypted,  \* entries with the filter attribute of the key
  reader, writer, \* the processes that have an end of the pipe open
  pipe,       \* its contents
  proc,       \* state of a child
  written,    \* entries ls-files has written
  answer,     \* records check-attr has still to write
  pc,         \* next step of git-crypt
  at,         \* filename
  records,    \* records of the answer still to read
  filter,     \* filter_attr is the attribute of the key
  files,      \* the result
  exit

index == <<windows, old, regular, encrypted>>
ends == <<reader, writer>>
mine == <<at, records, filter, files>>
vars == <<index, ends, pipe, proc, written, answer, pc, mine, exit>>

Record == [name : Entries, attribute : {"filter", "diff"}]
Answer(f) == <<[name |-> f, attribute |-> "filter"], [name |-> f, attribute |-> "diff"]>>

TypeOK ==
  /\ windows \in BOOLEAN /\ old \in BOOLEAN
  /\ regular \subseteq Entries /\ encrypted \subseteq Entries
  /\ reader \in [Pipes -> SUBSET Procs] /\ writer \in [Pipes -> SUBSET Procs]
  /\ pipe["listing"] \in Seq(Entries) /\ pipe["names"] \in Seq(Entries)
  /\ pipe["answers"] \in Seq(Record) /\ \A p \in Pipes : Len(pipe[p]) <= Capacity
  /\ proc \in [Children -> {"none", "forked", "running", "ok", "failed"}]
  /\ written \in 0..Count /\ answer \in Seq(Record)
  /\ pc \in {"list", "attributes", "entry", "ask", "answer", "wait_one",
             "wait_list", "close", "wait_attributes", "done"}
  /\ at \in Entries \cup {0} /\ records \in 0..2 /\ filter \in BOOLEAN
  /\ files \subseteq Entries
  /\ exit \in {"none", "ok", "failed", "killed"}

Init ==
  /\ windows \in BOOLEAN /\ old \in BOOLEAN
  /\ regular \in SUBSET Entries /\ encrypted \in SUBSET Entries
  /\ reader = [p \in Pipes |-> {}] /\ writer = [p \in Pipes |-> {}]
  /\ pipe = [p \in Pipes |-> <<>>]
  /\ proc = [c \in Children |-> "none"] /\ written = 0 /\ answer = <<>>
  /\ pc = "list" /\ at = 0 /\ records = 0 /\ filter = FALSE /\ files = {}
  /\ exit = "none"

-----------------------------------------------------------------------------
(* Pipes.  A write to a pipe nobody reads is a SIGPIPE, on Windows it      *)
(* fails; a read from an empty pipe waits as long as anybody has its other *)
(* end open.                                                               *)

CanWrite(p) == reader[p] # {} /\ Len(pipe[p]) < Capacity
Write(p, m) == pipe' = [pipe EXCEPT ![p] = Append(@, m)]
SigPipe(p) == reader[p] = {}

CanRead(p) == pipe[p] # <<>>
Read(p) == pipe' = [pipe EXCEPT ![p] = Tail(@)]
EndOfFile(p) == pipe[p] = <<>> /\ writer[p] = {}

\* A process that ends closes all it has open.
CloseAll(q) ==
  /\ reader' = [p \in Pipes |-> reader[p] \ {q}]
  /\ writer' = [p \in Pipes |-> writer[p] \ {q}]

\* What git-crypt throws ends it, and it waits for nobody.
Quit(how) == pc' = "done" /\ exit' = how /\ CloseAll("git-crypt")

Ended(c) == proc[c] \in {"ok", "failed"}

-----------------------------------------------------------------------------
(* Coprocess::spawn.  A forked child has every end git-crypt has until it  *)
(* closes its own pipes' other ends, and keeps those of the other          *)
(* coprocess; git-crypt closes the ends that are the child's.  On Windows  *)
(* the ends of git-crypt are not inherited.                                *)

Inherit(end, c) == [p \in Pipes |-> IF "git-crypt" \in end[p] /\ ~windows THEN end[p] \cup {c}
                                    ELSE end[p]]
Shared(c) == IF windows THEN {"git-crypt"} ELSE {"git-crypt", c}
Forked(c) == proc' = [proc EXCEPT ![c] = IF windows THEN "running" ELSE "forked"]

\* Mutant of SpawnList: git-crypt keeps the writing end too.
SpawnListKeepsEnd ==
  /\ pc = "list"
  /\ reader' = [reader EXCEPT !["listing"] = Shared("ls-files")]
  /\ writer' = [writer EXCEPT !["listing"] = {"git-crypt", "ls-files"}]
  /\ Forked("ls-files")
  /\ pc' = "attributes"
  /\ UNCHANGED <<index, pipe, written, answer, mine, exit>>

SpawnList ==
  /\ pc = "list"
  /\ reader' = [reader EXCEPT !["listing"] = Shared("ls-files")]
  /\ writer' = [writer EXCEPT !["listing"] = {"ls-files"}]
  /\ Forked("ls-files")
  /\ pc' = "attributes"
  /\ UNCHANGED <<index, pipe, written, answer, mine, exit>>

SpawnAttributes ==
  /\ pc = "attributes" /\ ~old
  /\ reader' = [Inherit(reader, "check-attr") EXCEPT
                  !["names"] = {"check-attr"},
                  !["answers"] = Shared("check-attr")]
  /\ writer' = [Inherit(writer, "check-attr") EXCEPT
                  !["names"] = Shared("check-attr"),
                  !["answers"] = {"check-attr"}]
  /\ Forked("check-attr")
  /\ pc' = "entry"
  /\ UNCHANGED <<index, pipe, written, answer, mine, exit>>

AskEachTime ==
  /\ pc = "attributes" /\ old
  /\ pc' = "entry"
  /\ UNCHANGED <<index, ends, pipe, proc, written, answer, mine, exit>>

\* pipe, fork or CreateProcess fails, or git version, which is run in between.
SpawnFails ==
  /\ pc \in {"list", "attributes"} \/ (pc = "ask" /\ old)
  /\ Quit("failed")
  /\ UNCHANGED <<index, pipe, proc, written, answer, mine>>

ExecList ==
  /\ proc["ls-files"] = "forked"
  /\ reader' = [reader EXCEPT !["listing"] = @ \ {"ls-files"}]
  /\ proc' = [proc EXCEPT !["ls-files"] = "running"]
  /\ UNCHANGED <<index, writer, pipe, written, answer, pc, mine, exit>>

ExecAttributes ==
  /\ proc["check-attr"] = "forked"
  /\ writer' = [writer EXCEPT !["names"] = @ \ {"check-attr"}]
  /\ reader' = [reader EXCEPT !["answers"] = @ \ {"check-attr"}]
  /\ proc' = [proc EXCEPT !["check-attr"] = "running"]
  /\ UNCHANGED <<index, pipe, written, answer, pc, mine, exit>>

-----------------------------------------------------------------------------
(* The children: git ls-files -csz, and git check-attr --stdin -z filter   *)
(* diff, which writes two records for every name it reads.                 *)

End(c, how) == proc' = [proc EXCEPT ![c] = how] /\ CloseAll(c)

ListEntry ==
  /\ proc["ls-files"] = "running" /\ written < Count
  /\ CanWrite("listing")
  /\ Write("listing", written + 1)
  /\ written' = written + 1
  /\ UNCHANGED <<index, ends, proc, answer, pc, mine, exit>>

ListEnds ==
  /\ proc["ls-files"] = "running"
  /\ \/ written = Count /\ End("ls-files", "ok")
     \/ written < Count /\ SigPipe("listing") /\ End("ls-files", "failed")
  /\ UNCHANGED <<index, pipe, written, answer, pc, mine, exit>>

ReadName ==
  /\ proc["check-attr"] = "running" /\ answer = <<>>
  /\ CanRead("names")
  /\ answer' = Answer(Head(pipe["names"]))
  /\ Read("names")
  /\ UNCHANGED <<index, ends, proc, written, pc, mine, exit>>

WriteRecord ==
  /\ proc["check-attr"] = "running" /\ answer # <<>>
  /\ CanWrite("answers")
  /\ Write("answers", Head(answer))
  /\ answer' = Tail(answer)
  /\ UNCHANGED <<index, ends, proc, written, pc, mine, exit>>

AttributesEnd ==
  /\ proc["check-attr"] = "running"
  /\ \/ answer = <<>> /\ (old \/ EndOfFile("names")) /\ End("check-attr", "ok")
     \/ answer # <<>> /\ SigPipe("answers") /\ End("check-attr", "failed")
  /\ UNCHANGED <<index, pipe, written, answer, pc, mine, exit>>

\* It cannot be executed, fails or is killed.
Dies(c) ==
  /\ proc[c] \in {"forked", "running"}
  /\ End(c, "failed")
  /\ UNCHANGED <<index, pipe, written, answer, pc, mine, exit>>

-----------------------------------------------------------------------------
(* git-crypt: the loop of get_encrypted_files                              *)

\* A submodule or a symbolic link is not asked about.
TakeEntry ==
  /\ pc = "entry" /\ CanRead("listing")
  /\ at' = Head(pipe["listing"])
  /\ Read("listing")
  /\ pc' = IF at' \in regular THEN "ask" ELSE "entry"
  /\ UNCHANGED <<index, ends, proc, written, answer, records, filter, files, exit>>

\* Mutant of Ask: the second record of the answer is not waited for.
AskForOne ==
  /\ pc = "ask" /\ ~old /\ CanWrite("names")
  /\ Write("names", at)
  /\ records' = 1 /\ filter' = FALSE
  /\ pc' = "answer"
  /\ UNCHANGED <<index, ends, proc, written, answer, at, files, exit>>

Ask ==
  /\ pc = "ask" /\ ~old /\ CanWrite("names")
  /\ Write("names", at)
  /\ records' = 2 /\ filter' = FALSE
  /\ pc' = "answer"
  /\ UNCHANGED <<index, ends, proc, written, answer, at, files, exit>>

AskDies ==
  /\ pc = "ask" /\ ~old /\ ~windows /\ SigPipe("names")
  /\ Quit("killed")
  /\ UNCHANGED <<index, pipe, proc, written, answer, mine>>

\* What write_stdin throws sets the stream's badbit, and nobody looks at it.
AskInVain ==
  /\ pc = "ask" /\ ~old /\ windows /\ SigPipe("names")
  /\ records' = 2 /\ filter' = FALSE
  /\ pc' = "answer"
  /\ UNCHANGED <<index, ends, pipe, proc, written, answer, at, files, exit>>

\* git check-attr filter diff -- FILE
SpawnOne ==
  /\ pc = "ask" /\ old
  /\ reader' = [Inherit(reader, "check-attr") EXCEPT !["answers"] = Shared("check-attr")]
  /\ writer' = [Inherit(writer, "check-attr") EXCEPT !["answers"] = {"check-attr"}]
  /\ Forked("check-attr")
  /\ answer' = Answer(at)
  /\ records' = 2 /\ filter' = FALSE
  /\ pc' = "answer"
  /\ UNCHANGED <<index, pipe, written, at, files, exit>>

\* The name in the record is read and not looked at.
ReadRecord ==
  /\ pc = "answer" /\ records > 0 /\ CanRead("answers")
  /\ LET r == Head(pipe["answers"])
     IN filter' = IF r.attribute = "filter" THEN r.name \in encrypted ELSE filter
  /\ Read("answers")
  /\ records' = records - 1
  /\ UNCHANGED <<index, ends, proc, written, answer, pc, at, files, exit>>

\* Mutant of MissRecord: the loop over the records does not end.
MissRecordAgain ==
  /\ pc = "answer" /\ EndOfFile("answers")
  /\ records' = records - 1
  /\ UNCHANGED <<index, ends, pipe, proc, written, answer, pc, at, filter, files, exit>>

\* At the end of the file getline leaves the strings empty: no attribute.
MissRecord ==
  /\ pc = "answer" /\ ~old /\ records > 0 /\ EndOfFile("answers")
  /\ records' = records - 1
  /\ UNCHANGED <<index, ends, pipe, proc, written, answer, pc, at, filter, files, exit>>

TakeFile ==
  /\ pc = "answer" /\ ~old /\ records = 0
  /\ files' = IF filter THEN files \cup {at} ELSE files
  /\ pc' = "entry"
  /\ UNCHANGED <<index, ends, pipe, proc, written, answer, at, records, filter, exit>>

\* exec_command reads to the end, and waits.
EndOfAnswer ==
  /\ pc = "answer" /\ old /\ EndOfFile("answers")
  /\ pc' = "wait_one"
  /\ UNCHANGED <<index, ends, pipe, proc, written, answer, mine, exit>>

\* Mutant of WaitOne: the status is not looked at.
WaitOneIgnoring ==
  /\ pc = "wait_one" /\ Ended("check-attr")
  /\ pc' = "entry"
  /\ files' = IF filter THEN files \cup {at} ELSE files
  /\ proc' = [proc EXCEPT !["check-attr"] = "none"] /\ answer' = <<>> /\ records' = 0
  /\ reader' = [reader EXCEPT !["answers"] = {}]
  /\ UNCHANGED <<index, writer, pipe, written, at, filter, exit>>

WaitOne ==
  /\ pc = "wait_one" /\ Ended("check-attr")
  /\ IF proc["check-attr"] = "ok"
     THEN /\ pc' = "entry"
          /\ files' = IF filter THEN files \cup {at} ELSE files
          /\ proc' = [proc EXCEPT !["check-attr"] = "none"] /\ answer' = <<>> /\ records' = 0
          /\ reader' = [reader EXCEPT !["answers"] = {}]
          /\ UNCHANGED <<writer, exit>>
     ELSE Quit("failed") /\ UNCHANGED <<files, proc, answer, records>>
  /\ UNCHANGED <<index, pipe, written, at, filter>>

EndOfList ==
  /\ pc = "entry" /\ EndOfFile("listing")
  /\ pc' = "wait_list"
  /\ UNCHANGED <<index, ends, pipe, proc, written, answer, mine, exit>>

\* Mutant of WaitList: the status is not looked at.
WaitListIgnoring ==
  /\ pc = "wait_list" /\ Ended("ls-files")
  /\ IF old THEN Quit("ok") ELSE pc' = "close" /\ UNCHANGED <<ends, exit>>
  /\ UNCHANGED <<index, pipe, proc, written, answer, mine>>

\* A status that is not 0 is thrown as an Error.
WaitList ==
  /\ pc = "wait_list" /\ Ended("ls-files")
  /\ IF proc["ls-files"] = "ok" /\ ~old THEN pc' = "close" /\ UNCHANGED <<ends, exit>>
     ELSE Quit(IF proc["ls-files"] = "ok" THEN "ok" ELSE "failed")
  /\ UNCHANGED <<index, pipe, proc, written, answer, mine>>

CloseStdin ==
  /\ pc = "close"
  /\ writer' = [writer EXCEPT !["names"] = @ \ {"git-crypt"}]
  /\ pc' = "wait_attributes"
  /\ UNCHANGED <<index, reader, pipe, proc, written, answer, mine, exit>>

WaitAttributes ==
  /\ pc = "wait_attributes" /\ Ended("check-attr")
  /\ Quit(IF proc["check-attr"] = "ok" THEN "ok" ELSE "failed")
  /\ UNCHANGED <<index, pipe, proc, written, answer, mine>>

-----------------------------------------------------------------------------
GitCrypt ==
  \/ SpawnList \/ SpawnAttributes \/ AskEachTime \/ SpawnFails \/ TakeEntry
  \/ Ask \/ AskDies \/ AskInVain \/ ReadRecord \/ MissRecord \/ TakeFile
  \/ SpawnOne \/ EndOfAnswer \/ WaitOne \/ EndOfList \/ WaitList \/ CloseStdin \/ WaitAttributes
LsFiles == ExecList \/ ListEntry \/ ListEnds
CheckAttr == ExecAttributes \/ ReadName \/ WriteRecord \/ AttributesEnd

Next == GitCrypt \/ LsFiles \/ CheckAttr \/ \E c \in Children : Dies(c)

Spec == Init /\ [][Next]_vars

\* The system runs every process that can run.
FairSpec == Spec /\ WF_vars(GitCrypt) /\ WF_vars(LsFiles) /\ WF_vars(CheckAttr)

-----------------------------------------------------------------------------
(* Properties.                                                             *)

\* The list of files returned is the whole list, although a child that died is
\* indistinguishable from one that had nothing to say until it is waited for.
ListComplete == exit = "ok" => files = regular \cap encrypted

\* A record about another file is never taken for the answer, although the
\* name in it is not looked at.
RecordsMatch ==
  \A i \in 1..Len(pipe["answers"]) :
    pc = "answer" /\ pipe["answers"][i].name = at

\* No process waits for ever, whatever dies: not git-crypt, and not the
\* children it leaves behind.
AllEnd == <>(pc = "done" /\ \A c \in Children : proc[c] # "none" => Ended(c))
=============================================================================
