------------------------- MODULE CoprocessesProofs -------------------------
(***************************************************************************)
(* The list get_encrypted_files returns is whole, and no answer of git     *)
(* check-attr is taken for another's, for any number of files and pipes of *)
(* any capacity, on either platform and with either kind of git, whichever *)
(* child dies when.                                                        *)
(***************************************************************************)
EXTENDS Coprocesses, SequenceTheorems, TLAPS

Alive(c) == proc[c] \in {"forked", "running"}

\* Ends that are open, and processes that were started.
Holds ==
  /\ Alive("ls-files") => "ls-files" \in writer["listing"]
  /\ Alive("check-attr") => "check-attr" \in writer["answers"]
  /\ ~old /\ Alive("check-attr") => "check-attr" \in reader["names"]
  /\ ~old /\ pc \in {"entry", "ask", "answer", "wait_list", "close"} =>
       "git-crypt" \in writer["names"] /\ proc["check-attr"] \notin {"none", "ok"}
  /\ ~old /\ pc = "wait_attributes" => proc["check-attr"] # "none"
  /\ old /\ pc \in {"answer", "wait_one"} => proc["check-attr"] # "none"
  /\ old /\ pc \in {"entry", "ask", "wait_list"} => proc["check-attr"] = "none"
  /\ pc \in {"list", "attributes"} => proc["check-attr"] = "none"
  /\ pc = "list" => proc["ls-files"] = "none"
  /\ pc \notin {"list", "done"} => proc["ls-files"] # "none"
  /\ pc = "wait_one" => old /\ Ended("check-attr")
  /\ pc \in {"close", "wait_attributes"} => ~old
  /\ old /\ pc # "answer" => ~Alive("check-attr")
  /\ pc # "done" => exit = "none"

\* Entries git-crypt has taken from the list, and those of them it wants: all,
\* and all but the last.
Taken == written - Len(pipe["listing"])
Wanted == regular \cap encrypted
Passed == Wanted \cap (1..Taken)
PassedBefore == Wanted \cap (1..(Taken - 1))

\* No attribute was missed: the one check-attr of a newer git is not dead.
Healthy == old \/ proc["check-attr"] # "failed"

Listed ==
  /\ Len(pipe["listing"]) <= written
  /\ \A i \in 1..Len(pipe["listing"]) : pipe["listing"][i] = Taken + i
  /\ proc["ls-files"] = "none" => written = 0
  /\ proc["ls-files"] = "ok" => written = Count

Collected ==
  /\ pc \in {"list", "attributes"} => files = {} /\ Taken = 0
  /\ pc \in {"ask", "answer", "wait_one"} => at = Taken /\ at \in regular
  /\ pc = "wait_list" => Ended("ls-files") /\ pipe["listing"] = <<>>
  /\ pc \in {"entry", "wait_list"} /\ Healthy => files = Passed
  /\ pc \in {"ask", "answer", "wait_one"} /\ Healthy => files = PassedBefore
  /\ pc \in {"close", "wait_attributes"} /\ Healthy => files = Wanted

FilterIs == /\ filter => at \in encrypted
            /\ at \in encrypted => filter

\* Between two questions nothing is on its way.
Quiet ==
  /\ old \/ proc["check-attr"] = "none" => pipe["names"] = <<>>
  /\ proc["check-attr"] \in {"none", "ok"} => answer = <<>>
  /\ pc # "answer" => pipe["answers"] = <<>>
  /\ pc # "answer" /\ ~old /\ Alive("check-attr") =>
       answer = <<>> /\ pipe["names"] = <<>>

\* What can be read is the answer, from where the reading is.
Reads ==
  pc = "answer" =>
    /\ at \in Entries /\ Len(pipe["answers"]) <= records
    /\ \A i \in 1..Len(pipe["answers"]) : pipe["answers"][i] = Answer(at)[2 - records + i]

\* The attribute is known when the first record was read.
Judged ==
  /\ pc = "answer" /\ Healthy /\ records = 2 => ~filter
  /\ pc = "answer" /\ Healthy /\ records < 2 => FilterIs
  /\ pc = "wait_one" /\ proc["check-attr"] = "ok" => FilterIs

\* What is still to come of an answer is its end.
Asked == /\ pipe["names"] = <<at>> /\ pipe["answers"] = <<>>
         /\ answer = <<>> /\ records = 2
Answered == /\ pipe["names"] = <<>>
            /\ Len(pipe["answers"]) + Len(answer) = records
            /\ \A i \in 1..Len(answer) : answer[i] = Answer(at)[2 - Len(answer) + i]
Coming == pc = "answer" /\ proc["check-attr"] # "failed" => Asked \/ Answered

PipeTypes ==
  /\ pipe = [p \in Pipes |-> pipe[p]]
  /\ pipe["listing"] \in Seq(Entries) /\ pipe["names"] \in Seq(Entries)
  /\ pipe["answers"] \in Seq(Record) /\ \A p \in Pipes : Len(pipe[p]) <= Capacity

\* The types of what is not in a pipe.
OtherTypes ==
  /\ windows \in BOOLEAN /\ old \in BOOLEAN
  /\ regular \subseteq Entries /\ encrypted \subseteq Entries
  /\ reader \in [Pipes -> SUBSET Procs] /\ writer \in [Pipes -> SUBSET Procs]
  /\ proc \in [Children -> {"none", "forked", "running", "ok", "failed"}]
  /\ written \in 0..Count /\ answer \in Seq(Record)
  /\ pc \in {"list", "attributes", "entry", "ask", "answer", "wait_one",
             "wait_list", "close", "wait_attributes", "done"}
  /\ at \in Entries \cup {0} /\ records \in 0..2 /\ filter \in BOOLEAN
  /\ files \subseteq Entries
  /\ exit \in {"none", "ok", "failed", "killed"}

IInv ==
  /\ PipeTypes /\ OtherTypes /\ Holds
  /\ Listed /\ Collected
  /\ Quiet /\ Reads /\ Judged /\ Coming
  /\ ListComplete

LEMMA TypeParts == PipeTypes /\ OtherTypes => TypeOK
BY Zenon DEF TypeOK, PipeTypes, OtherTypes

-----------------------------------------------------------------------------
(* What is said of the pipes, and of the list.                             *)

Carries(p) == IF p = "answers" THEN Record ELSE Entries

LEMMA Types ==
  ASSUME IInv
  PROVE  /\ \A p \in Pipes : /\ pipe[p] \in Seq(Carries(p)) /\ Len(pipe[p]) \in Nat
                             /\ Len(pipe[p]) <= Capacity
         /\ Count \in Nat /\ Capacity \in Nat \ {0} /\ written \in Nat /\ written <= Count
         /\ answer \in Seq(Record) /\ Len(answer) \in Nat /\ records \in 0..2
<1>1. /\ pipe["listing"] \in Seq(Entries) /\ pipe["names"] \in Seq(Entries)
      /\ pipe["answers"] \in Seq(Record)
  BY Zenon DEF IInv, PipeTypes
<1>2. \A p \in Pipes : pipe[p] \in Seq(Carries(p))
  BY <1>1 DEF Pipes, Carries
<1>3. \A p \in Pipes : Len(pipe[p]) \in Nat
  BY <1>2, LenProperties
<1>4. \A p \in Pipes : Len(pipe[p]) <= Capacity
  BY Zenon DEF IInv, PipeTypes
<1>5. written \in 0..Count /\ answer \in Seq(Record) /\ records \in 0..2
  BY Zenon DEF IInv, OtherTypes
<1>6. Len(answer) \in Nat
  BY <1>5, LenProperties
<1>7. Count \in Nat /\ Capacity \in Nat \ {0} /\ written \in Nat /\ written <= Count
  BY <1>5, CountAssumption, CapacityAssumption
<1> QED
  BY <1>2, <1>3, <1>4, <1>5, <1>6, <1>7

\* A message written is the last, one read was the first.
LEMMA Writing ==
  ASSUME IInv, NEW p \in Pipes, NEW m \in Carries(p), CanWrite(p), Write(p, m)
  PROVE  /\ pipe' = [q \in Pipes |-> pipe'[q]] /\ PipeTypes'
         /\ pipe'[p] = Append(pipe[p], m) /\ Len(pipe'[p]) = Len(pipe[p]) + 1
         /\ pipe'[p][Len(pipe[p]) + 1] = m
         /\ \A i \in 1..Len(pipe[p]) : pipe'[p][i] = pipe[p][i]
         /\ \A q \in Pipes \ {p} : pipe'[q] = pipe[q]
<1>1. /\ pipe = [q \in Pipes |-> pipe[q]] /\ pipe[p] \in Seq(Carries(p))
      /\ \A q \in Pipes : pipe[q] \in Seq(Carries(q)) /\ Len(pipe[q]) <= Capacity
      /\ Len(pipe[p]) \in Nat /\ Len(pipe[p]) < Capacity /\ Capacity \in Nat
  BY Types DEF IInv, CanWrite, PipeTypes
<1>2. /\ pipe'[p] = Append(pipe[p], m) /\ \A q \in Pipes \ {p} : pipe'[q] = pipe[q]
      /\ pipe' = [q \in Pipes |-> pipe'[q]]
  BY <1>1 DEF Write
<1>3. /\ Append(pipe[p], m) \in Seq(Carries(p)) /\ Len(Append(pipe[p], m)) = Len(pipe[p]) + 1
      /\ Append(pipe[p], m)[Len(pipe[p]) + 1] = m
      /\ \A i \in 1..Len(pipe[p]) : Append(pipe[p], m)[i] = pipe[p][i]
  BY <1>1
<1>4. \A q \in Pipes : pipe'[q] \in Seq(Carries(q)) /\ Len(pipe'[q]) <= Capacity
  <2>1. Len(pipe'[p]) <= Capacity
    BY <1>1, <1>2, <1>3
  <2> QED
    BY <1>1, <1>2, <1>3, <2>1
<1>5. PipeTypes'
  BY <1>2, <1>4 DEF PipeTypes, Pipes, Carries
<1> QED
  BY <1>2, <1>3, <1>5

LEMMA Reading ==
  ASSUME IInv, NEW p \in Pipes, CanRead(p), Read(p)
  PROVE  /\ pipe' = [q \in Pipes |-> pipe'[q]] /\ PipeTypes'
         /\ Len(pipe[p]) \in Nat \ {0} /\ Len(pipe'[p]) = Len(pipe[p]) - 1
         /\ Head(pipe[p]) = pipe[p][1] /\ Head(pipe[p]) \in Carries(p)
         /\ \A i \in 1..Len(pipe'[p]) : pipe'[p][i] = pipe[p][i + 1]
         /\ \A q \in Pipes \ {p} : pipe'[q] = pipe[q]
<1>1. /\ pipe = [q \in Pipes |-> pipe[q]] /\ pipe[p] \in Seq(Carries(p)) /\ pipe[p] # <<>>
      /\ \A q \in Pipes : pipe[q] \in Seq(Carries(q)) /\ Len(pipe[q]) <= Capacity
      /\ Capacity \in Nat
  BY Types DEF IInv, CanRead, PipeTypes
<1>2. /\ pipe'[p] = Tail(pipe[p]) /\ \A q \in Pipes \ {p} : pipe'[q] = pipe[q]
      /\ pipe' = [q \in Pipes |-> pipe'[q]]
  BY <1>1 DEF Read
<1>3. /\ Tail(pipe[p]) \in Seq(Carries(p)) /\ Len(pipe[p]) \in Nat \ {0}
      /\ Len(Tail(pipe[p])) = Len(pipe[p]) - 1
      /\ Head(pipe[p]) = pipe[p][1] /\ Head(pipe[p]) \in Carries(p)
      /\ \A i \in 1..Len(Tail(pipe[p])) : Tail(pipe[p])[i] = pipe[p][i + 1]
  BY <1>1
<1>4. \A q \in Pipes : pipe'[q] \in Seq(Carries(q)) /\ Len(pipe'[q]) <= Capacity
  <2>1. Len(pipe'[p]) <= Capacity
    BY <1>1, <1>2, <1>3
  <2> QED
    BY <1>1, <1>2, <1>3, <2>1
<1>5. PipeTypes'
  BY <1>2, <1>4 DEF PipeTypes, Pipes, Carries
<1> QED
  BY <1>2, <1>3, <1>5

LEMMA Answers ==
  ASSUME NEW f \in Entries
  PROVE  /\ Answer(f) \in Seq(Record) /\ Len(Answer(f)) = 2
         /\ Answer(f)[1].name = f /\ Answer(f)[1].attribute = "filter"
         /\ Answer(f)[2].name = f /\ Answer(f)[2].attribute = "diff"
BY DEF Answer, Record

\* What does not touch the list leaves it as it is.
LEMMA ListFrame ==
  ASSUME Listed, pipe'["listing"] = pipe["listing"], written' = written,
         regular' = regular, encrypted' = encrypted,
         proc'["ls-files"] = "none" => proc["ls-files"] = "none",
         proc'["ls-files"] = "ok" => proc["ls-files"] = "ok" \/ written = Count
  PROVE  /\ Listed' /\ Taken' = Taken /\ Wanted' = Wanted /\ Passed' = Passed
         /\ PassedBefore' = PassedBefore
<1>1. Taken' = Taken /\ Wanted' = Wanted
  BY DEF Taken, Wanted
<1>2. Passed' = Passed /\ PassedBefore' = PassedBefore
  BY <1>1 DEF Passed, PassedBefore
<1>3. Listed'
  BY <1>1 DEF Listed
<1> QED
  BY <1>1, <1>2, <1>3

LEMMA TakenType ==
  ASSUME IInv
  PROVE  /\ Taken \in Nat /\ Taken + Len(pipe["listing"]) = written
         /\ Len(pipe["listing"]) \in Nat /\ written \in Nat
<1>1. Len(pipe["listing"]) \in Nat /\ written \in Nat
  BY Types DEF Pipes
<1>2. Len(pipe["listing"]) <= written
  BY DEF IInv, Listed
<1> QED
  BY <1>1, <1>2 DEF Taken

LEMMA States ==
  ASSUME IInv
  PROVE  /\ proc["ls-files"] \in {"none", "forked", "running", "ok", "failed"}
         /\ proc["check-attr"] \in {"none", "forked", "running", "ok", "failed"}
         /\ pc \in {"list", "attributes", "entry", "ask", "answer", "wait_one",
                   "wait_list", "close", "wait_attributes", "done"}
         /\ old \in BOOLEAN /\ records \in 0..2 /\ regular \subseteq Entries
BY DEF IInv, OtherTypes, Children, Procs

LEMMA NoneTaken == Taken = 0 => Passed = {}
BY DEF Passed

\* The last entry taken is wanted if it is encrypted.
LEMMA LastTaken ==
  ASSUME IInv, pc \in {"ask", "answer", "wait_one"}
  PROVE  /\ at \in encrypted => Passed = PassedBefore \cup {at}
         /\ at \notin encrypted => Passed = PassedBefore
<1>1. at = Taken /\ at \in regular
  BY DEF IInv, Collected
<1>2. at \in Nat /\ 1 <= at
  BY <1>1, States, CountAssumption DEF Entries
<1>3. 1..at = (1..(at - 1)) \cup {at}
  BY <1>2
<1> QED
  BY <1>1, <1>3 DEF Passed, PassedBefore, Wanted

\* A list that was read to the end of a whole one is whole.
LEMMA AllTaken ==
  ASSUME IInv, pipe["listing"] = <<>>, proc["ls-files"] = "ok"
  PROVE  Passed = Wanted
<1>1. written = Count /\ Len(pipe["listing"]) = 0
  BY DEF IInv, Listed
<1>2. Taken = Count
  BY <1>1, TakenType
<1>3. regular \subseteq 1..Count
  BY States DEF Entries
<1> QED
  BY <1>2, <1>3 DEF Passed, Wanted

-----------------------------------------------------------------------------
(* One lemma for each action.                                              *)

LEMMA SpawnListIInv ==
  ASSUME IInv, SpawnList
  PROVE  IInv'
<1>1. PipeTypes' /\ OtherTypes' /\ Holds'
  BY DEF IInv, PipeTypes, OtherTypes, Holds, Alive, SpawnList, index, mine, Forked, Shared,
        Pipes, Procs, Children
<1>2. Listed' /\ Collected'
  BY DEF IInv, Listed, OtherTypes, Taken, Collected, Holds, Healthy, Alive, Wanted, Passed,
        PassedBefore, SpawnList, index, mine, Forked, Shared, Pipes, Procs, Children
<1>3. Quiet' /\ Reads' /\ Judged' /\ Coming' /\ ListComplete'
  BY DEF IInv, Quiet, OtherTypes, Holds, Alive, Reads, Judged, Healthy, FilterIs, Coming, Asked,
        Answered, ListComplete, SpawnList, index, mine, Forked, Shared, Pipes, Procs, Children
<1> QED
  BY <1>1, <1>2, <1>3 DEF IInv

LEMMA SpawnAttributesIInv ==
  ASSUME IInv, SpawnAttributes
  PROVE  IInv'
<1>s. /\ pc = "attributes" /\ pc' = "entry" /\ ~old
      /\ answer' = answer /\ at' = at /\ records' = records /\ filter' = filter /\ files' = files
      /\ exit' = exit
  BY DEF SpawnAttributes, mine
<1>e. /\ proc'["check-attr"] \in {"forked", "running"}
      /\ proc'["ls-files"] = proc["ls-files"]
      /\ "ls-files" \in writer["listing"] => "ls-files" \in writer'["listing"]
      /\ "check-attr" \in writer'["answers"]
      /\ "git-crypt" \in writer'["names"]
      /\ "check-attr" \in reader'["names"]
  BY DEF IInv, OtherTypes, SpawnAttributes, index, mine, Forked, Shared, Inherit, Pipes, Procs,
        Children
<1>u. /\ pipe' = pipe /\ written' = written /\ regular' = regular /\ encrypted' = encrypted
      /\ windows' = windows /\ old' = old
  BY DEF SpawnAttributes, index
<1>f. /\ Listed' /\ Taken' = Taken /\ Wanted' = Wanted /\ Passed' = Passed
      /\ PassedBefore' = PassedBefore
  <2>1. /\ proc'["ls-files"] = "none" => proc["ls-files"] = "none"
        /\ proc'["ls-files"] = "ok" => proc["ls-files"] = "ok" \/ written = Count
    BY DEF IInv, OtherTypes, SpawnAttributes, index, mine, Forked, Shared, Inherit, Children,
          Procs
  <2> QED
    BY <1>u, <2>1, ListFrame DEF IInv
<1>1. PipeTypes' /\ OtherTypes' /\ Holds'
  BY DEF IInv, PipeTypes, OtherTypes, Holds, Alive, SpawnAttributes, index, mine, Forked,
        Shared, Inherit, Pipes, Procs, Children
<1>2. Collected'
  BY States, <1>s, <1>e, <1>u, <1>f, NoneTaken DEF IInv, Holds, Collected, Healthy, Alive, Ended
<1>3. Quiet' /\ Reads' /\ Judged' /\ Coming' /\ ListComplete'
  BY DEF IInv, Quiet, OtherTypes, Holds, Alive, Reads, Judged, Healthy, FilterIs, Coming, Asked,
        Answered, ListComplete, SpawnAttributes, index, mine, Forked, Shared, Inherit, Pipes,
        Procs, Children
<1> QED
  BY <1>f, <1>1, <1>2, <1>3 DEF IInv

LEMMA AskEachTimeIInv ==
  ASSUME IInv, AskEachTime
  PROVE  IInv'
<1>s. /\ pc = "attributes" /\ pc' = "entry" /\ old
      /\ answer' = answer /\ at' = at /\ records' = records /\ filter' = filter /\ files' = files
      /\ exit' = exit
  BY DEF AskEachTime, mine
<1>e. /\ proc' = proc /\ writer' = writer /\ reader' = reader
  BY DEF IInv, OtherTypes, AskEachTime, index, ends, mine, Pipes, Procs, Children
<1>u. /\ pipe' = pipe /\ written' = written /\ regular' = regular /\ encrypted' = encrypted
      /\ windows' = windows /\ old' = old
  BY DEF AskEachTime, index
<1>f. /\ Listed' /\ Taken' = Taken /\ Wanted' = Wanted /\ Passed' = Passed
      /\ PassedBefore' = PassedBefore
  <2>1. /\ proc'["ls-files"] = "none" => proc["ls-files"] = "none"
        /\ proc'["ls-files"] = "ok" => proc["ls-files"] = "ok" \/ written = Count
    BY DEF IInv, OtherTypes, AskEachTime, index, ends, mine, Children, Procs
  <2> QED
    BY <1>u, <2>1, ListFrame DEF IInv
<1>1. PipeTypes' /\ OtherTypes' /\ Holds'
  BY DEF IInv, PipeTypes, OtherTypes, Holds, Alive, AskEachTime, index, ends, mine, Pipes,
        Procs, Children
<1>2. Collected'
  BY States, <1>s, <1>e, <1>u, <1>f, NoneTaken DEF IInv, Holds, Collected, Healthy, Alive, Ended
<1>3. Quiet' /\ Reads' /\ Judged' /\ Coming' /\ ListComplete'
  BY DEF IInv, Quiet, OtherTypes, Holds, Alive, Reads, Judged, Healthy, FilterIs, Coming, Asked,
        Answered, ListComplete, AskEachTime, index, ends, mine, Pipes, Procs, Children
<1> QED
  BY <1>f, <1>1, <1>2, <1>3 DEF IInv

LEMMA SpawnFailsIInv ==
  ASSUME IInv, SpawnFails
  PROVE  IInv'
<1>1. PipeTypes' /\ OtherTypes' /\ Holds'
  BY DEF IInv, PipeTypes, OtherTypes, Holds, Alive, SpawnFails, index, mine, Quit, CloseAll,
        Pipes, Procs, Children
<1>2. Listed' /\ Collected'
  BY DEF IInv, Listed, OtherTypes, Taken, Collected, Holds, Healthy, Alive, Wanted, Passed,
        PassedBefore, SpawnFails, index, mine, Quit, CloseAll, Pipes, Procs, Children
<1>3. Quiet' /\ Reads' /\ Judged' /\ Coming' /\ ListComplete'
  BY DEF IInv, Quiet, OtherTypes, Holds, Alive, Reads, Judged, Healthy, FilterIs, Coming, Asked,
        Answered, ListComplete, SpawnFails, index, mine, Quit, CloseAll, Pipes, Procs, Children
<1> QED
  BY <1>1, <1>2, <1>3 DEF IInv

LEMMA TakeEntryIInv ==
  ASSUME IInv, TakeEntry
  PROVE  IInv'
<1>s. /\ pc = "entry" /\ at' = Head(pipe["listing"])
      /\ pc' = IF at' \in regular THEN "ask" ELSE "entry"
      /\ answer' = answer /\ records' = records /\ filter' = filter /\ files' = files /\ exit' = exit
  BY DEF TakeEntry, CanRead
<1>e. /\ proc' = proc /\ writer' = writer /\ reader' = reader
  BY DEF IInv, OtherTypes, TakeEntry, index, ends, CanRead, Read, Pipes, Procs, Children
<1>r. /\ pipe' = [q \in Pipes |-> pipe'[q]] /\ PipeTypes'
      /\ Len(pipe["listing"]) \in Nat \ {0} /\ Len(pipe'["listing"]) = Len(pipe["listing"]) - 1
      /\ Head(pipe["listing"]) = pipe["listing"][1] /\ Head(pipe["listing"]) \in Carries("listing")
      /\ \A i \in 1..Len(pipe'["listing"]) : pipe'["listing"][i] = pipe["listing"][i + 1]
      /\ \A q \in Pipes \ {"listing"} : pipe'[q] = pipe[q]
  BY Reading DEF TakeEntry, Pipes
<1>u. /\ written' = written /\ regular' = regular /\ encrypted' = encrypted
      /\ windows' = windows /\ old' = old
  BY DEF TakeEntry, index
<1>f. /\ Taken' = Taken + 1 /\ at' = Taken' /\ Wanted' = Wanted /\ PassedBefore' = Passed
      /\ at' \notin regular => Passed' = Passed
  <2>1. Taken \in Nat /\ Taken' = Taken + 1
    BY <1>r, <1>u, TakenType DEF Taken
  <2>2. at' = Taken + 1
    BY <1>r, <1>s DEF IInv, Listed
  <2>3. Wanted' = Wanted
    BY <1>u DEF Wanted
  <2>4. 1..(Taken' - 1) = 1..Taken /\ 1..Taken' = (1..Taken) \cup {at'}
    BY <2>1, <2>2
  <2>5. PassedBefore' = Passed
    BY <2>3, <2>4 DEF Passed, PassedBefore
  <2>6. at' \notin regular => Passed' = Passed
    BY <2>3, <2>4 DEF Passed, Wanted
  <2> QED
    BY <2>1, <2>2, <2>3, <2>5, <2>6
<1>1. PipeTypes'
  BY <1>r
<1>2. OtherTypes'
  <2>1. reader' \in [Pipes -> SUBSET Procs] /\ writer' \in [Pipes -> SUBSET Procs]
    BY DEF IInv, OtherTypes, TakeEntry, index, ends, CanRead, Read, Pipes, Procs, Children
  <2>2. proc' \in [Children -> {"none", "forked", "running", "ok", "failed"}]
    BY DEF IInv, OtherTypes, TakeEntry, index, ends, CanRead, Read, Pipes, Procs, Children
  <2>3. windows' \in BOOLEAN /\ old' \in BOOLEAN
    BY Zenon, <1>u DEF IInv, OtherTypes
  <2>4. regular' \subseteq Entries /\ encrypted' \subseteq Entries
    BY Zenon, <1>u DEF IInv, OtherTypes
  <2>5. written' \in 0..Count
    BY States, <1>s, <1>u DEF IInv, OtherTypes
  <2>6. answer' \in Seq(Record)
    BY States, <1>s, <1>u DEF IInv, OtherTypes
  <2>7. pc' \in {"list", "attributes", "entry", "ask", "answer", "wait_one",
                 "wait_list", "close", "wait_attributes", "done"}
    BY States, <1>s, <1>u DEF IInv, OtherTypes
  <2>8. at' \in Entries \cup {0} /\ records' \in 0..2
    BY <1>s, <1>r, States DEF Carries
  <2>9. filter' \in BOOLEAN
    BY Zenon, <1>s DEF IInv, OtherTypes
  <2>10. files' \subseteq Entries
    BY States, <1>s, <1>u DEF IInv, OtherTypes
  <2>11. exit' \in {"none", "ok", "failed", "killed"}
    BY States, <1>s, <1>u DEF IInv, OtherTypes
  <2> QED
    BY Zenon, <2>1, <2>2, <2>3, <2>4, <2>5, <2>6, <2>7, <2>8, <2>9, <2>10, <2>11 DEF OtherTypes
<1>3. Holds'
  BY States, <1>s, <1>e, <1>u DEF IInv, Holds, Alive, Ended
<1>4. Listed'
  <2>1. Len(pipe'["listing"]) <= written'
    BY <1>r, <1>u, TakenType DEF IInv, Listed
  <2>2. \A i \in 1..Len(pipe'["listing"]) : pipe'["listing"][i] = Taken' + i
    BY <1>r, <1>f, TakenType, SMTT(30) DEF IInv, Listed
  <2> QED
    BY <1>e, <1>u, <2>1, <2>2 DEF IInv, Listed
<1>5. Collected'
  BY States, <1>s, <1>e, <1>u, <1>f DEF IInv, Holds, Collected, Healthy, Alive, Ended
<1>6. Quiet'
  BY States, <1>s, <1>e, <1>r, <1>u DEF IInv, Holds, Quiet, Alive, Ended, Pipes
<1>7. Reads'
  BY States, <1>s, <1>e, <1>r, <1>u DEF IInv, Holds, Reads, Quiet, Pipes
<1>8. Judged'
  BY States, <1>s, <1>e, <1>r, <1>u DEF IInv, Holds, Judged, Healthy, FilterIs, Alive, Ended,
        Pipes
<1>9. Coming'
  BY States, <1>s, <1>e, <1>r, <1>u DEF IInv, Holds, Coming, Asked, Answered, Alive, Ended,
        Pipes
<1>10. ListComplete'
  BY States, <1>s, <1>u DEF IInv, Holds, ListComplete
<1> QED
  BY <1>1, <1>2, <1>3, <1>4, <1>5, <1>6, <1>7, <1>8, <1>9, <1>10 DEF IInv

LEMMA AskIInv ==
  ASSUME IInv, Ask
  PROVE  IInv'
<1>s. /\ pc = "ask" /\ pc' = "answer" /\ ~old
      /\ records' = 2 /\ filter' = FALSE
      /\ answer' = answer /\ at' = at /\ files' = files /\ exit' = exit
  BY DEF Ask, CanWrite
<1>e. /\ proc' = proc /\ writer' = writer /\ reader' = reader
  BY DEF IInv, OtherTypes, Ask, index, ends, CanWrite, Write, Pipes, Procs, Children
<1>w. at \in Carries("names")
  BY Types DEF IInv, OtherTypes, Collected, Carries, Entries, Ask
<1>r. /\ pipe' = [q \in Pipes |-> pipe'[q]] /\ PipeTypes'
      /\ pipe'["names"] = Append(pipe["names"], at) /\ Len(pipe'["names"]) = Len(pipe["names"]) + 1
      /\ pipe'["names"][Len(pipe["names"]) + 1] = at
      /\ \A i \in 1..Len(pipe["names"]) : pipe'["names"][i] = pipe["names"][i]
      /\ \A q \in Pipes \ {"names"} : pipe'[q] = pipe[q]
      /\ Len(pipe["names"]) \in Nat
  BY <1>w, Writing, Types DEF Ask, Pipes
<1>u. /\ written' = written /\ regular' = regular /\ encrypted' = encrypted
      /\ windows' = windows /\ old' = old
  BY DEF Ask, index
<1>f. /\ Listed' /\ Taken' = Taken /\ Wanted' = Wanted /\ Passed' = Passed
      /\ PassedBefore' = PassedBefore
  <2>1. /\ proc'["ls-files"] = "none" => proc["ls-files"] = "none"
        /\ proc'["ls-files"] = "ok" => proc["ls-files"] = "ok" \/ written = Count
    BY DEF IInv, OtherTypes, Ask, index, ends, CanWrite, Write, Children, Procs
  <2>2. pipe'["listing"] = pipe["listing"]
    BY <1>r DEF Pipes
  <2> QED
    BY <1>u, <2>1, <2>2, ListFrame DEF IInv
<1>1. PipeTypes'
  BY <1>r
<1>2. OtherTypes'
  <2>1. reader' \in [Pipes -> SUBSET Procs] /\ writer' \in [Pipes -> SUBSET Procs]
    BY DEF IInv, OtherTypes, Ask, index, ends, CanWrite, Write, Pipes, Procs, Children
  <2>2. proc' \in [Children -> {"none", "forked", "running", "ok", "failed"}]
    BY DEF IInv, OtherTypes, Ask, index, ends, CanWrite, Write, Pipes, Procs, Children
  <2>3. windows' \in BOOLEAN /\ old' \in BOOLEAN
    BY Zenon, <1>u DEF IInv, OtherTypes
  <2>4. regular' \subseteq Entries /\ encrypted' \subseteq Entries
    BY Zenon, <1>u DEF IInv, OtherTypes
  <2>5. written' \in 0..Count
    BY States, <1>s, <1>u DEF IInv, OtherTypes
  <2>6. answer' \in Seq(Record)
    BY States, <1>s, <1>u DEF IInv, OtherTypes
  <2>7. pc' \in {"list", "attributes", "entry", "ask", "answer", "wait_one",
                 "wait_list", "close", "wait_attributes", "done"}
    BY States, <1>s, <1>u DEF IInv, OtherTypes
  <2>8. at' \in Entries \cup {0} /\ records' \in 0..2
    BY States, <1>s, <1>u DEF IInv, OtherTypes
  <2>9. filter' \in BOOLEAN
    BY Zenon, <1>s DEF IInv, OtherTypes
  <2>10. files' \subseteq Entries
    BY States, <1>s, <1>u DEF IInv, OtherTypes
  <2>11. exit' \in {"none", "ok", "failed", "killed"}
    BY States, <1>s, <1>u DEF IInv, OtherTypes
  <2> QED
    BY Zenon, <2>1, <2>2, <2>3, <2>4, <2>5, <2>6, <2>7, <2>8, <2>9, <2>10, <2>11 DEF OtherTypes
<1>3. Holds'
  BY States, <1>s, <1>e, <1>u DEF IInv, Holds, Alive, Ended
<1>4. Collected'
  BY States, <1>s, <1>e, <1>u, <1>f DEF IInv, Holds, Collected, Healthy, Alive, Ended
<1>5. Quiet'
  BY States, <1>s, <1>e, <1>r, <1>u DEF IInv, Holds, Quiet, Alive, Ended, Pipes
<1>6. Reads'
  <2>1. pipe["answers"] = <<>>
    BY <1>s DEF IInv, Quiet
  <2>2. at' \in Entries /\ pipe'["answers"] = <<>> /\ Len(<<>>) = 0
    BY <1>w, <1>s, <1>r, <2>1 DEF Carries, Pipes
  <2> QED
    BY <1>s, <2>2 DEF Reads
<1>7. Judged'
  BY States, <1>s, <1>e, <1>r, <1>u DEF IInv, Holds, Judged, Healthy, FilterIs, Alive, Ended,
        Pipes
<1>8. Coming'
  <2>1. pipe["answers"] = <<>>
    BY <1>s DEF IInv, Quiet
  <2>2. proc["check-attr"] # "failed" => answer = <<>> /\ pipe["names"] = <<>>
    BY <1>s, States DEF IInv, Holds, Quiet, Alive
  <2>3. proc["check-attr"] # "failed" => pipe'["names"] = <<at>>
    <3>1. Append(<<>>, at) = <<at>>
      OBVIOUS
    <3> QED
      BY <1>r, <2>2, <3>1
  <2>4. pipe'["answers"] = <<>>
    BY <1>r, <2>1 DEF Pipes
  <2> QED
    BY <1>s, <1>e, <2>2, <2>3, <2>4 DEF Coming, Asked
<1>9. ListComplete'
  BY States, <1>s, <1>u DEF IInv, Holds, ListComplete
<1> QED
  BY <1>f, <1>1, <1>2, <1>3, <1>4, <1>5, <1>6, <1>7, <1>8, <1>9 DEF IInv

LEMMA AskDiesIInv ==
  ASSUME IInv, AskDies
  PROVE  IInv'
<1>1. PipeTypes' /\ OtherTypes' /\ Holds'
  BY DEF IInv, PipeTypes, OtherTypes, Holds, Alive, AskDies, index, mine, Quit, SigPipe,
        CloseAll, Pipes, Procs, Children
<1>2. Listed' /\ Collected'
  BY DEF IInv, Listed, OtherTypes, Taken, Collected, Holds, Healthy, Alive, Wanted, Passed,
        PassedBefore, AskDies, index, mine, Quit, SigPipe, CloseAll, Pipes, Procs, Children
<1>3. Quiet' /\ Reads' /\ Judged' /\ Coming' /\ ListComplete'
  BY DEF IInv, Quiet, OtherTypes, Holds, Alive, Reads, Judged, Healthy, FilterIs, Coming, Asked,
        Answered, ListComplete, AskDies, index, mine, Quit, SigPipe, CloseAll, Pipes, Procs,
        Children
<1> QED
  BY <1>1, <1>2, <1>3 DEF IInv

LEMMA AskInVainIInv ==
  ASSUME IInv, AskInVain
  PROVE  IInv'
<1>s. /\ pc = "ask" /\ pc' = "answer" /\ ~old
      /\ records' = 2 /\ filter' = FALSE
      /\ answer' = answer /\ at' = at /\ files' = files /\ exit' = exit
      /\ reader["names"] = {}
  BY DEF AskInVain, SigPipe
<1>e. /\ proc' = proc /\ writer' = writer /\ reader' = reader
  BY DEF IInv, OtherTypes, AskInVain, index, ends, SigPipe, Pipes, Procs, Children
<1>u. /\ pipe' = pipe /\ written' = written /\ regular' = regular /\ encrypted' = encrypted
      /\ windows' = windows /\ old' = old
  BY DEF AskInVain, index
<1>1. PipeTypes' /\ Holds'
  BY DEF IInv, PipeTypes, Holds, OtherTypes, Alive, AskInVain, index, ends, SigPipe, Pipes,
        Procs, Children
<1>2. OtherTypes'
  <2>1. reader' \in [Pipes -> SUBSET Procs] /\ writer' \in [Pipes -> SUBSET Procs]
    BY DEF IInv, OtherTypes, AskInVain, index, ends, SigPipe, Pipes, Procs, Children
  <2>2. proc' \in [Children -> {"none", "forked", "running", "ok", "failed"}]
    BY DEF IInv, OtherTypes, AskInVain, index, ends, SigPipe, Pipes, Procs, Children
  <2>3. windows' \in BOOLEAN /\ old' \in BOOLEAN
    BY Zenon, <1>u DEF IInv, OtherTypes
  <2>4. regular' \subseteq Entries /\ encrypted' \subseteq Entries
    BY Zenon, <1>u DEF IInv, OtherTypes
  <2>5. written' \in 0..Count
    BY States, <1>s, <1>u DEF IInv, OtherTypes
  <2>6. answer' \in Seq(Record)
    BY States, <1>s, <1>u DEF IInv, OtherTypes
  <2>7. pc' \in {"list", "attributes", "entry", "ask", "answer", "wait_one",
                 "wait_list", "close", "wait_attributes", "done"}
    BY States, <1>s, <1>u DEF IInv, OtherTypes
  <2>8. at' \in Entries \cup {0} /\ records' \in 0..2
    BY States, <1>s, <1>u DEF IInv, OtherTypes
  <2>9. filter' \in BOOLEAN
    BY Zenon, <1>s DEF IInv, OtherTypes
  <2>10. files' \subseteq Entries
    BY States, <1>s, <1>u DEF IInv, OtherTypes
  <2>11. exit' \in {"none", "ok", "failed", "killed"}
    BY States, <1>s, <1>u DEF IInv, OtherTypes
  <2> QED
    BY Zenon, <2>1, <2>2, <2>3, <2>4, <2>5, <2>6, <2>7, <2>8, <2>9, <2>10, <2>11 DEF OtherTypes
<1>3. Listed' /\ Collected'
  BY DEF IInv, Listed, OtherTypes, Taken, Collected, Holds, Healthy, Alive, Wanted, Passed,
        PassedBefore, AskInVain, index, ends, SigPipe, Pipes, Procs, Children
<1>4. Quiet' /\ Judged' /\ Coming' /\ ListComplete'
  BY DEF IInv, Quiet, OtherTypes, Holds, Alive, Judged, Healthy, FilterIs, Coming, Asked,
        Answered, ListComplete, AskInVain, index, ends, SigPipe, Pipes, Procs, Children
<1>5. Reads'
  <2>1. pipe["answers"] = <<>>
    BY <1>s DEF IInv, Quiet
  <2>2. at' \in Entries /\ pipe'["answers"] = <<>> /\ Len(<<>>) = 0
    BY <1>s, <1>u, <2>1, States DEF IInv, Collected
  <2> QED
    BY <1>s, <2>2 DEF Reads
<1> QED
  BY <1>1, <1>2, <1>3, <1>4, <1>5 DEF IInv

LEMMA ReadRecordIInv ==
  ASSUME IInv, ReadRecord
  PROVE  IInv'
<1>s. /\ pc = "answer" /\ pc' = "answer" /\ records > 0 /\ records' = records - 1
      /\ pipe["answers"] # <<>>
      /\ answer' = answer /\ at' = at /\ files' = files /\ exit' = exit
  BY DEF ReadRecord, CanRead
<1>e. /\ proc' = proc /\ writer' = writer /\ reader' = reader
  BY DEF IInv, OtherTypes, ReadRecord, index, ends, CanRead, Read, Pipes, Procs, Children
<1>r. /\ pipe' = [q \in Pipes |-> pipe'[q]] /\ PipeTypes'
      /\ Len(pipe["answers"]) \in Nat \ {0} /\ Len(pipe'["answers"]) = Len(pipe["answers"]) - 1
      /\ Head(pipe["answers"]) = pipe["answers"][1] /\ Head(pipe["answers"]) \in Carries("answers")
      /\ \A i \in 1..Len(pipe'["answers"]) : pipe'["answers"][i] = pipe["answers"][i + 1]
      /\ \A q \in Pipes \ {"answers"} : pipe'[q] = pipe[q]
  BY Reading DEF ReadRecord, Pipes
<1>u. /\ written' = written /\ regular' = regular /\ encrypted' = encrypted
      /\ windows' = windows /\ old' = old
  BY DEF ReadRecord, index
<1>f. /\ Listed' /\ Taken' = Taken /\ Wanted' = Wanted /\ Passed' = Passed
      /\ PassedBefore' = PassedBefore
  <2>1. /\ proc'["ls-files"] = "none" => proc["ls-files"] = "none"
        /\ proc'["ls-files"] = "ok" => proc["ls-files"] = "ok" \/ written = Count
    BY DEF IInv, OtherTypes, ReadRecord, index, ends, CanRead, Read, Children, Procs
  <2>2. pipe'["listing"] = pipe["listing"]
    BY <1>r DEF Pipes
  <2> QED
    BY <1>u, <2>1, <2>2, ListFrame DEF IInv
<1>1. PipeTypes'
  BY <1>r
<1>2. OtherTypes'
  <2>1. reader' \in [Pipes -> SUBSET Procs] /\ writer' \in [Pipes -> SUBSET Procs]
    BY DEF IInv, OtherTypes, ReadRecord, index, ends, CanRead, Read, Pipes, Procs, Children
  <2>2. proc' \in [Children -> {"none", "forked", "running", "ok", "failed"}]
    BY DEF IInv, OtherTypes, ReadRecord, index, ends, CanRead, Read, Pipes, Procs, Children
  <2>3. windows' \in BOOLEAN /\ old' \in BOOLEAN
    BY Zenon, <1>u DEF IInv, OtherTypes
  <2>4. regular' \subseteq Entries /\ encrypted' \subseteq Entries
    BY Zenon, <1>u DEF IInv, OtherTypes
  <2>5. written' \in 0..Count
    BY States, <1>s, <1>u DEF IInv, OtherTypes
  <2>6. answer' \in Seq(Record)
    BY States, <1>s, <1>u DEF IInv, OtherTypes
  <2>7. pc' \in {"list", "attributes", "entry", "ask", "answer", "wait_one",
                 "wait_list", "close", "wait_attributes", "done"}
    BY States, <1>s, <1>u DEF IInv, OtherTypes
  <2>8. at' \in Entries \cup {0} /\ records' \in 0..2
    BY States, <1>s, <1>u DEF IInv, OtherTypes
  <2>9. filter' \in BOOLEAN
    <3>1. filter' = IF Head(pipe["answers"]).attribute = "filter"
                    THEN Head(pipe["answers"]).name \in encrypted ELSE filter
      BY DEF ReadRecord
    <3>2. filter \in BOOLEAN
      BY Zenon DEF IInv, OtherTypes
    <3>3. CASE Head(pipe["answers"]).attribute = "filter"
      BY <3>1, <3>3
    <3>4. CASE Head(pipe["answers"]).attribute # "filter"
      BY Zenon, <3>1, <3>2, <3>4
    <3> QED
      BY <3>3, <3>4
  <2>10. files' \subseteq Entries
    BY States, <1>s, <1>u DEF IInv, OtherTypes
  <2>11. exit' \in {"none", "ok", "failed", "killed"}
    BY States, <1>s, <1>u DEF IInv, OtherTypes
  <2> QED
    BY Zenon, <2>1, <2>2, <2>3, <2>4, <2>5, <2>6, <2>7, <2>8, <2>9, <2>10, <2>11 DEF OtherTypes
<1>3. Holds'
  BY States, <1>s, <1>e, <1>u DEF IInv, Holds, Alive, Ended
<1>4. Collected'
  BY States, <1>s, <1>e, <1>u, <1>f DEF IInv, Holds, Collected, Healthy, Alive, Ended
<1>5. Quiet'
  BY States, <1>s, <1>e, <1>r, <1>u DEF IInv, Holds, Quiet, Alive, Ended, Pipes
<1>6. Reads'
  <2>1. /\ at \in Entries /\ Len(pipe["answers"]) <= records /\ records \in Nat
        /\ \A i \in 1..Len(pipe["answers"]) : pipe["answers"][i] = Answer(at)[2 - records + i]
    BY <1>s, States DEF IInv, Reads
  <2>2. Len(pipe'["answers"]) <= records'
    BY <1>s, <1>r, <2>1
  <2>3. ASSUME NEW i \in 1..Len(pipe'["answers"])
        PROVE  pipe'["answers"][i] = Answer(at')[2 - records' + i]
    <3>1. i + 1 \in 1..Len(pipe["answers"]) /\ 2 - records + (i + 1) = 2 - records' + i
      BY <1>s, <1>r, <2>1, SMTT(30)
    <3> QED
      BY <1>s, <1>r, <2>1, <3>1
  <2> QED
    BY <1>s, <2>1, <2>2, <2>3 DEF Reads
<1>7. Judged'
  <2>1. /\ at \in Entries /\ Head(pipe["answers"]) = Answer(at)[3 - records]
        /\ records \in {1, 2}
    <3>1. /\ at \in Entries /\ Len(pipe["answers"]) <= records /\ records \in {1, 2}
          /\ \A i \in 1..Len(pipe["answers"]) : pipe["answers"][i] = Answer(at)[2 - records + i]
      BY <1>s, States DEF IInv, Reads
    <3>2. 1 \in 1..Len(pipe["answers"]) /\ 2 - records + 1 = 3 - records
      BY <1>r, <3>1
    <3> QED
      BY <1>r, <3>1, <3>2
  <2>2. filter' = IF Head(pipe["answers"]).attribute = "filter"
                  THEN Head(pipe["answers"]).name \in encrypted ELSE filter
    BY DEF ReadRecord
  <2>3. CASE records = 2
    <3>1. filter' = (at \in encrypted)
      BY <2>1, <2>2, <2>3, Answers
    <3>2. FilterIs'
      BY Zenon, <3>1, <1>s, <1>u DEF FilterIs
    <3> QED
      BY <1>s, <2>3, <3>2 DEF Judged
  <2>4. CASE records = 1
    <3>1. filter' = filter
      BY <2>1, <2>2, <2>4, Answers
    <3>2. Healthy' => FilterIs
      BY <1>s, <1>e, <1>u, <2>4 DEF IInv, Judged, Healthy
    <3>3. FilterIs => FilterIs'
      BY Zenon, <3>1, <1>s, <1>u DEF FilterIs
    <3> QED
      BY <1>s, <2>4, <3>2, <3>3 DEF Judged
  <2> QED
    BY <2>1, <2>3, <2>4
<1>8. Coming'
  BY States, <1>s, <1>e, <1>r, <1>u DEF IInv, Holds, Coming, Asked, Answered, Alive, Ended,
        Pipes
<1>9. ListComplete'
  BY States, <1>s, <1>u DEF IInv, Holds, ListComplete
<1> QED
  BY <1>f, <1>1, <1>2, <1>3, <1>4, <1>5, <1>6, <1>7, <1>8, <1>9 DEF IInv

LEMMA MissRecordIInv ==
  ASSUME IInv, MissRecord
  PROVE  IInv'
<1>1. PipeTypes' /\ OtherTypes' /\ Holds'
  BY DEF IInv, PipeTypes, OtherTypes, Holds, Alive, MissRecord, index, ends, EndOfFile, Pipes,
        Procs, Children
<1>2. Listed' /\ Collected'
  BY DEF IInv, Listed, OtherTypes, Taken, Collected, Holds, Healthy, Alive, Wanted, Passed,
        PassedBefore, MissRecord, index, ends, EndOfFile, Pipes, Procs, Children
<1>3. Quiet' /\ Reads' /\ Judged' /\ Coming' /\ ListComplete'
  BY DEF IInv, Quiet, OtherTypes, Holds, Alive, Reads, Judged, Healthy, FilterIs, Coming, Asked,
        Answered, ListComplete, MissRecord, index, ends, EndOfFile, Pipes, Procs, Children
<1> QED
  BY <1>1, <1>2, <1>3 DEF IInv

LEMMA TakeFileIInv ==
  ASSUME IInv, TakeFile
  PROVE  IInv'
<1>s. /\ pc = "answer" /\ pc' = "entry" /\ ~old /\ records = 0
      /\ files' = IF filter THEN files \cup {at} ELSE files
      /\ answer' = answer /\ at' = at /\ records' = records /\ filter' = filter /\ exit' = exit
  BY DEF TakeFile
<1>e. /\ proc' = proc /\ writer' = writer /\ reader' = reader
  BY DEF IInv, OtherTypes, TakeFile, index, ends, Pipes, Procs, Children
<1>u. /\ pipe' = pipe /\ written' = written /\ regular' = regular /\ encrypted' = encrypted
      /\ windows' = windows /\ old' = old
  BY DEF TakeFile, index
<1>f. /\ Listed' /\ Taken' = Taken /\ Wanted' = Wanted /\ Passed' = Passed
      /\ PassedBefore' = PassedBefore
  <2>1. /\ proc'["ls-files"] = "none" => proc["ls-files"] = "none"
        /\ proc'["ls-files"] = "ok" => proc["ls-files"] = "ok" \/ written = Count
    BY DEF IInv, OtherTypes, TakeFile, index, ends, Children, Procs
  <2> QED
    BY <1>u, <2>1, ListFrame DEF IInv
<1>1. PipeTypes' /\ Holds'
  BY DEF IInv, PipeTypes, Holds, OtherTypes, Alive, TakeFile, index, ends, Pipes, Procs,
        Children
<1>2. OtherTypes'
  <2>1. reader' \in [Pipes -> SUBSET Procs] /\ writer' \in [Pipes -> SUBSET Procs]
    BY DEF IInv, OtherTypes, TakeFile, index, ends, Pipes, Procs, Children
  <2>2. proc' \in [Children -> {"none", "forked", "running", "ok", "failed"}]
    BY DEF IInv, OtherTypes, TakeFile, index, ends, Pipes, Procs, Children
  <2>3. windows' \in BOOLEAN /\ old' \in BOOLEAN
    BY Zenon, <1>u DEF IInv, OtherTypes
  <2>4. regular' \subseteq Entries /\ encrypted' \subseteq Entries
    BY Zenon, <1>u DEF IInv, OtherTypes
  <2>5. written' \in 0..Count
    BY States, <1>s, <1>u DEF IInv, OtherTypes
  <2>6. answer' \in Seq(Record)
    BY States, <1>s, <1>u DEF IInv, OtherTypes
  <2>7. pc' \in {"list", "attributes", "entry", "ask", "answer", "wait_one",
                 "wait_list", "close", "wait_attributes", "done"}
    BY States, <1>s, <1>u DEF IInv, OtherTypes
  <2>8. at' \in Entries \cup {0} /\ records' \in 0..2
    BY States, <1>s, <1>u DEF IInv, OtherTypes
  <2>9. filter' \in BOOLEAN
    BY Zenon, <1>s DEF IInv, OtherTypes
  <2>10. files' \subseteq Entries
    BY <1>s DEF IInv, OtherTypes, Reads
  <2>11. exit' \in {"none", "ok", "failed", "killed"}
    BY States, <1>s, <1>u DEF IInv, OtherTypes
  <2> QED
    BY Zenon, <2>1, <2>2, <2>3, <2>4, <2>5, <2>6, <2>7, <2>8, <2>9, <2>10, <2>11 DEF OtherTypes
<1>3. Collected'
  BY States, <1>s, <1>e, <1>u, <1>f, LastTaken DEF IInv, Holds, Collected, Healthy, Alive,
        Ended, Judged, FilterIs
<1>4. Quiet' /\ Reads' /\ Judged' /\ Coming' /\ ListComplete'
  BY DEF IInv, Quiet, OtherTypes, Holds, Alive, Reads, Judged, Healthy, FilterIs, Coming, Asked,
        Answered, ListComplete, TakeFile, index, ends, Pipes, Procs, Children
<1> QED
  BY <1>f, <1>1, <1>2, <1>3, <1>4 DEF IInv

LEMMA SpawnOneIInv ==
  ASSUME IInv, SpawnOne
  PROVE  IInv'
<1>s. /\ pc = "ask" /\ pc' = "answer" /\ old
      /\ records' = 2 /\ filter' = FALSE /\ answer' = Answer(at)
      /\ at' = at /\ files' = files /\ exit' = exit
  BY DEF SpawnOne
<1>e. /\ proc'["check-attr"] \in {"forked", "running"}
      /\ proc'["ls-files"] = proc["ls-files"]
      /\ "ls-files" \in writer["listing"] => "ls-files" \in writer'["listing"]
      /\ "check-attr" \in writer'["answers"]
  BY DEF IInv, OtherTypes, SpawnOne, index, Forked, Shared, Inherit, Pipes, Procs, Children
<1>u. /\ pipe' = pipe /\ written' = written /\ regular' = regular /\ encrypted' = encrypted
      /\ windows' = windows /\ old' = old
  BY DEF SpawnOne, index
<1>1. PipeTypes' /\ Holds'
  BY DEF IInv, PipeTypes, Holds, OtherTypes, Alive, SpawnOne, index, Forked, Shared, Inherit,
        Pipes, Procs, Children
<1>2. OtherTypes'
  <2>1. reader' \in [Pipes -> SUBSET Procs] /\ writer' \in [Pipes -> SUBSET Procs]
    BY DEF IInv, OtherTypes, SpawnOne, index, Forked, Shared, Inherit, Pipes, Procs, Children
  <2>2. proc' \in [Children -> {"none", "forked", "running", "ok", "failed"}]
    BY DEF IInv, OtherTypes, SpawnOne, index, Forked, Shared, Inherit, Pipes, Procs, Children
  <2>3. windows' \in BOOLEAN /\ old' \in BOOLEAN
    BY Zenon, <1>u DEF IInv, OtherTypes
  <2>4. regular' \subseteq Entries /\ encrypted' \subseteq Entries
    BY Zenon, <1>u DEF IInv, OtherTypes
  <2>5. written' \in 0..Count
    BY States, <1>s, <1>u DEF IInv, OtherTypes
  <2>6. answer' \in Seq(Record)
    <3>1. at \in Entries
      BY <1>s, States DEF IInv, Collected
    <3> QED
      BY <1>s, <3>1, Answers
  <2>7. pc' \in {"list", "attributes", "entry", "ask", "answer", "wait_one",
                 "wait_list", "close", "wait_attributes", "done"}
    BY States, <1>s, <1>u DEF IInv, OtherTypes
  <2>8. at' \in Entries \cup {0} /\ records' \in 0..2
    BY States, <1>s, <1>u DEF IInv, OtherTypes
  <2>9. filter' \in BOOLEAN
    BY Zenon, <1>s DEF IInv, OtherTypes
  <2>10. files' \subseteq Entries
    BY States, <1>s, <1>u DEF IInv, OtherTypes
  <2>11. exit' \in {"none", "ok", "failed", "killed"}
    BY States, <1>s, <1>u DEF IInv, OtherTypes
  <2> QED
    BY Zenon, <2>1, <2>2, <2>3, <2>4, <2>5, <2>6, <2>7, <2>8, <2>9, <2>10, <2>11 DEF OtherTypes
<1>3. Listed' /\ Collected'
  BY ZenonT(60) DEF IInv, Listed, OtherTypes, Taken, Collected, Holds, Healthy, Alive, Wanted, Passed,
        PassedBefore, SpawnOne, index, Forked, Shared, Inherit, Pipes, Procs, Children
<1>4. Quiet' /\ Judged' /\ ListComplete'
  BY DEF IInv, Quiet, OtherTypes, Holds, Alive, Judged, Healthy, FilterIs, ListComplete,
        SpawnOne, index, Forked, Shared, Inherit, Pipes, Procs, Children
<1>5. Reads'
  <2>1. pipe["answers"] = <<>>
    BY <1>s DEF IInv, Quiet
  <2>2. at' \in Entries /\ pipe'["answers"] = <<>> /\ Len(<<>>) = 0
    BY <1>s, <1>u, <2>1, States DEF IInv, Collected
  <2> QED
    BY <1>s, <2>2 DEF Reads
<1>6. Coming'
  <2>1. pipe["answers"] = <<>>
    BY <1>s DEF IInv, Quiet
  <2>2. at \in Entries /\ pipe["names"] = <<>>
    BY <1>s, States DEF IInv, Collected, Quiet
  <2>3. Len(answer') = 2 /\ Len(<<>>) = 0
    BY <1>s, <2>2, Answers
  <2>4. \A i \in 1..Len(answer') : answer'[i] = Answer(at')[2 - Len(answer') + i]
    BY <1>s, <2>3
  <2>5. Len(pipe'["answers"]) + Len(answer') = records' /\ pipe'["names"] = <<>>
    BY <1>s, <1>u, <2>1, <2>2, <2>3
  <2> QED
    BY <2>4, <2>5 DEF Coming, Answered
<1> QED
  BY <1>1, <1>2, <1>3, <1>4, <1>5, <1>6 DEF IInv

LEMMA EndOfAnswerIInv ==
  ASSUME IInv, EndOfAnswer
  PROVE  IInv'
<1>s. /\ pc = "answer" /\ pc' = "wait_one" /\ old
      /\ pipe["answers"] = <<>> /\ writer["answers"] = {}
      /\ answer' = answer /\ at' = at /\ records' = records /\ filter' = filter /\ files' = files
      /\ exit' = exit
  BY DEF EndOfAnswer, mine, EndOfFile
<1>e. /\ proc' = proc /\ writer' = writer /\ reader' = reader
  BY DEF IInv, OtherTypes, EndOfAnswer, index, ends, mine, EndOfFile, Pipes, Procs, Children
<1>u. /\ pipe' = pipe /\ written' = written /\ regular' = regular /\ encrypted' = encrypted
      /\ windows' = windows /\ old' = old
  BY DEF EndOfAnswer, index
<1>1. PipeTypes' /\ OtherTypes'
  BY DEF IInv, PipeTypes, OtherTypes, EndOfAnswer, index, ends, mine, EndOfFile, Pipes, Procs,
        Children
<1>2. Holds'
  BY States, <1>s, <1>e, <1>u DEF IInv, Holds, Alive, Ended
<1>3. Listed' /\ Collected'
  BY DEF IInv, Listed, OtherTypes, Taken, Collected, Holds, Healthy, Alive, Wanted, Passed,
        PassedBefore, EndOfAnswer, index, ends, mine, EndOfFile, Pipes, Procs, Children
<1>4. Quiet' /\ Reads' /\ Coming' /\ ListComplete'
  BY DEF IInv, Quiet, OtherTypes, Holds, Alive, Reads, Coming, Asked, Answered, ListComplete,
        EndOfAnswer, index, ends, mine, EndOfFile, Pipes, Procs, Children
<1>5. Judged'
  <2>1. proc["check-attr"] = "ok" => records < 2
    <3>1. proc["check-attr"] = "ok" => Answered /\ answer = <<>>
      BY <1>s DEF IInv, Coming, Asked, Quiet
    <3> QED
      BY <1>s, <3>1 DEF Answered
  <2>2. proc["check-attr"] = "ok" => FilterIs
    BY <1>s, <2>1, States DEF IInv, Judged, Healthy
  <2>3. FilterIs => FilterIs'
    BY <1>s, <1>u DEF FilterIs
  <2> QED
    BY <1>s, <1>e, <2>2, <2>3 DEF Judged
<1> QED
  BY <1>1, <1>2, <1>3, <1>4, <1>5 DEF IInv

LEMMA WaitOneIInv ==
  ASSUME IInv, WaitOne
  PROVE  IInv'
<1>s. /\ pc = "wait_one" /\ at' = at /\ filter' = filter
      /\ proc["check-attr"] = "ok" => /\ pc' = "entry" /\ answer' = <<>> /\ exit' = exit
                             /\ files' = IF filter THEN files \cup {at} ELSE files
      /\ proc["check-attr"] # "ok" => /\ pc' = "done" /\ answer' = answer /\ exit' = "failed"
                             /\ files' = files
      /\ records' \in {0, records}
  BY DEF WaitOne, Quit
<1>e. /\ proc["check-attr"] = "ok" => proc'["check-attr"] = "none"
      /\ proc["check-attr"] # "ok" => proc'["check-attr"] = proc["check-attr"]
      /\ proc'["ls-files"] = proc["ls-files"]
      /\ "ls-files" \in writer["listing"] => "ls-files" \in writer'["listing"]
  BY DEF IInv, OtherTypes, WaitOne, index, Quit, Ended, CloseAll, Pipes, Procs, Children
<1>u. /\ pipe' = pipe /\ written' = written /\ regular' = regular /\ encrypted' = encrypted
      /\ windows' = windows /\ old' = old
  BY DEF WaitOne, index, Quit, CloseAll
<1>f. /\ Listed' /\ Taken' = Taken /\ Wanted' = Wanted /\ Passed' = Passed
      /\ PassedBefore' = PassedBefore
  <2>1. /\ proc'["ls-files"] = "none" => proc["ls-files"] = "none"
        /\ proc'["ls-files"] = "ok" => proc["ls-files"] = "ok" \/ written = Count
    BY DEF IInv, OtherTypes, WaitOne, index, Quit, Ended, CloseAll, Children, Procs
  <2> QED
    BY <1>u, <2>1, ListFrame DEF IInv
<1>1. PipeTypes' /\ Holds'
  BY DEF IInv, PipeTypes, Holds, OtherTypes, Alive, WaitOne, index, Quit, Ended, CloseAll,
        Pipes, Procs, Children
<1>2. OtherTypes'
  <2>1. reader' \in [Pipes -> SUBSET Procs] /\ writer' \in [Pipes -> SUBSET Procs]
    BY DEF IInv, OtherTypes, WaitOne, index, Quit, Ended, CloseAll, Pipes, Procs, Children
  <2>2. proc' \in [Children -> {"none", "forked", "running", "ok", "failed"}]
    BY DEF IInv, OtherTypes, WaitOne, index, Quit, Ended, CloseAll, Pipes, Procs, Children
  <2>3. windows' \in BOOLEAN /\ old' \in BOOLEAN
    BY Zenon, <1>u DEF IInv, OtherTypes
  <2>4. regular' \subseteq Entries /\ encrypted' \subseteq Entries
    BY Zenon, <1>u DEF IInv, OtherTypes
  <2>5. written' \in 0..Count
    BY States, <1>s, <1>u DEF IInv, OtherTypes
  <2>6. answer' \in Seq(Record)
    BY <1>s, EmptySeq DEF IInv, OtherTypes
  <2>7. pc' \in {"list", "attributes", "entry", "ask", "answer", "wait_one",
                 "wait_list", "close", "wait_attributes", "done"}
    BY States, <1>s, <1>u DEF IInv, OtherTypes
  <2>8. at' \in Entries \cup {0} /\ records' \in 0..2
    BY States, <1>s, <1>u DEF IInv, OtherTypes
  <2>9. filter' \in BOOLEAN
    BY Zenon, <1>s DEF IInv, OtherTypes
  <2>10. files' \subseteq Entries
    BY <1>s, States DEF IInv, OtherTypes, Collected
  <2>11. exit' \in {"none", "ok", "failed", "killed"}
    BY States, <1>s, <1>u DEF IInv, OtherTypes
  <2> QED
    BY Zenon, <2>1, <2>2, <2>3, <2>4, <2>5, <2>6, <2>7, <2>8, <2>9, <2>10, <2>11 DEF OtherTypes
<1>3. Collected'
  BY States, <1>s, <1>e, <1>u, <1>f, LastTaken DEF IInv, Holds, Collected, Healthy, Alive,
        Ended, Judged, FilterIs
<1>4. Quiet' /\ Reads' /\ Judged' /\ Coming' /\ ListComplete'
  BY DEF IInv, Quiet, OtherTypes, Holds, Alive, Reads, Judged, Healthy, FilterIs, Coming, Asked,
        Answered, ListComplete, WaitOne, index, Quit, Ended, CloseAll, Pipes, Procs, Children
<1> QED
  BY <1>f, <1>1, <1>2, <1>3, <1>4 DEF IInv

LEMMA EndOfListIInv ==
  ASSUME IInv, EndOfList
  PROVE  IInv'
<1>s. /\ pc = "entry" /\ pc' = "wait_list"
      /\ pipe["listing"] = <<>> /\ writer["listing"] = {}
      /\ answer' = answer /\ at' = at /\ records' = records /\ filter' = filter /\ files' = files
      /\ exit' = exit
  BY DEF EndOfList, mine, EndOfFile
<1>e. /\ proc' = proc /\ writer' = writer /\ reader' = reader
  BY DEF IInv, OtherTypes, EndOfList, index, ends, mine, EndOfFile, Pipes, Procs, Children
<1>u. /\ pipe' = pipe /\ written' = written /\ regular' = regular /\ encrypted' = encrypted
      /\ windows' = windows /\ old' = old
  BY DEF EndOfList, index
<1>f. /\ Listed' /\ Taken' = Taken /\ Wanted' = Wanted /\ Passed' = Passed
      /\ PassedBefore' = PassedBefore
  <2>1. /\ proc'["ls-files"] = "none" => proc["ls-files"] = "none"
        /\ proc'["ls-files"] = "ok" => proc["ls-files"] = "ok" \/ written = Count
    BY DEF IInv, OtherTypes, EndOfList, index, ends, mine, EndOfFile, Children, Procs
  <2> QED
    BY <1>u, <2>1, ListFrame DEF IInv
<1>1. PipeTypes' /\ OtherTypes' /\ Holds'
  BY DEF IInv, PipeTypes, OtherTypes, Holds, Alive, EndOfList, index, ends, mine, EndOfFile,
        Pipes, Procs, Children
<1>2. Collected'
  BY States, <1>s, <1>e, <1>u, <1>f DEF IInv, Holds, Collected, Healthy, Alive, Ended
<1>3. Quiet' /\ Reads' /\ Judged' /\ Coming' /\ ListComplete'
  BY DEF IInv, Quiet, OtherTypes, Holds, Alive, Reads, Judged, Healthy, FilterIs, Coming, Asked,
        Answered, ListComplete, EndOfList, index, ends, mine, EndOfFile, Pipes, Procs, Children
<1> QED
  BY <1>f, <1>1, <1>2, <1>3 DEF IInv

LEMMA WaitListIInv ==
  ASSUME IInv, WaitList
  PROVE  IInv'
<1>s. /\ pc = "wait_list" /\ answer' = answer /\ at' = at /\ records' = records /\ filter' = filter /\ files' = files
      /\ proc["ls-files"] = "ok" /\ ~old => pc' = "close" /\ exit' = exit
      /\ proc["ls-files"] = "ok" /\ old => pc' = "done" /\ exit' = "ok"
      /\ proc["ls-files"] # "ok" => pc' = "done" /\ exit' = "failed"
  BY DEF WaitList, mine, Quit
<1>e. /\ proc' = proc
      /\ "ls-files" \in writer["listing"] => "ls-files" \in writer'["listing"]
      /\ "check-attr" \in writer["answers"] => "check-attr" \in writer'["answers"]
      /\ "check-attr" \in reader["names"] => "check-attr" \in reader'["names"]
      /\ pc' = "close" => writer' = writer
  BY DEF IInv, OtherTypes, WaitList, index, ends, mine, Quit, Ended, CloseAll, Pipes, Procs,
        Children
<1>u. /\ pipe' = pipe /\ written' = written /\ regular' = regular /\ encrypted' = encrypted
      /\ windows' = windows /\ old' = old
  BY DEF WaitList, index, Quit, CloseAll
<1>f. /\ Listed' /\ Taken' = Taken /\ Wanted' = Wanted /\ Passed' = Passed
      /\ PassedBefore' = PassedBefore
  <2>1. /\ proc'["ls-files"] = "none" => proc["ls-files"] = "none"
        /\ proc'["ls-files"] = "ok" => proc["ls-files"] = "ok" \/ written = Count
    BY DEF IInv, OtherTypes, WaitList, index, ends, mine, Quit, Ended, CloseAll, Children, Procs
  <2> QED
    BY <1>u, <2>1, ListFrame DEF IInv
<1>1. PipeTypes' /\ OtherTypes' /\ Holds'
  BY DEF IInv, PipeTypes, OtherTypes, Holds, Alive, WaitList, index, ends, mine, Quit, Ended,
        CloseAll, Pipes, Procs, Children
<1>2. Collected'
  BY States, <1>s, <1>e, <1>u, <1>f, AllTaken DEF IInv, Holds, Collected, Healthy, Alive, Ended
<1>3. Quiet' /\ Reads' /\ Judged' /\ Coming'
  BY DEF IInv, Quiet, OtherTypes, Holds, Alive, Reads, Judged, Healthy, FilterIs, Coming, Asked,
        Answered, WaitList, index, ends, mine, Quit, Ended, CloseAll, Pipes, Procs, Children
<1>4. ListComplete'
  BY States, <1>s, <1>u, AllTaken DEF IInv, Holds, ListComplete, Collected, Healthy, Wanted
<1> QED
  BY <1>f, <1>1, <1>2, <1>3, <1>4 DEF IInv

LEMMA CloseStdinIInv ==
  ASSUME IInv, CloseStdin
  PROVE  IInv'
<1>1. PipeTypes' /\ OtherTypes' /\ Holds'
  BY DEF IInv, PipeTypes, OtherTypes, Holds, Alive, CloseStdin, index, mine, Pipes, Procs,
        Children
<1>2. Listed' /\ Collected'
  BY DEF IInv, Listed, OtherTypes, Taken, Collected, Holds, Healthy, Alive, Wanted, Passed,
        PassedBefore, CloseStdin, index, mine, Pipes, Procs, Children
<1>3. Quiet' /\ Reads' /\ Judged' /\ Coming' /\ ListComplete'
  BY DEF IInv, Quiet, OtherTypes, Holds, Alive, Reads, Judged, Healthy, FilterIs, Coming, Asked,
        Answered, ListComplete, CloseStdin, index, mine, Pipes, Procs, Children
<1> QED
  BY <1>1, <1>2, <1>3 DEF IInv

LEMMA WaitAttributesIInv ==
  ASSUME IInv, WaitAttributes
  PROVE  IInv'
<1>s. /\ pc = "wait_attributes" /\ pc' = "done"
      /\ answer' = answer /\ at' = at /\ records' = records /\ filter' = filter /\ files' = files
      /\ exit' = "ok" => proc["check-attr"] = "ok"
  BY DEF WaitAttributes, mine, Quit
<1>e. /\ proc' = proc
      /\ "ls-files" \in writer["listing"] => "ls-files" \in writer'["listing"]
      /\ "check-attr" \in writer["answers"] => "check-attr" \in writer'["answers"]
      /\ "check-attr" \in reader["names"] => "check-attr" \in reader'["names"]
  BY DEF IInv, OtherTypes, WaitAttributes, index, mine, Quit, Ended, CloseAll, Pipes, Procs,
        Children
<1>u. /\ pipe' = pipe /\ written' = written /\ regular' = regular /\ encrypted' = encrypted
      /\ windows' = windows /\ old' = old
  BY DEF WaitAttributes, index, Quit, CloseAll
<1>1. PipeTypes' /\ OtherTypes' /\ Holds'
  BY DEF IInv, PipeTypes, OtherTypes, Holds, Alive, WaitAttributes, index, mine, Quit, Ended,
        CloseAll, Pipes, Procs, Children
<1>2. Listed' /\ Collected'
  BY DEF IInv, Listed, OtherTypes, Taken, Collected, Holds, Healthy, Alive, Wanted, Passed,
        PassedBefore, WaitAttributes, index, mine, Quit, Ended, CloseAll, Pipes, Procs, Children
<1>3. Quiet' /\ Reads' /\ Judged' /\ Coming'
  BY DEF IInv, Quiet, OtherTypes, Holds, Alive, Reads, Judged, Healthy, FilterIs, Coming, Asked,
        Answered, WaitAttributes, index, mine, Quit, Ended, CloseAll, Pipes, Procs, Children
<1>4. ListComplete'
  BY States, <1>s, <1>u DEF IInv, Holds, ListComplete, Collected, Healthy, Wanted
<1> QED
  BY <1>1, <1>2, <1>3, <1>4 DEF IInv

LEMMA ExecListIInv ==
  ASSUME IInv, ExecList
  PROVE  IInv'
<1>s. /\ pc' = pc /\ answer' = answer /\ at' = at /\ records' = records /\ filter' = filter /\ files' = files
      /\ exit' = exit
      /\ proc["ls-files"] = "forked"
  BY DEF ExecList, mine
<1>e. /\ proc'["ls-files"] = "running"
      /\ proc'["check-attr"] = proc["check-attr"]
      /\ writer' = writer
      /\ "check-attr" \in reader["names"] => "check-attr" \in reader'["names"]
  BY DEF IInv, OtherTypes, ExecList, index, mine, Pipes, Procs, Children
<1>u. /\ pipe' = pipe /\ written' = written /\ regular' = regular /\ encrypted' = encrypted
      /\ windows' = windows /\ old' = old
  BY DEF ExecList, index
<1>f. /\ Listed' /\ Taken' = Taken /\ Wanted' = Wanted /\ Passed' = Passed
      /\ PassedBefore' = PassedBefore
  <2>1. /\ proc'["ls-files"] = "none" => proc["ls-files"] = "none"
        /\ proc'["ls-files"] = "ok" => proc["ls-files"] = "ok" \/ written = Count
    BY DEF IInv, OtherTypes, ExecList, index, mine, Children, Procs
  <2> QED
    BY <1>u, <2>1, ListFrame DEF IInv
<1>1. PipeTypes' /\ OtherTypes'
  BY DEF IInv, PipeTypes, OtherTypes, ExecList, index, mine, Pipes, Procs, Children
<1>2. Holds'
  BY States, <1>s, <1>e, <1>u DEF IInv, Holds, Alive, Ended
<1>3. Collected'
  BY States, <1>s, <1>e, <1>u, <1>f DEF IInv, Holds, Collected, Healthy, Alive, Ended
<1>4. Quiet' /\ Reads' /\ Judged' /\ Coming' /\ ListComplete'
  BY DEF IInv, Quiet, OtherTypes, Holds, Alive, Reads, Judged, Healthy, FilterIs, Coming, Asked,
        Answered, ListComplete, ExecList, index, mine, Pipes, Procs, Children
<1> QED
  BY <1>f, <1>1, <1>2, <1>3, <1>4 DEF IInv

LEMMA ListEntryIInv ==
  ASSUME IInv, ListEntry
  PROVE  IInv'
<1>s. /\ pc' = pc /\ answer' = answer /\ at' = at /\ records' = records /\ filter' = filter /\ files' = files
      /\ exit' = exit
      /\ written' = written + 1 /\ written < Count
      /\ proc["ls-files"] = "running"
  BY DEF ListEntry, mine, CanWrite
<1>e. /\ proc' = proc /\ writer' = writer /\ reader' = reader
  BY DEF IInv, OtherTypes, ListEntry, index, ends, mine, CanWrite, Write, Pipes, Procs, Children
<1>w. written + 1 \in Carries("listing")
  BY Types DEF IInv, OtherTypes, Collected, Carries, Entries, ListEntry
<1>r. /\ pipe' = [q \in Pipes |-> pipe'[q]] /\ PipeTypes'
      /\ pipe'["listing"] = Append(pipe["listing"], written + 1) /\ Len(pipe'["listing"]) = Len(pipe["listing"]) + 1
      /\ pipe'["listing"][Len(pipe["listing"]) + 1] = written + 1
      /\ \A i \in 1..Len(pipe["listing"]) : pipe'["listing"][i] = pipe["listing"][i]
      /\ \A q \in Pipes \ {"listing"} : pipe'[q] = pipe[q]
      /\ Len(pipe["listing"]) \in Nat
  BY <1>w, Writing, Types DEF ListEntry, Pipes
<1>u. /\ regular' = regular /\ encrypted' = encrypted
      /\ windows' = windows /\ old' = old
  BY DEF ListEntry, index
<1>f. /\ Taken' = Taken /\ Wanted' = Wanted /\ Passed' = Passed
      /\ PassedBefore' = PassedBefore
  <2>1. Taken' = Taken /\ Wanted' = Wanted
    BY <1>s, <1>r, <1>u, TakenType DEF Taken, Wanted
  <2> QED
    BY <2>1 DEF Passed, PassedBefore
<1>1. PipeTypes'
  BY <1>r
<1>2. OtherTypes'
  <2>1. reader' \in [Pipes -> SUBSET Procs] /\ writer' \in [Pipes -> SUBSET Procs]
    BY DEF IInv, OtherTypes, ListEntry, index, ends, mine, CanWrite, Write, Pipes, Procs,
          Children
  <2>2. proc' \in [Children -> {"none", "forked", "running", "ok", "failed"}]
    BY DEF IInv, OtherTypes, ListEntry, index, ends, mine, CanWrite, Write, Pipes, Procs,
          Children
  <2>3. windows' \in BOOLEAN /\ old' \in BOOLEAN
    BY Zenon, <1>u DEF IInv, OtherTypes
  <2>4. regular' \subseteq Entries /\ encrypted' \subseteq Entries
    BY Zenon, <1>u DEF IInv, OtherTypes
  <2>5. written' \in 0..Count
    BY <1>s, TakenType, CountAssumption
  <2>6. answer' \in Seq(Record)
    BY States, <1>s, <1>u DEF IInv, OtherTypes
  <2>7. pc' \in {"list", "attributes", "entry", "ask", "answer", "wait_one",
                 "wait_list", "close", "wait_attributes", "done"}
    BY States, <1>s, <1>u DEF IInv, OtherTypes
  <2>8. at' \in Entries \cup {0} /\ records' \in 0..2
    BY States, <1>s, <1>u DEF IInv, OtherTypes
  <2>9. filter' \in BOOLEAN
    BY Zenon, <1>s DEF IInv, OtherTypes
  <2>10. files' \subseteq Entries
    BY States, <1>s, <1>u DEF IInv, OtherTypes
  <2>11. exit' \in {"none", "ok", "failed", "killed"}
    BY States, <1>s, <1>u DEF IInv, OtherTypes
  <2> QED
    BY Zenon, <2>1, <2>2, <2>3, <2>4, <2>5, <2>6, <2>7, <2>8, <2>9, <2>10, <2>11 DEF OtherTypes
<1>3. Holds'
  BY States, <1>s, <1>e, <1>u DEF IInv, Holds, Alive, Ended
<1>4. Listed'
  <2>1. Len(pipe'["listing"]) <= written'
    BY <1>r, <1>s, TakenType DEF IInv, Listed
  <2>2. ASSUME NEW i \in 1..Len(pipe'["listing"])
        PROVE  pipe'["listing"][i] = Taken' + i
    <3>1. CASE i \in 1..Len(pipe["listing"])
      BY <1>r, <1>f, <3>1 DEF IInv, Listed
    <3>2. CASE i = Len(pipe["listing"]) + 1
      BY <1>r, <1>f, <3>2, TakenType
    <3> QED
      BY <1>r, <3>1, <3>2
  <2> QED
    BY <1>s, <1>e, <2>1, <2>2 DEF Listed
<1>5. Collected'
  BY States, <1>s, <1>e, <1>u, <1>f, <1>r DEF IInv, Holds, Collected, Healthy, Alive, Ended,
        Pipes
<1>6. Quiet'
  BY States, <1>s, <1>e, <1>r, <1>u DEF IInv, Holds, Quiet, Alive, Ended, Pipes
<1>7. Reads'
  BY States, <1>s, <1>e, <1>r, <1>u DEF IInv, Holds, Reads, Quiet, Pipes
<1>8. Judged'
  BY States, <1>s, <1>e, <1>r, <1>u DEF IInv, Holds, Judged, Healthy, FilterIs, Alive, Ended,
        Pipes
<1>9. Coming'
  BY States, <1>s, <1>e, <1>r, <1>u DEF IInv, Holds, Coming, Asked, Answered, Alive, Ended,
        Pipes
<1>10. ListComplete'
  BY States, <1>s, <1>u DEF IInv, Holds, ListComplete
<1> QED
  BY <1>1, <1>2, <1>3, <1>4, <1>5, <1>6, <1>7, <1>8, <1>9, <1>10 DEF IInv

LEMMA ListEndsIInv ==
  ASSUME IInv, ListEnds
  PROVE  IInv'
<1>s. /\ pc' = pc /\ answer' = answer /\ at' = at /\ records' = records /\ filter' = filter /\ files' = files
      /\ exit' = exit
      /\ proc["ls-files"] = "running"
  BY DEF ListEnds, mine, End, SigPipe
<1>e. /\ proc'["ls-files"] \in {"ok", "failed"}
      /\ proc'["check-attr"] = proc["check-attr"]
      /\ "check-attr" \in writer["answers"] => "check-attr" \in writer'["answers"]
      /\ "git-crypt" \in writer["names"] => "git-crypt" \in writer'["names"]
      /\ "check-attr" \in reader["names"] => "check-attr" \in reader'["names"]
  BY DEF IInv, OtherTypes, ListEnds, index, mine, End, SigPipe, CloseAll, Pipes, Procs, Children
<1>u. /\ pipe' = pipe /\ written' = written /\ regular' = regular /\ encrypted' = encrypted
      /\ windows' = windows /\ old' = old
  BY DEF ListEnds, index, CloseAll
<1>f. /\ Listed' /\ Taken' = Taken /\ Wanted' = Wanted /\ Passed' = Passed
      /\ PassedBefore' = PassedBefore
  <2>1. /\ proc'["ls-files"] = "none" => proc["ls-files"] = "none"
        /\ proc'["ls-files"] = "ok" => proc["ls-files"] = "ok" \/ written = Count
    BY DEF IInv, OtherTypes, ListEnds, index, mine, End, SigPipe, CloseAll, Children, Procs
  <2> QED
    BY <1>u, <2>1, ListFrame DEF IInv
<1>1. PipeTypes' /\ OtherTypes'
  BY DEF IInv, PipeTypes, OtherTypes, ListEnds, index, mine, End, SigPipe, CloseAll, Pipes,
        Procs, Children
<1>2. Holds'
  BY States, <1>s, <1>e, <1>u DEF IInv, Holds, Alive, Ended
<1>3. Collected'
  BY States, <1>s, <1>e, <1>u, <1>f DEF IInv, Holds, Collected, Healthy, Alive, Ended
<1>4. Quiet' /\ Reads' /\ Judged' /\ Coming' /\ ListComplete'
  BY DEF IInv, Quiet, OtherTypes, Holds, Alive, Reads, Judged, Healthy, FilterIs, Coming, Asked,
        Answered, ListComplete, ListEnds, index, mine, End, SigPipe, CloseAll, Pipes, Procs,
        Children
<1> QED
  BY <1>f, <1>1, <1>2, <1>3, <1>4 DEF IInv

LEMMA ExecAttributesIInv ==
  ASSUME IInv, ExecAttributes
  PROVE  IInv'
<1>s. /\ pc' = pc /\ answer' = answer /\ at' = at /\ records' = records /\ filter' = filter /\ files' = files
      /\ exit' = exit
      /\ proc["check-attr"] = "forked"
  BY DEF ExecAttributes, mine
<1>e. /\ proc'["check-attr"] = "running"
      /\ proc'["ls-files"] = proc["ls-files"]
      /\ "ls-files" \in writer["listing"] => "ls-files" \in writer'["listing"]
      /\ "check-attr" \in writer["answers"] => "check-attr" \in writer'["answers"]
      /\ "git-crypt" \in writer["names"] => "git-crypt" \in writer'["names"]
      /\ "check-attr" \in reader["names"] => "check-attr" \in reader'["names"]
  BY DEF IInv, OtherTypes, ExecAttributes, index, mine, Pipes, Procs, Children
<1>u. /\ pipe' = pipe /\ written' = written /\ regular' = regular /\ encrypted' = encrypted
      /\ windows' = windows /\ old' = old
  BY DEF ExecAttributes, index
<1>f. /\ Listed' /\ Taken' = Taken /\ Wanted' = Wanted /\ Passed' = Passed
      /\ PassedBefore' = PassedBefore
  <2>1. /\ proc'["ls-files"] = "none" => proc["ls-files"] = "none"
        /\ proc'["ls-files"] = "ok" => proc["ls-files"] = "ok" \/ written = Count
    BY DEF IInv, OtherTypes, ExecAttributes, index, mine, Children, Procs
  <2> QED
    BY <1>u, <2>1, ListFrame DEF IInv
<1>1. PipeTypes' /\ OtherTypes' /\ Holds'
  BY DEF IInv, PipeTypes, OtherTypes, Holds, Alive, ExecAttributes, index, mine, Pipes, Procs,
        Children
<1>2. Collected'
  BY States, <1>s, <1>e, <1>u, <1>f DEF IInv, Holds, Collected, Healthy, Alive, Ended
<1>3. Quiet' /\ Reads' /\ Judged' /\ Coming' /\ ListComplete'
  BY DEF IInv, Quiet, OtherTypes, Holds, Alive, Reads, Judged, Healthy, FilterIs, Coming, Asked,
        Answered, ListComplete, ExecAttributes, index, mine, Pipes, Procs, Children
<1> QED
  BY <1>f, <1>1, <1>2, <1>3 DEF IInv

LEMMA ReadNameIInv ==
  ASSUME IInv, ReadName
  PROVE  IInv'
<1>s. /\ pc' = pc /\ at' = at /\ records' = records /\ filter' = filter /\ files' = files
      /\ exit' = exit
      /\ proc["check-attr"] = "running" /\ answer = <<>> /\ pipe["names"] # <<>>
      /\ answer' = Answer(Head(pipe["names"]))
  BY DEF ReadName, mine, CanRead
<1>e. /\ proc' = proc /\ writer' = writer /\ reader' = reader
  BY DEF IInv, OtherTypes, ReadName, index, ends, mine, CanRead, Read, Pipes, Procs, Children
<1>r. /\ pipe' = [q \in Pipes |-> pipe'[q]] /\ PipeTypes'
      /\ Len(pipe["names"]) \in Nat \ {0} /\ Len(pipe'["names"]) = Len(pipe["names"]) - 1
      /\ Head(pipe["names"]) = pipe["names"][1] /\ Head(pipe["names"]) \in Carries("names")
      /\ \A i \in 1..Len(pipe'["names"]) : pipe'["names"][i] = pipe["names"][i + 1]
      /\ \A q \in Pipes \ {"names"} : pipe'[q] = pipe[q]
  BY Reading DEF ReadName, Pipes
<1>u. /\ written' = written /\ regular' = regular /\ encrypted' = encrypted
      /\ windows' = windows /\ old' = old
  BY DEF ReadName, index
<1>f. /\ Listed' /\ Taken' = Taken /\ Wanted' = Wanted /\ Passed' = Passed
      /\ PassedBefore' = PassedBefore
  <2>1. /\ proc'["ls-files"] = "none" => proc["ls-files"] = "none"
        /\ proc'["ls-files"] = "ok" => proc["ls-files"] = "ok" \/ written = Count
    BY DEF IInv, OtherTypes, ReadName, index, ends, mine, CanRead, Read, Children, Procs
  <2>2. pipe'["listing"] = pipe["listing"]
    BY <1>r DEF Pipes
  <2> QED
    BY <1>u, <2>1, <2>2, ListFrame DEF IInv
<1>1. PipeTypes'
  BY <1>r
<1>2. OtherTypes'
  <2>1. reader' \in [Pipes -> SUBSET Procs] /\ writer' \in [Pipes -> SUBSET Procs]
    BY DEF IInv, OtherTypes, ReadName, index, ends, mine, CanRead, Read, Pipes, Procs, Children
  <2>2. proc' \in [Children -> {"none", "forked", "running", "ok", "failed"}]
    BY DEF IInv, OtherTypes, ReadName, index, ends, mine, CanRead, Read, Pipes, Procs, Children
  <2>3. windows' \in BOOLEAN /\ old' \in BOOLEAN
    BY Zenon, <1>u DEF IInv, OtherTypes
  <2>4. regular' \subseteq Entries /\ encrypted' \subseteq Entries
    BY Zenon, <1>u DEF IInv, OtherTypes
  <2>5. written' \in 0..Count
    BY States, <1>s, <1>u DEF IInv, OtherTypes
  <2>6. answer' \in Seq(Record)
    BY <1>s, <1>r, Answers DEF Carries
  <2>7. pc' \in {"list", "attributes", "entry", "ask", "answer", "wait_one",
                 "wait_list", "close", "wait_attributes", "done"}
    BY States, <1>s, <1>u DEF IInv, OtherTypes
  <2>8. at' \in Entries \cup {0} /\ records' \in 0..2
    BY States, <1>s, <1>u DEF IInv, OtherTypes
  <2>9. filter' \in BOOLEAN
    BY Zenon, <1>s DEF IInv, OtherTypes
  <2>10. files' \subseteq Entries
    BY States, <1>s, <1>u DEF IInv, OtherTypes
  <2>11. exit' \in {"none", "ok", "failed", "killed"}
    BY States, <1>s, <1>u DEF IInv, OtherTypes
  <2> QED
    BY Zenon, <2>1, <2>2, <2>3, <2>4, <2>5, <2>6, <2>7, <2>8, <2>9, <2>10, <2>11 DEF OtherTypes
<1>3. Holds'
  BY States, <1>s, <1>e, <1>u DEF IInv, Holds, Alive, Ended
<1>4. Collected'
  BY States, <1>s, <1>e, <1>u, <1>f, <1>r DEF IInv, Holds, Collected, Healthy, Alive, Ended,
        Pipes
<1>5. Quiet'
  BY States, <1>s, <1>e, <1>r, <1>u DEF IInv, Holds, Quiet, Alive, Ended, Pipes
<1>6. Reads'
  BY States, <1>s, <1>e, <1>r, <1>u DEF IInv, Holds, Reads, Quiet, Pipes
<1>7. Judged'
  BY States, <1>s, <1>e, <1>r, <1>u DEF IInv, Holds, Judged, Healthy, FilterIs, Alive, Ended,
        Pipes
<1>8. Coming'
  <2>1. SUFFICES ASSUME pc = "answer"
                 PROVE  Answered'
    BY <1>s DEF Coming
  <2>2. Asked /\ at \in Entries
    BY <1>s, <2>1 DEF IInv, Coming, Answered, Reads
  <2>3. Head(pipe["names"]) = at /\ Len(pipe["names"]) = 1
    BY <2>2 DEF Asked
  <2>4. pipe'["names"] = <<>>
    <3>1. pipe'["names"] \in Seq(Entries)
      BY <1>r DEF PipeTypes
    <3> QED
      BY <1>r, <2>3, <3>1, EmptySeq
  <2>5. answer' = Answer(at') /\ Len(answer') = 2
    BY <1>s, <2>2, <2>3, Answers
  <2>6. \A i \in 1..Len(answer') : answer'[i] = Answer(at')[2 - Len(answer') + i]
    BY <2>5
  <2>7. Len(pipe'["answers"]) + Len(answer') = records'
    <3>1. pipe'["answers"] = <<>> /\ Len(<<>>) = 0 /\ records' = 2
      BY <1>r, <1>s, <2>2 DEF Asked, Pipes
    <3> QED
      BY <2>5, <3>1
  <2> QED
    BY <2>4, <2>6, <2>7 DEF Answered
<1>9. ListComplete'
  BY States, <1>s, <1>u DEF IInv, Holds, ListComplete
<1> QED
  BY <1>f, <1>1, <1>2, <1>3, <1>4, <1>5, <1>6, <1>7, <1>8, <1>9 DEF IInv

LEMMA WriteRecordIInv ==
  ASSUME IInv, WriteRecord
  PROVE  IInv'
<1>s. /\ pc' = pc /\ at' = at /\ records' = records /\ filter' = filter /\ files' = files
      /\ exit' = exit
      /\ proc["check-attr"] = "running" /\ answer # <<>>
      /\ answer' = Tail(answer)
  BY DEF WriteRecord, mine, CanWrite
<1>e. /\ proc' = proc /\ writer' = writer /\ reader' = reader
  BY DEF IInv, OtherTypes, WriteRecord, index, ends, mine, CanWrite, Write, Pipes, Procs,
        Children
<1>w. Head(answer) \in Carries("answers")
  BY Types DEF IInv, OtherTypes, Collected, Carries, Entries, WriteRecord
<1>r. /\ pipe' = [q \in Pipes |-> pipe'[q]] /\ PipeTypes'
      /\ pipe'["answers"] = Append(pipe["answers"], Head(answer)) /\ Len(pipe'["answers"]) = Len(pipe["answers"]) + 1
      /\ pipe'["answers"][Len(pipe["answers"]) + 1] = Head(answer)
      /\ \A i \in 1..Len(pipe["answers"]) : pipe'["answers"][i] = pipe["answers"][i]
      /\ \A q \in Pipes \ {"answers"} : pipe'[q] = pipe[q]
      /\ Len(pipe["answers"]) \in Nat
  BY <1>w, Writing, Types DEF WriteRecord, Pipes
<1>u. /\ written' = written /\ regular' = regular /\ encrypted' = encrypted
      /\ windows' = windows /\ old' = old
  BY DEF WriteRecord, index
<1>f. /\ Listed' /\ Taken' = Taken /\ Wanted' = Wanted /\ Passed' = Passed
      /\ PassedBefore' = PassedBefore
  <2>1. /\ proc'["ls-files"] = "none" => proc["ls-files"] = "none"
        /\ proc'["ls-files"] = "ok" => proc["ls-files"] = "ok" \/ written = Count
    BY DEF IInv, OtherTypes, WriteRecord, index, ends, mine, CanWrite, Write, Children, Procs
  <2>2. pipe'["listing"] = pipe["listing"]
    BY <1>r DEF Pipes
  <2> QED
    BY <1>u, <2>1, <2>2, ListFrame DEF IInv
<1>1. PipeTypes'
  BY <1>r
<1>2. OtherTypes'
  BY DEF IInv, OtherTypes, WriteRecord, index, ends, mine, CanWrite, Write, Pipes, Procs,
        Children
<1>3. Holds'
  BY States, <1>s, <1>e, <1>u DEF IInv, Holds, Alive, Ended
<1>4. Collected'
  BY States, <1>s, <1>e, <1>u, <1>f, <1>r DEF IInv, Holds, Collected, Healthy, Alive, Ended,
        Pipes
<1>5. Quiet'
  BY States, <1>s, <1>e, <1>r, <1>u DEF IInv, Holds, Quiet, Alive, Ended, Pipes
<1>6. Reads'
  <2>1. SUFFICES ASSUME pc = "answer"
                 PROVE  /\ at' \in Entries /\ Len(pipe'["answers"]) <= records'
                         /\ \A i \in 1..Len(pipe'["answers"]) :
                              pipe'["answers"][i] = Answer(at')[2 - records' + i]
    BY <1>s DEF Reads
  <2>2. Answered
    BY <1>s, <2>1 DEF IInv, Coming, Asked
  <2>3. /\ Len(answer) \in Nat \ {0} /\ Head(answer) = answer[1] /\ Len(answer') = Len(answer) - 1
        /\ \A i \in 1..Len(answer') : answer'[i] = answer[i + 1]
    <3>1. answer \in Seq(Record) /\ answer # <<>>
      BY <1>s, Types
    <3> QED
      BY <1>s, <3>1, LenProperties, EmptySeq, HeadTailProperties
  <2>4. /\ Len(pipe["answers"]) + Len(answer) = records
        /\ \A i \in 1..Len(answer) : answer[i] = Answer(at)[2 - Len(answer) + i]
        /\ \A i \in 1..Len(pipe["answers"]) : pipe["answers"][i] = Answer(at)[2 - records + i]
    BY <2>1, <2>2 DEF IInv, Reads, Answered
  <2>5. answer[1] = Answer(at)[2 - Len(answer) + 1]
    BY <2>3, <2>4
  <2>6. 2 - Len(answer) + 1 = 2 - records + (Len(pipe["answers"]) + 1)
    BY <1>r, <2>3, <2>4
  <2>7. ASSUME NEW i \in 1..Len(pipe'["answers"])
        PROVE  pipe'["answers"][i] = Answer(at')[2 - records' + i]
    <3>1. CASE i \in 1..Len(pipe["answers"])
      BY <1>r, <1>s, <2>4, <3>1
    <3>2. CASE i = Len(pipe["answers"]) + 1
      BY <1>r, <1>s, <2>3, <2>5, <2>6, <3>2
    <3> QED
      BY <1>r, <3>1, <3>2
  <2>8. Len(pipe'["answers"]) <= records'
    BY <1>r, <1>s, <2>3, <2>4, States
  <2> QED
    BY <1>s, <2>1, <2>7, <2>8 DEF IInv, Reads
<1>7. Judged'
  BY States, <1>s, <1>e, <1>r, <1>u DEF IInv, Holds, Judged, Healthy, FilterIs, Alive, Ended,
        Pipes
<1>8. Coming'
  <2>1. SUFFICES ASSUME pc = "answer"
                 PROVE  Answered'
    BY <1>s DEF Coming
  <2>2. Answered
    BY <1>s, <2>1 DEF IInv, Coming, Asked
  <2>3. /\ Len(answer) \in Nat \ {0} /\ Head(answer) = answer[1] /\ Len(answer') = Len(answer) - 1
        /\ \A i \in 1..Len(answer') : answer'[i] = answer[i + 1]
    <3>1. answer \in Seq(Record) /\ answer # <<>>
      BY <1>s, Types
    <3> QED
      BY <1>s, <3>1, LenProperties, EmptySeq, HeadTailProperties
  <2>4. Len(pipe'["answers"]) + Len(answer') = records' /\ pipe'["names"] = <<>>
    BY <1>r, <1>s, <2>2, <2>3, States DEF Answered, Pipes
  <2>5. ASSUME NEW i \in 1..Len(answer')
        PROVE  answer'[i] = Answer(at')[2 - Len(answer') + i]
    <3>1. i + 1 \in 1..Len(answer) /\ 2 - Len(answer) + (i + 1) = 2 - Len(answer') + i
      BY <2>3
    <3> QED
      BY <1>s, <2>2, <2>3, <3>1 DEF Answered
  <2> QED
    BY <2>4, <2>5 DEF Answered
<1>9. ListComplete'
  BY States, <1>s, <1>u DEF IInv, Holds, ListComplete
<1> QED
  BY <1>f, <1>1, <1>2, <1>3, <1>4, <1>5, <1>6, <1>7, <1>8, <1>9 DEF IInv

LEMMA AttributesEndIInv ==
  ASSUME IInv, AttributesEnd
  PROVE  IInv'
<1>s. /\ pc' = pc /\ answer' = answer /\ at' = at /\ records' = records /\ filter' = filter /\ files' = files
      /\ exit' = exit
      /\ proc["check-attr"] = "running"
  BY DEF AttributesEnd, mine, End, SigPipe, EndOfFile
<1>e. /\ proc'["check-attr"] \in {"ok", "failed"}
      /\ proc'["ls-files"] = proc["ls-files"]
      /\ "ls-files" \in writer["listing"] => "ls-files" \in writer'["listing"]
      /\ "git-crypt" \in writer["names"] => "git-crypt" \in writer'["names"]
      /\ proc'["check-attr"] = "ok" => answer = <<>> /\ (old \/ writer["names"] = {})
  BY DEF IInv, OtherTypes, AttributesEnd, index, mine, End, SigPipe, EndOfFile, CloseAll, Pipes,
        Procs, Children
<1>u. /\ pipe' = pipe /\ written' = written /\ regular' = regular /\ encrypted' = encrypted
      /\ windows' = windows /\ old' = old
  BY DEF AttributesEnd, index, CloseAll
<1>f. /\ Listed' /\ Taken' = Taken /\ Wanted' = Wanted /\ Passed' = Passed
      /\ PassedBefore' = PassedBefore
  <2>1. /\ proc'["ls-files"] = "none" => proc["ls-files"] = "none"
        /\ proc'["ls-files"] = "ok" => proc["ls-files"] = "ok" \/ written = Count
    BY DEF IInv, OtherTypes, AttributesEnd, index, mine, End, SigPipe, EndOfFile, CloseAll,
          Children, Procs
  <2> QED
    BY <1>u, <2>1, ListFrame DEF IInv
<1>1. PipeTypes' /\ OtherTypes' /\ Holds'
  BY DEF IInv, PipeTypes, OtherTypes, Holds, Alive, AttributesEnd, index, mine, End, SigPipe,
        EndOfFile, CloseAll, Pipes, Procs, Children
<1>2. Collected'
  BY States, <1>s, <1>e, <1>u, <1>f DEF IInv, Holds, Collected, Healthy, Alive, Ended
<1>3. Quiet' /\ Reads' /\ Judged' /\ Coming' /\ ListComplete'
  BY DEF IInv, Quiet, OtherTypes, Holds, Alive, Reads, Judged, Healthy, FilterIs, Coming, Asked,
        Answered, ListComplete, AttributesEnd, index, mine, End, SigPipe, EndOfFile, CloseAll,
        Pipes, Procs, Children
<1> QED
  BY <1>f, <1>1, <1>2, <1>3 DEF IInv

LEMMA DiesIInv ==
  ASSUME IInv, NEW c \in Children, Dies(c)
  PROVE  IInv'
<1>s. /\ pc' = pc /\ answer' = answer /\ at' = at /\ records' = records /\ filter' = filter /\ files' = files
      /\ exit' = exit
  BY DEF Dies, mine, End
<1>e. /\ \/ /\ c = "ls-files" /\ proc["ls-files"] \in {"forked", "running"} /\ proc'["ls-files"] = "failed"
            /\ proc'["check-attr"] = proc["check-attr"]
            /\ ("check-attr" \in writer["answers"] => "check-attr" \in writer'["answers"])
            /\ ("check-attr" \in reader["names"] => "check-attr" \in reader'["names"])
         \/ /\ c = "check-attr" /\ proc["check-attr"] \in {"forked", "running"} /\ proc'["check-attr"] = "failed"
            /\ proc'["ls-files"] = proc["ls-files"]
            /\ ("ls-files" \in writer["listing"] => "ls-files" \in writer'["listing"])
      /\ "git-crypt" \in writer["names"] => "git-crypt" \in writer'["names"]
  BY DEF IInv, OtherTypes, Dies, index, mine, End, CloseAll, Pipes, Procs, Children
<1>u. /\ pipe' = pipe /\ written' = written /\ regular' = regular /\ encrypted' = encrypted
      /\ windows' = windows /\ old' = old
  BY DEF Dies, index, CloseAll
<1>f. /\ Listed' /\ Taken' = Taken /\ Wanted' = Wanted /\ Passed' = Passed
      /\ PassedBefore' = PassedBefore
  <2>1. /\ proc'["ls-files"] = "none" => proc["ls-files"] = "none"
        /\ proc'["ls-files"] = "ok" => proc["ls-files"] = "ok" \/ written = Count
    BY DEF IInv, OtherTypes, Dies, index, mine, End, CloseAll, Children, Procs
  <2> QED
    BY <1>u, <2>1, ListFrame DEF IInv
<1>1. PipeTypes' /\ OtherTypes'
  BY DEF IInv, PipeTypes, OtherTypes, Dies, index, mine, End, CloseAll, Pipes, Procs, Children
<1>2. Holds'
  BY States, <1>s, <1>e, <1>u DEF IInv, Holds, Alive, Ended
<1>3. Collected'
  BY States, <1>s, <1>e, <1>u, <1>f DEF IInv, Holds, Collected, Healthy, Alive, Ended
<1>4. Quiet' /\ Reads' /\ Judged' /\ Coming' /\ ListComplete'
  BY DEF IInv, Quiet, OtherTypes, Holds, Alive, Reads, Judged, Healthy, FilterIs, Coming, Asked,
        Answered, ListComplete, Dies, index, mine, End, CloseAll, Pipes, Procs, Children
<1> QED
  BY <1>f, <1>1, <1>2, <1>3, <1>4 DEF IInv

-----------------------------------------------------------------------------
(* The theorems.                                                           *)

LEMMA InitIInv == Init => IInv
<1> SUFFICES ASSUME Init
             PROVE  IInv
  OBVIOUS
<1>1. /\ pipe = [p \in Pipes |-> <<>>] /\ proc = [c \in Children |-> "none"] /\ written = 0
      /\ answer = <<>> /\ pc = "list" /\ at = 0 /\ records = 0 /\ filter = FALSE /\ files = {}
      /\ exit = "none"
  BY DEF Init
<1>2. pipe["listing"] = <<>> /\ pipe["names"] = <<>> /\ pipe["answers"] = <<>> /\ Len(<<>>) = 0
  BY <1>1 DEF Pipes
<1>3. PipeTypes
  <2>1. pipe = [p \in Pipes |-> pipe[p]] /\ \A p \in Pipes : Len(pipe[p]) = 0
    BY <1>1, <1>2
  <2>2. \A p \in Pipes : Len(pipe[p]) <= Capacity
    BY <2>1, CapacityAssumption
  <2> QED
    BY <1>2, <2>1, <2>2, EmptySeq DEF PipeTypes
<1>4. OtherTypes
  <2>1. /\ reader \in [Pipes -> SUBSET Procs] /\ writer \in [Pipes -> SUBSET Procs]
        /\ regular \subseteq Entries /\ encrypted \subseteq Entries
        /\ proc \in [Children -> {"none", "forked", "running", "ok", "failed"}]
    BY <1>1 DEF Init
  <2>2. /\ written \in 0..Count /\ answer \in Seq(Record) /\ at \in Entries \cup {0}
        /\ records \in 0..2 /\ files \subseteq Entries
    BY <1>1, EmptySeq, CountAssumption
  <2>3. windows \in BOOLEAN /\ old \in BOOLEAN /\ filter \in BOOLEAN
    BY Zenon, <1>1 DEF Init
  <2> QED
    BY Zenon, <1>1, <2>1, <2>2, <2>3 DEF OtherTypes
<1>5. proc["ls-files"] = "none" /\ proc["check-attr"] = "none"
  BY <1>1 DEF Children, Procs
<1>6. Holds /\ Quiet /\ Reads /\ Judged /\ Coming /\ ListComplete
  BY <1>1, <1>2, <1>5 DEF Holds, Quiet, Reads, Judged, Coming, ListComplete, Alive, Ended
<1>7. Listed /\ Collected
  <2>1. Taken = 0 /\ 1..Len(pipe["listing"]) = {}
    <3>1. Len(pipe["listing"]) = 0 /\ written = 0
      BY <1>1, <1>2
    <3>2. Taken = 0
      BY <3>1 DEF Taken
    <3> QED
      BY <3>1, <3>2
  <2> QED
    BY <1>1, <1>2, <1>5, <2>1 DEF Listed, Collected
<1> QED
  BY <1>3, <1>4, <1>6, <1>7 DEF IInv

LEMMA StepIInv == IInv /\ [Next]_vars => IInv'
<1> SUFFICES ASSUME IInv, [Next]_vars
             PROVE  IInv'
  OBVIOUS
<1>1. CASE GitCrypt
  BY Zenon, <1>1, SpawnListIInv, SpawnAttributesIInv, AskEachTimeIInv, SpawnFailsIInv, TakeEntryIInv,
     AskIInv, AskDiesIInv, AskInVainIInv, ReadRecordIInv, MissRecordIInv, TakeFileIInv,
     SpawnOneIInv, EndOfAnswerIInv, WaitOneIInv, EndOfListIInv, WaitListIInv,
     CloseStdinIInv, WaitAttributesIInv DEF GitCrypt
<1>2. CASE LsFiles
  BY Zenon, <1>2, ExecListIInv, ListEntryIInv, ListEndsIInv DEF LsFiles
<1>3. CASE CheckAttr
  BY Zenon, <1>3, ExecAttributesIInv, ReadNameIInv, WriteRecordIInv, AttributesEndIInv DEF CheckAttr
<1>4. CASE \E c \in Children : Dies(c)
  BY Zenon, <1>4, DiesIInv
<1>5. CASE UNCHANGED vars
  <2>1. /\ windows' = windows /\ old' = old /\ regular' = regular /\ encrypted' = encrypted
        /\ reader' = reader /\ writer' = writer /\ pipe' = pipe /\ proc' = proc
        /\ written' = written /\ answer' = answer /\ pc' = pc /\ at' = at /\ records' = records
        /\ filter' = filter /\ files' = files /\ exit' = exit
    BY <1>5 DEF vars, index, ends, mine
  <2>2. PipeTypes' /\ Holds'
    BY Zenon, <2>1 DEF IInv, PipeTypes, Holds, Alive, Ended
  <2>3. Listed' /\ Collected'
    BY Zenon, <2>1 DEF IInv, Listed, Collected, Taken, Wanted, Passed, PassedBefore, Healthy, Ended
  <2>4. Quiet' /\ Reads' /\ Judged' /\ Coming' /\ ListComplete'
    BY Zenon, <2>1 DEF IInv, Quiet, Reads, Judged, Coming, Asked, Answered, FilterIs, Healthy,
       Alive, ListComplete
  <2>5. OtherTypes'
    BY Zenon, <2>1 DEF IInv, OtherTypes
  <2> QED
    BY <2>2, <2>3, <2>4, <2>5 DEF IInv
<1> QED
  BY Zenon, <1>1, <1>2, <1>3, <1>4, <1>5 DEF Next

\* get_encrypted_files: the invariant holds in every state of every behaviour.
THEOREM CoprocessesInvariance == Spec => []IInv
  BY InitIInv, StepIInv, PTL DEF Spec

\* The pipes carry what they should, and never more than they hold.
THEOREM CoprocessesTypes == Spec => []TypeOK
<1>1. IInv => TypeOK
  BY TypeParts DEF IInv
<1> QED
  BY <1>1, CoprocessesInvariance, PTL

\* get_encrypted_files returns the whole list or fails, however many files there
\* are and whichever child dies when.
THEOREM ListIsComplete == Spec => []ListComplete
<1>1. IInv => ListComplete
  BY DEF IInv
<1> QED
  BY <1>1, CoprocessesInvariance, PTL

\* get_file_attributes never takes a record about another file for its answer.
THEOREM AnswersMatch == Spec => []RecordsMatch
<1>1. IInv => RecordsMatch
  <2> SUFFICES ASSUME IInv, NEW i \in 1..Len(pipe["answers"])
               PROVE  pc = "answer" /\ pipe["answers"][i].name = at
    BY DEF RecordsMatch
  <2>1. pc = "answer"
    <3>1. Len(<<>>) = 0
      OBVIOUS
    <3> QED
      BY <3>1 DEF IInv, Quiet
  <2>2. /\ at \in Entries /\ Len(pipe["answers"]) <= records /\ records \in 0..2
        /\ pipe["answers"][i] = Answer(at)[2 - records + i] /\ Len(pipe["answers"]) \in Nat
    BY <2>1, States, Types DEF IInv, Reads, Pipes
  <2>3. 2 - records + i \in {1, 2}
    BY <2>2
  <2> QED
    BY <2>1, <2>2, <2>3, Answers
<1> QED
  BY <1>1, CoprocessesInvariance, PTL
=============================================================================
