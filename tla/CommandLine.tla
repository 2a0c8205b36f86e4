---------------------------- MODULE CommandLine ----------------------------
(***************************************************************************)
(* How git-crypt puts an argument into a line another program takes apart  *)
(* again: the command line of a filter, which a shell reads, and on        *)
(* Windows every command it runs, which the C library of that command      *)
(* reads.  A string is a sequence of characters; a stretch in which none   *)
(* has a meaning to either is one character.                               *)
(***************************************************************************)
EXTENDS Naturals, SequencesExt

Quote == "\""
Backslash == "\\"
Backquote == "backquote"
Space == " "
Repeat(c, n) == [i \in 1..n |-> c]

-----------------------------------------------------------------------------
(* git-crypt                                                               *)

\* Mutant of EscapeShellArg: only the quote is escaped.
EscapeQuoteOnly(s) ==
  <<Quote>> \o FlattenSeq([i \in DOMAIN s |->
                 IF s[i] = Quote THEN <<Backslash, s[i]>> ELSE <<s[i]>>]) \o <<Quote>>

EscapeShellArg(s) ==
  <<Quote>> \o FlattenSeq([i \in DOMAIN s |->
                 IF s[i] \in {Quote, Backslash, "$", Backquote} THEN <<Backslash, s[i]>>
                 ELSE <<s[i]>>]) \o <<Quote>>

\* The characters so far, and a run of backslashes that waits for what follows it.
Put(st, c) ==
  IF c = Backslash THEN [line |-> st.line, run |-> st.run + 1]
  ELSE [line |-> st.line
          \o (IF c = Quote THEN Repeat(Backslash, 2 * st.run + 1) ELSE Repeat(Backslash, st.run))
          \o <<c>>,
        run |-> 0]

\* A run of backslashes is doubled before a quote, the closing one too.
EscapeCmdlineArgument(s) ==
  LET At[i \in 0..Len(s)] == IF i = 0 THEN [line |-> <<>>, run |-> 0] ELSE Put(At[i - 1], s[i])
      end == At[Len(s)]
  IN <<Quote>> \o end.line \o Repeat(Backslash, 2 * end.run) \o <<Quote>>

FormatCmdline(args) ==
  Tail(FlattenSeq([i \in DOMAIN args |-> <<Space>> \o EscapeCmdlineArgument(args[i])]))

-----------------------------------------------------------------------------
(* The readers.                                                            *)

Reader(words, word, inside, quoted, run) ==
  [words |-> words, word |-> word, inside |-> inside, quoted |-> quoted, run |-> run]

Start == Reader(<<>>, <<>>, FALSE, FALSE, 0)
Add(st, s) == Reader(st.words, st.word \o s, TRUE, st.quoted, 0)
EndWord(st) == IF st.inside THEN Reader(Append(st.words, st.word), <<>>, FALSE, st.quoted, st.run)
               ELSE st
Toggle(st) == Reader(st.words, st.word, TRUE, ~st.quoted, st.run)
Backslashed(st) == Reader(st.words, st.word, st.inside, st.quoted, st.run + 1)

\* sh -c: in quotes a backslash escapes what escape_shell_arg escapes, and is
\* itself before anything else; an expansion is whatever it is.
ShellReads(st, c) ==
  CASE st.run = 1 -> Add(st, IF st.quoted /\ c \notin {Quote, Backslash, "$", Backquote}
                             THEN <<Backslash, c>> ELSE <<c>>)
    [] st.run = 0 /\ c = Backslash -> Backslashed(st)
    [] st.run = 0 /\ c = Quote -> Toggle(st)
    [] st.run = 0 /\ c \in {"$", Backquote} -> Add(st, <<"an expansion">>)
    [] st.run = 0 /\ c = Space /\ ~st.quoted -> EndWord(st)
    [] OTHER -> Add(st, <<c>>)

ShellWords(line) ==
  LET At[i \in 0..Len(line)] == IF i = 0 THEN Start ELSE ShellReads(At[i - 1], line[i])
  IN EndWord(At[Len(line)]).words

\* CommandLineToArgv: backslashes are themselves unless a quote follows.
Flush(st, n) == Add(st, Repeat(Backslash, n))

ArgumentReads(st, c) ==
  CASE c = Backslash -> Backslashed(st)
    [] c = Quote /\ st.run % 2 = 1 -> Add(Flush(st, st.run \div 2), <<c>>)
    [] c = Quote /\ st.run % 2 = 0 -> Toggle(Flush(st, st.run \div 2))
    [] c = Space /\ ~st.quoted -> EndWord(IF st.run > 0 THEN Flush(st, st.run) ELSE st)
    [] OTHER -> Add(Flush(st, st.run), <<c>>)

ArgumentsOf(line) ==
  LET At[i \in 0..Len(line)] == IF i = 0 THEN Start ELSE ArgumentReads(At[i - 1], line[i])
      end == At[Len(line)]
  IN EndWord(IF end.run > 0 THEN Flush(end, end.run) ELSE end).words
=============================================================================
