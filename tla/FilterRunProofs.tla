-------------------------- MODULE FilterRunProofs --------------------------
(***************************************************************************)
(* The filter that runs is the one that was configured, with the key that  *)
(* is meant, and what it stored comes back: for every path of git-crypt,   *)
(* all secrets and inputs, and every size of the streams.                  *)
(*                                                                         *)
(* First what the operators compute: the words that sh, Windows and        *)
(* escape_cmdline_argument make of a line, then what Load and LoadLegacy   *)
(* make of a key file that is whole, cut off or has another format, then   *)
(* what the options come to.  What is said of every length is shown with   *)
(* the least number it would fail for.  The invariant of a run is last.    *)
(***************************************************************************)
EXTENDS FilterRun, FilterStreamProofs, FiniteSetTheorems, WellFoundedInduction

-----------------------------------------------------------------------------
(* The least number.                                                       *)

LEMMA LeastNat ==
  ASSUME NEW T, T \subseteq Nat, T # {}
  PROVE  \E x \in T : \A y \in T : x <= y
<1> DEFINE Less == OpToRel(<, Nat)
<1>1. \E x \in T : \A y \in T : ~(<<y, x>> \in Less)
  BY NatLessThanWellFounded, WFMin, Zenon
<1>2. \A x \in Nat, y \in Nat : y < x => <<y, x>> \in Less
  BY Zenon DEF OpToRel
<1>3. PICK x \in T : \A y \in T : ~(<<y, x>> \in Less)
  BY <1>1
<1>4. \A y \in T : ~(y < x)
  BY <1>2, <1>3, Zenon
<1> QED  BY <1>4

-----------------------------------------------------------------------------
(* FlattenSeq.  Its function exists.                                       *)

Flat(bs, f, n) == \A i \in 1..n : f[i] = IF i = 1 THEN bs[i] ELSE f[i - 1] \o bs[i]

LEMMA FlatExists ==
  ASSUME NEW G, \A s, t \in G : s \o t \in G, NEW bs \in Seq(G)
  PROVE  \A n \in 1..Len(bs) : \E f \in [1..n -> G] : Flat(bs, f, n)
<1> DEFINE Bad == {n \in 1..Len(bs) : ~\E f \in [1..n -> G] : Flat(bs, f, n)}
<1> SUFFICES ASSUME Bad # {} PROVE FALSE
  OBVIOUS
<1>1. PICK n \in Bad : \A m \in Bad : n <= m
  <2>1. Bad \subseteq Nat
    OBVIOUS
  <2> HIDE DEF Bad
  <2> QED  BY <2>1, LeastNat
<1>2. CASE n = 1
  <2> DEFINE f == [i \in 1..1 |-> bs[1]]
  <2>1. f \in [1..n -> G] /\ Flat(bs, f, n)
    BY <1>2 DEF Flat
  <2> QED  BY <2>1
<1>3. CASE n # 1
  <2>1. n - 1 \in 1..Len(bs) /\ n - 1 \notin Bad
    BY <1>1, <1>3
  <2>2. PICK f \in [1..(n - 1) -> G] : Flat(bs, f, n - 1)
    BY <2>1
  <2> DEFINE g == [i \in 1..n |-> IF i = n THEN f[n - 1] \o bs[n] ELSE f[i]]
  <2>3. f[n - 1] \in G /\ bs[n] \in G /\ f[n - 1] \o bs[n] \in G
    BY <2>1
  <2>4. g \in [1..n -> G]
    BY <2>3
  <2>5. \A i \in 1..n : g[i] = IF i = 1 THEN bs[i] ELSE g[i - 1] \o bs[i]
    <3> TAKE i \in 1..n
    <3>1. CASE i = n
      <4>1. n - 1 \in 1..n /\ n - 1 # n /\ n \in 1..n
        BY <2>1
      <4>2. g[n - 1] = f[n - 1] /\ g[n] = f[n - 1] \o bs[n]
        BY <4>1
      <4> QED  BY <3>1, <1>3, <4>2
    <3>2. CASE i # n
      <4>1. i \in 1..(n - 1) /\ (i # 1 => i - 1 \in 1..(n - 1) /\ i - 1 # n /\ i - 1 \in 1..n)
        BY <3>2
      <4> QED  BY <4>1, <3>2, <2>2 DEF Flat
    <3> QED  BY <3>1, <3>2
  <2> HIDE DEF g
  <2> QED  BY <2>4, <2>5 DEF Flat
<1> QED  BY <1>2, <1>3

\* What FlattenSeq(bs) is: the last value of such a function.
LEMMA FlattenIs ==
  ASSUME NEW G, \A s, t \in G : s \o t \in G, NEW bs \in Seq(G), Len(bs) # 0
  PROVE  \E f \in [1..Len(bs) -> G] : Flat(bs, f, Len(bs)) /\ FlattenSeq(bs) = f[Len(bs)]
<1> DEFINE n == Len(bs)
<1> DEFINE R(f) == [i \in 1..n |-> IF i = 1 THEN bs[i] ELSE f[i - 1] \o bs[i]]
<1> DEFINE h == CHOOSE f : f = R(f)
<1>1. n \in 1..Len(bs)
  BY LenProperties
<1>2. PICK f \in [1..n -> G] : Flat(bs, f, n)
  BY <1>1, FlatExists
<1>3. f = R(f)
  BY <1>2 DEF Flat
<1>4. h = R(h)
  BY <1>3
<1>5. FlattenSeq(bs) = h[n]
  BY DEF FlattenSeq
<1> HIDE DEF h
<1>6. \A i \in 1..n : h[i] = IF i = 1 THEN bs[i] ELSE h[i - 1] \o bs[i]
  BY <1>4
<1>7. \A i \in 1..n : h[i] \in G
  <2> DEFINE Bad == {i \in 1..n : h[i] \notin G}
  <2> SUFFICES ASSUME Bad # {} PROVE FALSE
    OBVIOUS
  <2>1. PICK i \in Bad : \A j \in Bad : i <= j
    <3>1. Bad \subseteq Nat
      OBVIOUS
    <3> HIDE DEF Bad
    <3> QED  BY <3>1, LeastNat
  <2>2. CASE i = 1
    BY <2>2, <1>6
  <2>3. CASE i # 1
    <3>1. i - 1 \in 1..n /\ i - 1 \notin Bad
      BY <2>1, <2>3
    <3> QED  BY <3>1, <1>6, <2>3
  <2> QED  BY <2>2, <2>3
<1>8. h \in [1..n -> G]
  BY <1>4, <1>7
<1> QED  BY <1>5, <1>6, <1>8 DEF Flat

-----------------------------------------------------------------------------
(* The three programs that go through a line character by character: sh,   *)
(* the C library of Windows, and escape_cmdline_argument.                  *)

Starts(how) == IF how = "escape" THEN [line |-> <<>>, run |-> 0] ELSE Start

Reads(how, st, c) ==
  CASE how = "sh"      -> ShellReads(st, c)
    [] how = "windows" -> ArgumentReads(st, c)
    [] OTHER           -> Put(st, c)

\* The states before the first character and after each.
States(how, line, f) ==
  f = [i \in 0..Len(line) |-> IF i = 0 THEN Starts(how) ELSE Reads(how, f[i - 1], line[i])]

\* The state after a line.
After(how, line) == (CHOOSE f : States(how, line, f))[Len(line)]

LEMMA StatesExist ==
  ASSUME NEW C, NEW line \in Seq(C), NEW how
  PROVE  \E f : States(how, line, f)
<1> DEFINE Upto(n, f) == f = [i \in 0..n |-> IF i = 0 THEN Starts(how) ELSE Reads(how, f[i - 1], line[i])]
           Bad == {n \in 0..Len(line) : ~\E f : Upto(n, f)}
<1>1. Len(line) \in Nat
  OBVIOUS
<1> SUFFICES ASSUME Bad # {} PROVE FALSE
  BY <1>1 DEF States
<1>2. PICK n \in Bad : \A m \in Bad : n <= m
  <2>1. Bad \subseteq Nat
    OBVIOUS
  <2> HIDE DEF Bad
  <2> QED  BY <2>1, LeastNat
<1>3. CASE n = 0
  <2> DEFINE f == [i \in 0..0 |-> Starts(how)]
  <2>1. Upto(n, f)
    BY <1>3
  <2> QED  BY <2>1, <1>2
<1>4. CASE n # 0
  <2>1. n - 1 \in 0..Len(line) /\ n \in Nat /\ n - 1 \in 0..(n - 1) /\ n - 1 \notin Bad
    <3>1. n \in 0..Len(line)
      BY <1>2
    <3> HIDE DEF Bad
    <3> QED  BY <1>1, <1>2, <1>4, <3>1
  <2>2. PICK f : Upto(n - 1, f)
    BY <2>1
  <2> DEFINE g == [i \in 0..n |-> IF i = n THEN Reads(how, f[n - 1], line[n]) ELSE f[i]]
  <2>3. \A i \in 0..n : g[i] = IF i = 0 THEN Starts(how) ELSE Reads(how, g[i - 1], line[i])
    <3> TAKE i \in 0..n
    <3>1. CASE i = n
      <4>1. n - 1 \in 0..n /\ n - 1 # n /\ n \in 0..n
        BY <2>1
      <4> QED  BY <4>1, <3>1, <1>4
    <3>2. CASE i # n
      <4>1. i \in 0..(n - 1) /\ (i # 0 => i - 1 \in 0..(n - 1) /\ i - 1 # n /\ i - 1 \in 0..n)
        BY <2>1, <3>2
      <4>2. f[i] = IF i = 0 THEN Starts(how) ELSE Reads(how, f[i - 1], line[i])
        BY <2>2, <4>1
      <4> QED  BY <4>1, <4>2, <3>2
    <3> QED  BY <3>1, <3>2
  <2>4. Upto(n, g)
    BY <2>3
  <2> QED  BY <2>4, <1>2
<1> QED  BY <1>3, <1>4

\* Any such states end in the same.
LEMMA StatesAgree ==
  ASSUME NEW C, NEW line \in Seq(C), NEW more \in Seq(C), NEW how, NEW f, NEW g, NEW n \in Nat,
         n <= Len(line), n <= Len(more), \A i \in 1..n : line[i] = more[i],
         States(how, line, f), States(how, more, g)
  PROVE  f[n] = g[n]
<1> DEFINE Bad == {i \in 0..n : f[i] # g[i]}
<1> SUFFICES ASSUME Bad # {} PROVE FALSE
  OBVIOUS
<1>1. PICK i \in Bad : \A j \in Bad : i <= j
  <2>1. Bad \subseteq Nat
    OBVIOUS
  <2> HIDE DEF Bad
  <2> QED  BY <2>1, LeastNat
<1>2. /\ i \in 0..Len(line) /\ i \in 0..Len(more)
      /\ i # 0 => i - 1 \in 0..n /\ i - 1 \notin Bad /\ line[i] = more[i]
  BY <1>1
<1>3. /\ f[i] = IF i = 0 THEN Starts(how) ELSE Reads(how, f[i - 1], line[i])
      /\ g[i] = IF i = 0 THEN Starts(how) ELSE Reads(how, g[i - 1], more[i])
  BY <1>2 DEF States
<1>4. i # 0 => f[i - 1] = g[i - 1]
  BY <1>2
<1> QED  BY <1>1, <1>2, <1>3, <1>4

LEMMA AfterIs ==
  ASSUME NEW C, NEW line \in Seq(C), NEW how, NEW f, States(how, line, f)
  PROVE  After(how, line) = f[Len(line)]
<1> DEFINE g == CHOOSE h : States(how, line, h)
<1>1. States(how, line, g)
  OBVIOUS
<1>2. Len(line) \in Nat
  OBVIOUS
<1> HIDE DEF g
<1>3. g[Len(line)] = f[Len(line)]
  BY <1>1, <1>2, StatesAgree
<1> QED  BY <1>3 DEF After, g

LEMMA AfterNothing ==
  ASSUME NEW how
  PROVE  After(how, <<>>) = Starts(how)
<1>1. <<>> \in Seq({}) /\ Len(<<>>) = 0
  OBVIOUS
<1>2. PICK f : States(how, <<>>, f)
  BY <1>1, StatesExist
<1>3. f[0] = Starts(how)
  BY <1>1, <1>2 DEF States
<1> QED  BY <1>1, <1>2, <1>3, AfterIs

\* One character more.
LEMMA AfterOne ==
  ASSUME NEW C, NEW line \in Seq(C), NEW how, NEW c \in C
  PROVE  After(how, Append(line, c)) = Reads(how, After(how, line), c)
<1> DEFINE more == Append(line, c)  n == Len(line)
<1>1. /\ more \in Seq(C) /\ Len(more) = n + 1 /\ n \in Nat
      /\ \A i \in 1..n : line[i] = more[i]
      /\ more[n + 1] = c
  OBVIOUS
<1> HIDE DEF more, n
<1>2. PICK f : States(how, line, f)
  BY StatesExist
<1>3. PICK g : States(how, more, g)
  BY <1>1, StatesExist
<1>4. f[n] = g[n]
  BY <1>1, <1>2, <1>3, StatesAgree DEF n
<1>5. n + 1 \in 0..Len(more) /\ n + 1 # 0 /\ n + 1 - 1 = n
  BY <1>1
<1>6. g[n + 1] = Reads(how, g[n], c)
  BY <1>1, <1>3, <1>5 DEF States
<1>7. After(how, more) = g[n + 1] /\ After(how, line) = f[n]
  BY <1>1, <1>2, <1>3, AfterIs DEF n
<1> QED  BY <1>4, <1>6, <1>7 DEF more

\* What they make of a line, in terms of the state after it.
LEMMA ShellWordsIs ==
  ASSUME NEW C, NEW line \in Seq(C)
  PROVE  ShellWords(line) = EndWord(After("sh", line)).words
<1> DEFINE R(f) == [i \in 0..Len(line) |-> IF i = 0 THEN Start ELSE ShellReads(f[i - 1], line[i])]
           h == CHOOSE f : f = R(f)
<1>1. \A f : States("sh", line, f) <=> f = R(f)
  <2>1. Starts("sh") = Start /\ \A st, c : Reads("sh", st, c) = ShellReads(st, c)
    BY DEF Starts, Reads
  <2> QED  BY <2>1 DEF States
<1>2. \E f : f = R(f)
  BY <1>1, StatesExist
<1>3. States("sh", line, h)
  BY <1>1, <1>2
<1>4. ShellWords(line) = EndWord(h[Len(line)]).words
  BY DEF ShellWords
<1> HIDE DEF h
<1>5. After("sh", line) = h[Len(line)]
  BY <1>3, AfterIs
<1> QED  BY <1>4, <1>5

LEMMA ArgumentsOfIs ==
  ASSUME NEW C, NEW line \in Seq(C)
  PROVE  \A st : st = After("windows", line) =>
           ArgumentsOf(line) = EndWord(IF st.run > 0 THEN Flush(st, st.run) ELSE st).words
<1> DEFINE R(f) == [i \in 0..Len(line) |-> IF i = 0 THEN Start ELSE ArgumentReads(f[i - 1], line[i])]
           h == CHOOSE f : f = R(f)
<1>1. \A f : States("windows", line, f) <=> f = R(f)
  <2>1. Starts("windows") = Start /\ \A st, c : Reads("windows", st, c) = ArgumentReads(st, c)
    BY DEF Starts, Reads
  <2> QED  BY <2>1 DEF States
<1>2. \E f : f = R(f)
  BY <1>1, StatesExist
<1>3. States("windows", line, h)
  BY <1>1, <1>2
<1>4. \A st : st = h[Len(line)] =>
        ArgumentsOf(line) = EndWord(IF st.run > 0 THEN Flush(st, st.run) ELSE st).words
  BY DEF ArgumentsOf
<1> HIDE DEF h
<1>5. After("windows", line) = h[Len(line)]
  BY <1>3, AfterIs
<1> QED  BY <1>4, <1>5

LEMMA EscapeIs ==
  ASSUME NEW C, NEW s \in Seq(C)
  PROVE  \A st : st = After("escape", s) =>
           EscapeCmdlineArgument(s) = <<Quote>> \o st.line \o Repeat(Backslash, 2 * st.run) \o <<Quote>>
<1> DEFINE R(f) == [i \in 0..Len(s) |-> IF i = 0 THEN [line |-> <<>>, run |-> 0] ELSE Put(f[i - 1], s[i])]
           h == CHOOSE f : f = R(f)
<1>1. \A f : States("escape", s, f) <=> f = R(f)
  <2>1. Starts("escape") = [line |-> <<>>, run |-> 0] /\ \A st, c : Reads("escape", st, c) = Put(st, c)
    BY DEF Starts, Reads
  <2> QED  BY <2>1 DEF States
<1>2. \E f : f = R(f)
  BY <1>1, StatesExist
<1>3. States("escape", s, h)
  BY <1>1, <1>2
<1>4. \A st : st = h[Len(s)] =>
        EscapeCmdlineArgument(s) = <<Quote>> \o st.line \o Repeat(Backslash, 2 * st.run) \o <<Quote>>
  BY DEF EscapeCmdlineArgument
<1> HIDE DEF h
<1>5. After("escape", s) = h[Len(s)]
  BY <1>3, AfterIs
<1> QED  BY <1>4, <1>5

-----------------------------------------------------------------------------
(* sh reads what escape_shell_arg wrote.                                   *)

Special == {Quote, Backslash, "$", Backquote}

LEMMA Differ == /\ Quote # Backslash /\ Quote # Space /\ Backslash # Space
                /\ Quote # "$" /\ Quote # Backquote
                /\ Backslash # "$" /\ Backslash # Backquote /\ Space # "$" /\ Space # Backquote
BY DEF Quote, Backslash, Space, Backquote

\* A sequence and one element more.
Extended(w, c) == w \o <<c>>

LEMMA SnocType == \A C : \A s \in Seq(C), c \in C : Extended(s, c) \in Seq(C) /\ Extended(s, c) = Append(s, c)
BY DEF Extended

LEMMA SnocIs == \A C : \A s \in Seq(C), c \in C : s \o <<c>> = Append(s, c) /\ Append(s, c) \in Seq(C)
OBVIOUS

LEMMA SnocTwo == \A C : \A s \in Seq(C), c, d \in C : s \o <<c, d>> = Append(Append(s, c), d)
OBVIOUS

LEMMA PrefixGrows ==
  \A C : \A s \in Seq(C) : /\ SubSeq(s, 1, 0) = <<>> /\ SubSeq(s, 1, Len(s)) = s
                           /\ \A i \in 1..Len(s) : SubSeq(s, 1, i) = Extended(SubSeq(s, 1, i - 1), s[i])
BY DEF Extended

\* In quotes each character but the special ones is itself, and those are, behind
\* a backslash.
LEMMA ShellQuoted ==
  ASSUME NEW ws, NEW w, NEW c
  PROVE  /\ c \notin Special =>
              Reads("sh", Reader(ws, w, TRUE, TRUE, 0), c) = Reader(ws, Extended(w, c), TRUE, TRUE, 0)
         /\ c \in Special =>
              Reads("sh", Reads("sh", Reader(ws, w, TRUE, TRUE, 0), Backslash), c)
                = Reader(ws, Extended(w, c), TRUE, TRUE, 0)
<1>1. \A st, d : Reads("sh", st, d) = ShellReads(st, d)
  BY DEF Reads
<1> DEFINE st == Reader(ws, w, TRUE, TRUE, 0)  u == Reader(ws, w, TRUE, TRUE, 1)
<1>2. st.run = 0 /\ st.quoted /\ u.run = 1 /\ u.quoted
  BY DEF Reader
<1>3. /\ Add(st, <<c>>) = Reader(ws, Extended(w, c), TRUE, TRUE, 0)
      /\ Add(u, <<c>>) = Reader(ws, Extended(w, c), TRUE, TRUE, 0)
      /\ Backslashed(st) = u
  BY DEF Add, Backslashed, Reader, Extended
<1> HIDE DEF st, u
<1>4. c \notin Special => ShellReads(st, c) = Add(st, <<c>>)
  <2> HAVE c \notin Special
  <2>1. /\ ~(st.run = 1) /\ ~(st.run = 0 /\ c = Backslash) /\ ~(st.run = 0 /\ c = Quote)
        /\ ~(st.run = 0 /\ c \in {"$", Backquote}) /\ ~(st.run = 0 /\ c = Space /\ ~st.quoted)
    BY <1>2 DEF Special
  <2> QED  BY <2>1, Zenon DEF ShellReads
<1>5. ShellReads(st, Backslash) = Backslashed(st)
  <2>1. /\ ~(st.run = 1) /\ st.run = 0 /\ Backslash = Backslash /\ ~(st.run = 0 /\ Backslash = Quote)
        /\ ~(st.run = 0 /\ Backslash \in {"$", Backquote})
        /\ ~(st.run = 0 /\ Backslash = Space /\ ~st.quoted)
    BY <1>2, Differ
  <2> QED  BY <2>1, Zenon DEF ShellReads
<1>6. c \in Special => ShellReads(u, c) = Add(u, <<c>>)
  BY <1>2, Differ DEF ShellReads, Special
<1>7. /\ c \notin Special => Reads("sh", st, c) = Reader(ws, Extended(w, c), TRUE, TRUE, 0)
      /\ c \in Special => Reads("sh", Reads("sh", st, Backslash), c) = Reader(ws, Extended(w, c), TRUE, TRUE, 0)
  BY <1>1, <1>3, <1>4, <1>5, <1>6
<1> QED  BY <1>7 DEF st

\* Outside quotes each of these is itself.
LEMMA ShellPlain ==
  ASSUME NEW ws, NEW w, NEW in, NEW c, c \notin Special \cup {Space}
  PROVE  Reads("sh", Reader(ws, w, in, FALSE, 0), c) = Reader(ws, Extended(w, c), TRUE, FALSE, 0)
<1> DEFINE st == Reader(ws, w, in, FALSE, 0)
<1>1. st.run = 0 /\ ~st.quoted
  BY DEF Reader
<1>2. Add(st, <<c>>) = Reader(ws, Extended(w, c), TRUE, FALSE, 0)
  BY DEF Add, Reader, Extended
<1> HIDE DEF st
<1>3. /\ ~(st.run = 1) /\ ~(st.run = 0 /\ c = Backslash) /\ ~(st.run = 0 /\ c = Quote)
      /\ ~(st.run = 0 /\ c \in {"$", Backquote}) /\ ~(st.run = 0 /\ c = Space /\ ~st.quoted)
  BY <1>1 DEF Special
<1>4. ShellReads(st, c) = Add(st, <<c>>)
  BY <1>3, Zenon DEF ShellReads
<1>5. Reads("sh", st, c) = ShellReads(st, c)
  BY DEF Reads
<1> QED  BY <1>2, <1>4, <1>5 DEF st

LEMMA ShellAtQuote == \A x : x.run = 0 => Reads("sh", x, Quote) = Toggle(x)
<1> TAKE x
<1> HAVE x.run = 0
<1>1. /\ ~(x.run = 1) /\ ~(x.run = 0 /\ Quote = Backslash) /\ (x.run = 0 /\ Quote = Quote)
      /\ ~(x.run = 0 /\ Quote \in {"$", Backquote}) /\ ~(x.run = 0 /\ Quote = Space /\ ~x.quoted)
  BY Differ
<1>2. ShellReads(x, Quote) = Toggle(x)
  BY <1>1, Zenon DEF ShellReads
<1> QED  BY <1>2 DEF Reads

LEMMA ShellOpens ==
  ASSUME NEW ws, NEW w, NEW in
  PROVE  Reads("sh", Reader(ws, w, in, FALSE, 0), Quote) = Reader(ws, w, TRUE, TRUE, 0)
<1> DEFINE st == Reader(ws, w, in, FALSE, 0)
<1>1. st.run = 0 /\ Toggle(st) = Reader(ws, w, TRUE, TRUE, 0)
  BY DEF Reader, Toggle
<1> HIDE DEF st
<1>2. Reads("sh", st, Quote) = Reader(ws, w, TRUE, TRUE, 0)
  BY <1>1, ShellAtQuote
<1> QED  BY <1>2 DEF st

LEMMA ShellCloses ==
  ASSUME NEW ws, NEW w, NEW in
  PROVE  Reads("sh", Reader(ws, w, in, TRUE, 0), Quote) = Reader(ws, w, TRUE, FALSE, 0)
<1> DEFINE st == Reader(ws, w, in, TRUE, 0)
<1>1. st.run = 0 /\ Toggle(st) = Reader(ws, w, TRUE, FALSE, 0)
  BY DEF Reader, Toggle
<1> HIDE DEF st
<1>2. Reads("sh", st, Quote) = Reader(ws, w, TRUE, FALSE, 0)
  BY <1>1, ShellAtQuote
<1> QED  BY <1>2 DEF st

LEMMA ShellEndsWord ==
  ASSUME NEW ws, NEW w
  PROVE  Reads("sh", Reader(ws, w, TRUE, FALSE, 0), Space) = Reader(Append(ws, w), <<>>, FALSE, FALSE, 0)
<1> DEFINE st == Reader(ws, w, TRUE, FALSE, 0)
<1>1. st.run = 0 /\ ~st.quoted /\ EndWord(st) = Reader(Append(ws, w), <<>>, FALSE, FALSE, 0)
  BY DEF Reader, EndWord
<1> HIDE DEF st
<1>2. /\ ~(st.run = 1) /\ ~(st.run = 0 /\ Space = Backslash) /\ ~(st.run = 0 /\ Space = Quote)
      /\ ~(st.run = 0 /\ Space \in {"$", Backquote}) /\ (st.run = 0 /\ Space = Space /\ ~st.quoted)
  BY <1>1, Differ
<1>3. ShellReads(st, Space) = EndWord(st)
  BY <1>2, Zenon DEF ShellReads
<1>4. Reads("sh", st, Space) = ShellReads(st, Space)
  BY DEF Reads
<1> QED  BY <1>1, <1>3, <1>4 DEF st

LEMMA ConcatType == \A C : \A a, b \in Seq(C) : a \o b \in Seq(C)
OBVIOUS

LEMMA ConcatAssociates ==
  ASSUME NEW C, NEW a \in Seq(C), NEW b \in Seq(C), NEW c \in Seq(C)
  PROVE  a \o (b \o c) = (a \o b) \o c
OBVIOUS

\* The quoted argument is one word, the argument.
LEMMA ShellArgument ==
  ASSUME NEW C, {Quote, Backslash} \subseteq C, NEW s \in Seq(C)
  PROVE  /\ EscapeShellArg(s) \in Seq(C)
         /\ After("sh", EscapeShellArg(s)) = Reader(<<>>, s, TRUE, FALSE, 0)
<1> DEFINE n == Len(s)
           bs == [i \in DOMAIN s |-> IF s[i] \in Special THEN <<Backslash, s[i]>> ELSE <<s[i]>>]
           q == <<Quote>>
<1>1. /\ n \in Nat /\ DOMAIN s = 1..n /\ \A i \in 1..n : s[i] \in C
      /\ Quote \in C /\ Backslash \in C /\ q \in Seq(C)
  OBVIOUS
<1>2. EscapeShellArg(s) = q \o FlattenSeq(bs) \o q
  BY DEF EscapeShellArg, Special
<1>3. bs \in Seq(Seq(C)) /\ Len(bs) = n
  BY <1>1
<1>4. After("sh", q) = Reader(<<>>, <<>>, TRUE, TRUE, 0)
  <2>1. <<>> \in Seq(C) /\ q = Append(<<>>, Quote)
    OBVIOUS
  <2>2. After("sh", <<>>) = Reader(<<>>, <<>>, FALSE, FALSE, 0)
    BY AfterNothing DEF Starts, Start
  <2>3. After("sh", Append(<<>>, Quote)) = Reads("sh", After("sh", <<>>), Quote)
    BY <1>1, <2>1, AfterOne, ZenonT(60)
  <2>4. Reads("sh", Reader(<<>>, <<>>, FALSE, FALSE, 0), Quote) = Reader(<<>>, <<>>, TRUE, TRUE, 0)
    BY ShellOpens, Zenon
  <2> HIDE DEF q
  <2> QED  BY <2>1, <2>2, <2>3, <2>4, Zenon
<1>5. ASSUME NEW x \in Seq(C), After("sh", q \o x) = Reader(<<>>, s, TRUE, TRUE, 0)
      PROVE  q \o x \o q \in Seq(C) /\ After("sh", q \o x \o q) = Reader(<<>>, s, TRUE, FALSE, 0)
  <2>1. q \o x \in Seq(C)
    BY <1>1, ConcatType
  <2>2. q \o x \o q = Append(q \o x, Quote) /\ Append(q \o x, Quote) \in Seq(C)
    BY <1>1, <2>1, SnocIs
  <2>3. After("sh", Append(q \o x, Quote)) = Reads("sh", After("sh", q \o x), Quote)
    BY <1>1, <2>1, AfterOne, ZenonT(60)
  <2>4. Reads("sh", Reader(<<>>, s, TRUE, TRUE, 0), Quote) = Reader(<<>>, s, TRUE, FALSE, 0)
    BY ShellCloses, Zenon
  <2> HIDE DEF q
  <2> QED  BY <1>5, <2>2, <2>3, <2>4, Zenon
<1>6. CASE n = 0
  <2>1. FlattenSeq(bs) = bs /\ bs = <<>> /\ s = <<>>
    BY <1>1, <1>3, <1>6 DEF FlattenSeq
  <2>2. <<>> \in Seq(C) /\ q \o <<>> = q
    BY <1>1
  <2> QED  BY <1>2, <1>4, <1>5, <2>1, <2>2
<1>7. CASE n # 0
  <2> HIDE DEF q
  <2>1. \A x, y \in Seq(C) : x \o y \in Seq(C)
    BY ConcatType
  <2>2. PICK f \in [1..n -> Seq(C)] : Flat(bs, f, n) /\ FlattenSeq(bs) = f[n]
    <3> HIDE DEF bs, n
    <3> QED  BY <1>3, <1>7, <2>1, FlattenIs
  <2>3. \A i \in 1..n : f[i] = IF i = 1 THEN bs[i] ELSE f[i - 1] \o bs[i]
    BY <2>2 DEF Flat
  <2> DEFINE ReadTo(i) == After("sh", q \o f[i]) = Reader(<<>>, SubSeq(s, 1, i), TRUE, TRUE, 0)
             Bad == {i \in 1..n : ~ReadTo(i)}
  <2>4. \A i \in 1..n : \A x \in Seq(C) : \A w :
          After("sh", x) = Reader(<<>>, w, TRUE, TRUE, 0) =>
            /\ x \o bs[i] \in Seq(C)
            /\ After("sh", x \o bs[i]) = Reader(<<>>, Extended(w, s[i]), TRUE, TRUE, 0)
    <3> TAKE i \in 1..n
    <3> TAKE x \in Seq(C)
    <3> TAKE w
    <3> HAVE After("sh", x) = Reader(<<>>, w, TRUE, TRUE, 0)
    <3>1. s[i] \in C
      BY <1>1
    <3>2. CASE s[i] \in Special
      <4>1. bs[i] = <<Backslash, s[i]>>
        BY <1>1, <3>2
      <4> DEFINE one == Append(x, Backslash)  two == Append(one, s[i])
      <4>2. x \o <<Backslash, s[i]>> = two /\ one \in Seq(C) /\ two \in Seq(C)
        BY <1>1, <3>1, SnocTwo
      <4>3. After("sh", one) = Reads("sh", After("sh", x), Backslash)
        BY <1>1, AfterOne
      <4> HIDE DEF one
      <4>4. After("sh", two) = Reads("sh", After("sh", one), s[i])
        BY <3>1, <4>2, AfterOne
      <4>5. Reads("sh", Reads("sh", Reader(<<>>, w, TRUE, TRUE, 0), Backslash), s[i])
              = Reader(<<>>, Extended(w, s[i]), TRUE, TRUE, 0)
        BY <3>2, ShellQuoted
      <4> HIDE DEF bs, two
      <4> QED  BY <4>1, <4>2, <4>3, <4>4, <4>5
    <3>3. CASE s[i] \notin Special
      <4>1. bs[i] = <<s[i]>>
        BY <1>1, <3>3
      <4> DEFINE one == Append(x, s[i])
      <4>2. x \o <<s[i]>> = one /\ one \in Seq(C)
        BY <3>1, SnocIs
      <4>3. After("sh", one) = Reads("sh", After("sh", x), s[i])
        BY <3>1, AfterOne
      <4>4. Reads("sh", Reader(<<>>, w, TRUE, TRUE, 0), s[i]) = Reader(<<>>, Extended(w, s[i]), TRUE, TRUE, 0)
        BY <3>3, ShellQuoted
      <4> HIDE DEF bs, one
      <4> QED  BY <4>1, <4>2, <4>3, <4>4
    <3> QED  BY <3>2, <3>3
  <2>5. ASSUME Bad # {} PROVE FALSE
    <3>1. PICK i \in Bad : \A j \in Bad : i <= j
      <4>1. Bad \subseteq 1..n
        OBVIOUS
      <4>2. 1..n \subseteq Nat
        BY <1>1
      <4> HIDE DEF Bad
      <4> QED  BY <2>5, <4>2, <4>1, LeastNat
    <3>2. i \in 1..n /\ ~ReadTo(i)
      OBVIOUS
    <3> HIDE DEF bs
    <3>3. CASE i = 1
      <4>1. f[i] = bs[1]
        BY <1>1, <2>3, <3>2, <3>3
      <4>3. SubSeq(s, 1, 1) = Extended(<<>>, s[1])
        <5>1. 1 \in 1..Len(s) /\ 1 - 1 = 0
          BY <1>1, <3>2, <3>3
        <5>2. SubSeq(s, 1, 1) = Extended(SubSeq(s, 1, 1 - 1), s[1])
          BY <5>1, PrefixGrows, Zenon
        <5> QED  BY <5>1, <5>2, PrefixGrows, Zenon
      <4>2. After("sh", q \o bs[1]) = Reader(<<>>, Extended(<<>>, s[1]), TRUE, TRUE, 0)
        BY <1>1, <1>4, <2>4, <3>2, <3>3
      <4> QED  BY <3>2, <3>3, <4>1, <4>2, <4>3
    <3>4. CASE i # 1
      <4>1. i - 1 \in 1..n /\ i - 1 \notin Bad
        <5>1. i - 1 \in 1..n /\ i - 1 < i
          BY <1>1, <3>2, <3>4
        <5>2. i \in Nat /\ i - 1 \in Nat
          BY <1>1, <3>2, <3>4
        <5> HIDE DEF Bad
        <5> QED  BY <3>1, <5>1, <5>2
      <4>2. f[i] = f[i - 1] \o bs[i] /\ f[i - 1] \in Seq(C)
        BY <2>3, <3>2, <3>4, <4>1
      <4>3. bs[i] \in Seq(C)
        BY <1>3, <3>2
      <4>4. q \o f[i] = (q \o f[i - 1]) \o bs[i] /\ q \o f[i - 1] \in Seq(C)
        <5>1. q \in Seq(C) /\ f[i - 1] \in Seq(C)
          BY <1>1, <4>2
        <5>4. \A y, z \in Seq(C) : q \o (y \o z) = (q \o y) \o z
          BY <5>1, SMTT(30)
        <5>2. q \o (f[i - 1] \o bs[i]) = (q \o f[i - 1]) \o bs[i]
          BY <4>3, <5>1, <5>4, Zenon
        <5>3. q \o f[i - 1] \in Seq(C)
          BY <5>1, ConcatType, Zenon
        <5> QED  BY <4>2, <5>2, <5>3
      <4>5. SubSeq(s, 1, i) = Extended(SubSeq(s, 1, i - 1), s[i])
        BY <3>2, PrefixGrows
      <4>6. ReadTo(i - 1)
        BY <4>1
      <4>7. After("sh", q \o f[i - 1]) = Reader(<<>>, SubSeq(s, 1, i - 1), TRUE, TRUE, 0)
        BY <4>6
      <4>8. After("sh", (q \o f[i - 1]) \o bs[i]) = Reader(<<>>, Extended(SubSeq(s, 1, i - 1), s[i]), TRUE, TRUE, 0)
        BY <2>4, <3>2, <4>4, <4>7
      <4> QED  BY <3>2, <4>4, <4>5, <4>8
    <3> QED  BY <3>3, <3>4
  <2>6. n \in 1..n /\ f[n] \in Seq(C) /\ SubSeq(s, 1, n) = s
    BY <1>1, <1>7
  <2>7. ReadTo(n)
    BY <2>5, <2>6
  <2>8. After("sh", q \o f[n]) = Reader(<<>>, s, TRUE, TRUE, 0)
    BY <2>6, <2>7
  <2> QED  BY <1>2, <1>5, <2>2, <2>6, <2>8
<1> QED  BY <1>6, <1>7

\* A word more, of characters that mean nothing to the shell.
One(c) == Extended(<<>>, c)
OneMore(line, c) == Append(Append(line, Space), c)

LEMMA MoreTypes == \A C : \A line \in Seq(C), c \in C :
                     Append(line, c) \in Seq(C) /\ (Space \in C => OneMore(line, c) \in Seq(C))
BY DEF OneMore

\* The shell is in a word, or between two.
InWord(line, ws, w) == After("sh", line) = Reader(ws, w, TRUE, FALSE, 0)
Between(line, ws) == After("sh", line) = Reader(ws, <<>>, FALSE, FALSE, 0)

LEMMA ShellMore ==
  ASSUME NEW C, NEW line \in Seq(C), NEW ws, NEW w, NEW c \in C \ (Special \cup {Space}),
         InWord(line, ws, w)
  PROVE  InWord(Append(line, c), ws, Extended(w, c))
<1>1. c \notin Special \cup {Space}
  OBVIOUS
<1>2. After("sh", Append(line, c)) = Reads("sh", After("sh", line), c)
  BY AfterOne
<1>3. Reads("sh", Reader(ws, w, TRUE, FALSE, 0), c) = Reader(ws, Extended(w, c), TRUE, FALSE, 0)
  BY <1>1, ShellPlain, Zenon
<1> QED  BY <1>1, <1>2, <1>3, Zenon DEF InWord

LEMMA ShellFirst ==
  ASSUME NEW C, NEW line \in Seq(C), NEW ws, NEW c \in C \ (Special \cup {Space}), Between(line, ws)
  PROVE  InWord(Append(line, c), ws, One(c))
<1>1. c \notin Special \cup {Space}
  OBVIOUS
<1>2. After("sh", Append(line, c)) = Reads("sh", After("sh", line), c)
  BY AfterOne
<1>3. Reads("sh", Reader(ws, <<>>, FALSE, FALSE, 0), c) = Reader(ws, Extended(<<>>, c), TRUE, FALSE, 0)
  BY <1>1, ShellPlain, Zenon
<1> QED  BY <1>1, <1>2, <1>3, Zenon DEF InWord, Between, One

LEMMA ShellWord ==
  ASSUME NEW C, NEW line \in Seq(C), NEW ws, NEW w, Space \in C, NEW c \in C \ (Special \cup {Space}),
         InWord(line, ws, w)
  PROVE  InWord(OneMore(line, c), Append(ws, w), One(c))
<1> DEFINE one == Append(line, Space)
<1>1. one \in Seq(C)
  OBVIOUS
<1>2. After("sh", one) = Reads("sh", After("sh", line), Space)
  BY AfterOne
<1> HIDE DEF one
<1>3. Reads("sh", Reader(ws, w, TRUE, FALSE, 0), Space) = Reader(Append(ws, w), <<>>, FALSE, FALSE, 0)
  BY ShellEndsWord, Zenon
<1>4. Between(one, Append(ws, w))
  BY <1>2, <1>3, Zenon DEF InWord, Between
<1>5. InWord(Append(one, c), Append(ws, w), One(c))
  BY <1>1, <1>4, ShellFirst, Zenon
<1> QED  BY <1>5 DEF OneMore, one

\* Tuples.
LEMMA SameTuple ==
  \A C : \A s, t \in Seq(C) : Len(s) = Len(t) /\ (\A i \in 1..Len(s) : s[i] = t[i]) => s = t
OBVIOUS

LEMMA Grows1 == \A a : <<>> \o <<a>> = <<a>> /\ Append(<<>>, a) = <<a>>
<1> TAKE a
<1>1. a \in {a} /\ <<>> \in Seq({a}) /\ <<a>> \in Seq({a})
  OBVIOUS
<1> QED  BY <1>1

LEMMA Grows2 == \A a, b : <<a>> \o <<b>> = <<a, b>> /\ Append(<<a>>, b) = <<a, b>>
<1> TAKE a, b
<1> DEFINE C == {a, b}  s == Append(<<a>>, b)  t == <<a, b>>
<1>1. <<a>> \in Seq(C) /\ b \in C /\ Len(<<a>>) = 1 /\ <<a>>[1] = a
  OBVIOUS
<1>2. s \in Seq(C) /\ Len(s) = 2 /\ s[2] = b /\ s[1] = a
  BY <1>1
<1>3. t \in Seq(C) /\ Len(t) = 2 /\ t[1] = a /\ t[2] = b
  OBVIOUS
<1>4. \A i \in 1..2 : i = 1 \/ i = 2
  OBVIOUS
<1>5. <<a>> \o <<b>> = s
  BY <1>1, SnocIs, Zenon
<1> HIDE DEF s, t, C
<1>6. s = t
  BY <1>2, <1>3, <1>4, SameTuple
<1> QED  BY <1>5, <1>6 DEF s, t

LEMMA Grows3 == \A a, b, c : <<a, b>> \o <<c>> = <<a, b, c>> /\ Append(<<a, b>>, c) = <<a, b, c>>
<1> TAKE a, b, c
<1> DEFINE C == {a, b, c}  s == Append(<<a, b>>, c)  t == <<a, b, c>>
<1>1. <<a, b>> \in Seq(C) /\ c \in C /\ Len(<<a, b>>) = 2 /\ <<a, b>>[1] = a /\ <<a, b>>[2] = b
  OBVIOUS
<1>2. s \in Seq(C) /\ Len(s) = 3 /\ s[3] = c /\ s[1] = a /\ s[2] = b
  BY <1>1
<1>3. t \in Seq(C) /\ Len(t) = 3 /\ t[1] = a /\ t[2] = b /\ t[3] = c
  OBVIOUS
<1>4. \A i \in 1..3 : i = 1 \/ i = 2 \/ i = 3
  OBVIOUS
<1>5. <<a, b>> \o <<c>> = s
  BY <1>1, SnocIs, Zenon
<1> HIDE DEF s, t, C
<1>6. s = t
  BY <1>2, <1>3, <1>4, SameTuple
<1> QED  BY <1>5, <1>6 DEF s, t

LEMMA ThenNothing == \A a, b : <<a, b>> \o <<>> = <<a, b>>
<1> TAKE a, b
<1>1. <<a, b>> \in Seq({a, b})
  OBVIOUS
<1> QED  BY <1>1

LEMMA TwoWords == \A a, c : Append(Append(<<>>, a), One(c)) = <<a, <<c>>>>
<1> TAKE a, c
<1>1. Append(<<>>, a) = <<a>> /\ One(c) = <<c>>
  BY Grows1, Zenon DEF One, Extended
<1>2. Append(<<a>>, <<c>>) = <<a, <<c>>>>
  BY Grows2, Zenon
<1> QED  BY <1>1, <1>2, Zenon

LEMMA ThreeCharacters == \A a, b, c : Extended(Extended(One(a), b), c) = <<a, b, c>>
<1> TAKE a, b, c
<1>1. One(a) = <<a>>
  BY Grows1, Zenon DEF One, Extended
<1>2. Extended(<<a>>, b) = <<a, b>> /\ Extended(<<a, b>>, c) = <<a, b, c>>
  BY Grows2, Grows3, Zenon DEF Extended
<1> QED  BY <1>1, <1>2, Zenon

LEMMA OneWordMore == \A a, b, t : Append(<<a, b>>, t) = <<a, b>> \o <<t>>
<1> TAKE a, b, t
<1>1. Append(<<a, b>>, t) = <<a, b, t>> /\ <<a, b>> \o <<t>> = <<a, b, t>>
  BY Grows3, Zenon
<1> QED  BY <1>1, Zenon

LEMMA Ordinary ==
  ASSUME NEW c \in {"clean", "smudge", "diff", "--key-name", "=", "default", "alpha", "file"}
  PROVE  c \notin Special \cup {Space}
BY DEF Special, Quote, Backslash, Backquote, Space

\* What the configuration says of a key, and what git appends for a textconv.
KeyOption(n) == IF n = NoName THEN <<>> ELSE <<Space, "--key-name", "=", n>>
KeyArgument(n) == IF n = NoName THEN <<>> ELSE <<<<"--key-name", "=", n>>>>
FileOption(c) == IF c = "diff" THEN <<Space, "file">> ELSE <<>>
FileArgument(c) == IF c = "diff" THEN <<<<"file">>>> ELSE <<>>
Command(p, c, n) == EscapeShellArg(p) \o <<Space, c>> \o KeyOption(n)

LettersOf(p) == Range(p) \cup Special \cup {Space, "--key-name", "=", "alpha", "default", "file"} \cup Filters

LEMMA ShellCommand ==
  ASSUME NEW p, p \in Seq(Range(p)), NEW c \in Filters, NEW n \in {NoName, Name}
  PROVE  /\ Command(p, c, n) \in Seq(LettersOf(p))
         /\ \E ws, w : /\ InWord(Command(p, c, n), ws, w)
                       /\ Append(ws, w) = <<p, <<c>>>> \o KeyArgument(n)
<1> DEFINE C == LettersOf(p)  e == EscapeShellArg(p)  l == OneMore(e, c)
<1>1. /\ p \in Seq(C) /\ {Quote, Backslash} \subseteq C /\ Space \in C
      /\ c \in C \ (Special \cup {Space}) /\ n \in C \ (Special \cup {Space})
      /\ "--key-name" \in C \ (Special \cup {Space}) /\ "=" \in C \ (Special \cup {Space})
  <2>1. p \in Seq(C)
    BY DEF LettersOf
  <2>2. c \in {"clean", "smudge", "diff"} /\ n \in {"default", "alpha"} /\ c \in C /\ n \in C
    BY DEF Filters, NoName, Name, LettersOf
  <2>3. c \notin Special \cup {Space} /\ n \notin Special \cup {Space}
    BY <2>2, Ordinary
  <2>4. "--key-name" \notin Special \cup {Space} /\ "=" \notin Special \cup {Space}
    BY Ordinary
  <2>5. {Quote, Backslash} \subseteq C /\ Space \in C /\ "--key-name" \in C /\ "=" \in C
    BY DEF LettersOf, Special
  <2> QED  BY <2>1, <2>2, <2>3, <2>4, <2>5
<1> HIDE DEF C
<1>2. e \in Seq(C) /\ InWord(e, <<>>, p)
  BY <1>1, ShellArgument DEF InWord
<1> HIDE DEF e
<1>3. l \in Seq(C) /\ InWord(l, Append(<<>>, p), One(c))
  <2>1. l \in Seq(C)
    BY <1>1, <1>2, MoreTypes
  <2>2. InWord(l, Append(<<>>, p), One(c))
    BY <1>1, <1>2, ShellWord, Zenon
  <2> QED  BY <2>1, <2>2
<1>4. Command(p, c, n) = l \o KeyOption(n)
  <2>1. e \o <<Space, c>> = l
    BY <1>1, <1>2 DEF OneMore
  <2> QED  BY <2>1 DEF Command, e
<1> HIDE DEF l
<1>5. CASE n = NoName
  <2>1. KeyOption(n) = <<>> /\ KeyArgument(n) = <<>>
    BY <1>5 DEF KeyOption, KeyArgument
  <2>2. l \o <<>> = l
    BY <1>3
  <2>4. Append(Append(<<>>, p), One(c)) = <<p, <<c>>>> \o <<>>
    BY TwoWords, ThenNothing, Zenon
  <2>3. Command(p, c, n) = l
    BY <1>4, <2>1, <2>2
  <2> QED  BY <1>3, <2>1, <2>3, <2>4 DEF C
<1>6. CASE n # NoName
  <2> DEFINE l1 == OneMore(l, "--key-name")  l2 == Append(l1, "=")  l3 == Append(l2, n)
             ws == Append(Append(<<>>, p), One(c))
             w1 == One("--key-name")  w2 == Extended(w1, "=")  w3 == Extended(w2, n)
  <2>1. KeyOption(n) = <<Space, "--key-name", "=", n>> /\ KeyArgument(n) = <<<<"--key-name", "=", n>>>>
    BY <1>6 DEF KeyOption, KeyArgument
  <2>2. /\ l \o <<Space, "--key-name", "=", n>> = l3
        /\ w3 = <<"--key-name", "=", n>>
        /\ Append(ws, <<"--key-name", "=", n>>) = <<p, <<c>>>> \o <<<<"--key-name", "=", n>>>>
    <3>1. l \o <<Space, "--key-name", "=", n>> = l3
      BY <1>1, <1>3 DEF OneMore
    <3>2. w3 = <<"--key-name", "=", n>>
      BY ThreeCharacters, Zenon
    <3>3. Append(ws, <<"--key-name", "=", n>>) = <<p, <<c>>>> \o <<<<"--key-name", "=", n>>>>
      <4>1. ws = <<p, <<c>>>>
        BY TwoWords, Zenon
      <4>2. \A t : Append(<<p, <<c>>>>, t) = <<p, <<c>>>> \o <<t>>
        BY OneWordMore, Zenon
      <4> HIDE DEF ws
      <4> QED  BY <4>1, <4>2, Zenon
    <3> QED  BY <3>1, <3>2, <3>3
  <2> HIDE DEF ws, w1
  <2>3. l1 \in Seq(C) /\ InWord(l1, ws, w1)
    <3>1. l1 \in Seq(C)
      BY <1>1, <1>3, MoreTypes
    <3>2. InWord(l1, ws, w1)
      BY <1>1, <1>3, ShellWord, Zenon DEF ws, w1
    <3> QED  BY <3>1, <3>2
  <2> HIDE DEF l1
  <2>4. l2 \in Seq(C) /\ InWord(l2, ws, w2)
    <3>1. l2 \in Seq(C)
      BY <1>1, <2>3, MoreTypes
    <3>2. InWord(l2, ws, w2)
      BY <1>1, <2>3, ShellMore, Zenon
    <3> QED  BY <3>1, <3>2
  <2> HIDE DEF l2, w2
  <2>5. l3 \in Seq(C) /\ InWord(l3, ws, w3)
    <3>1. l3 \in Seq(C)
      BY <1>1, <2>4, MoreTypes
    <3>2. InWord(l3, ws, w3)
      BY <1>1, <2>4, ShellMore, Zenon
    <3> QED  BY <3>1, <3>2
  <2> HIDE DEF l3, w3
  <2>6. Command(p, c, n) = l3
    BY <1>4, <2>1, <2>2
  <2>7. Append(ws, w3) = <<p, <<c>>>> \o KeyArgument(n)
    BY <2>1, <2>2
  <2> QED  BY <2>5, <2>6, <2>7 DEF C
<1> QED  BY <1>5, <1>6

\* The shell runs what was configured.
LEMMA ShellRuns ==
  ASSUME NEW p, p \in Seq(Range(p)), NEW c \in Filters, NEW n \in {NoName, Name}
  PROVE  ShellWords(Command(p, c, n) \o FileOption(c)) = <<p, <<c>>>> \o KeyArgument(n) \o FileArgument(c)
<1> DEFINE C == LettersOf(p)  l == Command(p, c, n)
<1>1. l \in Seq(C)
  BY ShellCommand
<1>2. PICK ws, w : /\ InWord(l, ws, w)
                   /\ Append(ws, w) = <<p, <<c>>>> \o KeyArgument(n)
  BY ShellCommand
<1>3. \A q, v : EndWord(Reader(q, v, TRUE, FALSE, 0)).words = Append(q, v)
  BY DEF EndWord, Reader
<1>4. Space \in C /\ "file" \in C \ (Special \cup {Space})
  BY Ordinary DEF LettersOf
<1>5. KeyArgument(n) \in Seq({<<"--key-name", "=", n>>})
  BY DEF KeyArgument
<1> HIDE DEF C, l
<1>6. CASE c # "diff"
  <2>1. FileOption(c) = <<>> /\ FileArgument(c) = <<>>
    BY <1>6 DEF FileOption, FileArgument
  <2>2. l \o <<>> = l
    BY <1>1
  <2>3. ShellWords(l) = Append(ws, w)
    BY <1>1, <1>2, <1>3, ShellWordsIs DEF InWord
  <2>4. <<p, <<c>>>> \o KeyArgument(n) \o <<>> = <<p, <<c>>>> \o KeyArgument(n)
    BY <1>5
  <2> QED  BY <1>2, <2>1, <2>2, <2>3, <2>4 DEF l
<1>7. CASE c = "diff"
  <2> DEFINE m == OneMore(l, "file")
  <2>1. FileOption(c) = <<Space, "file">> /\ FileArgument(c) = <<<<"file">>>>
    BY <1>7 DEF FileOption, FileArgument
  <2>5. l \o <<Space, "file">> = m
    BY <1>1, <1>4 DEF OneMore
  <2>2. m \in Seq(C) /\ InWord(m, Append(ws, w), One("file"))
    <3>1. m \in Seq(C)
      BY <1>1, <1>4, MoreTypes
    <3>2. InWord(m, Append(ws, w), One("file"))
      BY <1>1, <1>2, <1>4, ShellWord, Zenon
    <3> QED  BY <3>1, <3>2
  <2> HIDE DEF m
  <2>3. ShellWords(m) = Append(Append(ws, w), <<"file">>)
    <3>1. One("file") = <<"file">>
      BY DEF One, Extended
    <3> QED  BY <1>3, <2>2, <3>1, ShellWordsIs DEF InWord
  <2>4. Append(<<p, <<c>>>> \o KeyArgument(n), <<"file">>) = <<p, <<c>>>> \o KeyArgument(n) \o <<<<"file">>>>
    BY <1>5
  <2> QED  BY <1>2, <2>1, <2>3, <2>4, <2>5 DEF l
<1> QED  BY <1>6, <1>7

-----------------------------------------------------------------------------
(* The C library of Windows reads what escape_cmdline_argument wrote.      *)

\* It is in a quoted argument, behind m backslashes; behind the closing quote; or
\* between two arguments.
Quoting(line, ws, w, m) == After("windows", line) = Reader(ws, w, TRUE, TRUE, m)
Behind(line, ws, w) == After("windows", line) = Reader(ws, w, TRUE, FALSE, 0)
Waiting(line, ws) == After("windows", line) = Reader(ws, <<>>, FALSE, FALSE, 0)

LEMMA WindowsReads == \A st, c : Reads("windows", st, c) = ArgumentReads(st, c)
BY DEF Reads

LEMMA WindowsBackslash ==
  ASSUME NEW C, NEW line \in Seq(C), Backslash \in C, NEW ws, NEW w, NEW m \in Nat, Quoting(line, ws, w, m)
  PROVE  Quoting(Append(line, Backslash), ws, w, m + 1)
<1> DEFINE st == Reader(ws, w, TRUE, TRUE, m)
<1>1. Backslashed(st) = Reader(ws, w, TRUE, TRUE, m + 1)
  BY DEF Backslashed, Reader
<1> HIDE DEF st
<1>2. /\ Backslash = Backslash /\ ~(Backslash = Quote /\ st.run % 2 = 1)
      /\ ~(Backslash = Quote /\ st.run % 2 = 0) /\ ~(Backslash = Space /\ ~st.quoted)
  BY Differ
<1>3. ArgumentReads(st, Backslash) = Backslashed(st)
  BY <1>2, Zenon DEF ArgumentReads
<1>4. After("windows", Append(line, Backslash)) = Reads("windows", After("windows", line), Backslash)
  BY AfterOne
<1>5. After("windows", line) = st
  BY DEF Quoting, st
<1> QED  BY <1>1, <1>3, <1>4, <1>5, WindowsReads, Zenon DEF Quoting

LEMMA WindowsOther ==
  ASSUME NEW C, NEW line \in Seq(C), NEW c \in C, c # Backslash, c # Quote, NEW ws, NEW w, NEW m \in Nat,
         Quoting(line, ws, w, m)
  PROVE  Quoting(Append(line, c), ws, Extended(w \o Repeat(Backslash, m), c), 0)
<1> DEFINE st == Reader(ws, w, TRUE, TRUE, m)
<1>1. /\ st.run = m /\ st.quoted
      /\ Add(Flush(st, m), <<c>>) = Reader(ws, Extended(w \o Repeat(Backslash, m), c), TRUE, TRUE, 0)
  BY DEF Flush, Add, Reader, Extended
<1> HIDE DEF st
<1>2. /\ ~(c = Backslash) /\ ~(c = Quote /\ st.run % 2 = 1)
      /\ ~(c = Quote /\ st.run % 2 = 0) /\ ~(c = Space /\ ~st.quoted)
  BY <1>1
<1>3. ArgumentReads(st, c) = Add(Flush(st, st.run), <<c>>)
  BY <1>2, Zenon DEF ArgumentReads
<1>4. After("windows", Append(line, c)) = Reads("windows", After("windows", line), c)
  BY AfterOne
<1>5. After("windows", line) = st
  BY DEF Quoting, st
<1> QED  BY <1>1, <1>3, <1>4, <1>5, WindowsReads, Zenon DEF Quoting

LEMMA WindowsQuote ==
  ASSUME NEW C, NEW line \in Seq(C), Quote \in C, NEW ws, NEW w, NEW m \in Nat, NEW k \in Nat,
         Quoting(line, ws, w, m)
  PROVE  /\ m = 2 * k + 1 => Quoting(Append(line, Quote), ws, Extended(w \o Repeat(Backslash, k), Quote), 0)
         /\ m = 2 * k => Behind(Append(line, Quote), ws, w \o Repeat(Backslash, k))
<1> DEFINE st == Reader(ws, w, TRUE, TRUE, m)
<1>1. /\ st.run = m /\ st.quoted
      /\ Add(Flush(st, k), <<Quote>>) = Reader(ws, Extended(w \o Repeat(Backslash, k), Quote), TRUE, TRUE, 0)
      /\ Toggle(Flush(st, k)) = Reader(ws, w \o Repeat(Backslash, k), TRUE, FALSE, 0)
  BY DEF Flush, Add, Toggle, Reader, Extended
<1> HIDE DEF st
<1>2. /\ m = 2 * k + 1 => m % 2 = 1 /\ m \div 2 = k
      /\ m = 2 * k => m % 2 = 0 /\ m \div 2 = k
  OBVIOUS
<1>3. m = 2 * k + 1 => ArgumentReads(st, Quote) = Add(Flush(st, k), <<Quote>>)
  <2> HAVE m = 2 * k + 1
  <2>1. /\ ~(Quote = Backslash) /\ (Quote = Quote /\ st.run % 2 = 1)
        /\ ~(Quote = Quote /\ st.run % 2 = 0) /\ ~(Quote = Space /\ ~st.quoted) /\ st.run \div 2 = k
    BY <1>1, <1>2, Differ
  <2>2. ArgumentReads(st, Quote) = Add(Flush(st, st.run \div 2), <<Quote>>)
    BY <2>1, Zenon DEF ArgumentReads
  <2> QED  BY <2>1, <2>2, Zenon
<1>4. m = 2 * k => ArgumentReads(st, Quote) = Toggle(Flush(st, k))
  <2> HAVE m = 2 * k
  <2>1. /\ ~(Quote = Backslash) /\ ~(Quote = Quote /\ st.run % 2 = 1)
        /\ (Quote = Quote /\ st.run % 2 = 0) /\ ~(Quote = Space /\ ~st.quoted) /\ st.run \div 2 = k
    BY <1>1, <1>2, Differ
  <2>2. ArgumentReads(st, Quote) = Toggle(Flush(st, st.run \div 2))
    BY <2>1, Zenon DEF ArgumentReads
  <2> QED  BY <2>1, <2>2, Zenon
<1>5. After("windows", Append(line, Quote)) = Reads("windows", After("windows", line), Quote)
  BY AfterOne
<1>6. After("windows", line) = st
  BY DEF Quoting, st
<1>7. m = 2 * k + 1 => Quoting(Append(line, Quote), ws, Extended(w \o Repeat(Backslash, k), Quote), 0)
  BY <1>1, <1>3, <1>5, <1>6, WindowsReads, Zenon DEF Quoting
<1>8. m = 2 * k => Behind(Append(line, Quote), ws, w \o Repeat(Backslash, k))
  BY <1>1, <1>4, <1>5, <1>6, WindowsReads, Zenon DEF Behind
<1> QED  BY <1>7, <1>8

LEMMA WindowsOpens ==
  ASSUME NEW C, NEW line \in Seq(C), Quote \in C, NEW ws, Waiting(line, ws)
  PROVE  Quoting(Append(line, Quote), ws, <<>>, 0)
<1> DEFINE st == Reader(ws, <<>>, FALSE, FALSE, 0)
<1>1. st.run = 0 /\ ~st.quoted
  BY DEF Reader
<1>2. Toggle(Flush(st, 0)) = Reader(ws, <<>>, TRUE, TRUE, 0)
  <2>1. Repeat(Backslash, 0) = <<>> /\ <<>> \o <<>> = <<>>
    BY DEF Repeat
  <2>2. Flush(st, 0) = Reader(ws, <<>> \o Repeat(Backslash, 0), TRUE, FALSE, 0)
    BY DEF Flush, Add, Reader
  <2>3. Toggle(Reader(ws, <<>>, TRUE, FALSE, 0)) = Reader(ws, <<>>, TRUE, TRUE, 0)
    BY DEF Toggle, Reader
  <2> QED  BY <2>1, <2>2, <2>3
<1> HIDE DEF st
<1>3. 0 % 2 = 0 /\ 0 % 2 # 1 /\ 0 \div 2 = 0
  OBVIOUS
<1>4. /\ ~(Quote = Backslash) /\ ~(Quote = Quote /\ st.run % 2 = 1)
      /\ (Quote = Quote /\ st.run % 2 = 0) /\ ~(Quote = Space /\ ~st.quoted) /\ st.run \div 2 = 0
  BY <1>1, <1>3, Differ
<1>5. ArgumentReads(st, Quote) = Toggle(Flush(st, st.run \div 2))
  BY <1>4, Zenon DEF ArgumentReads
<1>6. After("windows", Append(line, Quote)) = Reads("windows", After("windows", line), Quote)
  BY AfterOne
<1>7. After("windows", line) = st
  BY DEF Waiting, st
<1> QED  BY <1>2, <1>4, <1>5, <1>6, <1>7, WindowsReads, Zenon DEF Quoting

LEMMA WindowsEndsWord ==
  ASSUME NEW C, NEW line \in Seq(C), Space \in C, NEW ws, NEW w, Behind(line, ws, w)
  PROVE  Waiting(Append(line, Space), Append(ws, w))
<1> DEFINE st == Reader(ws, w, TRUE, FALSE, 0)
<1>1. st.run = 0 /\ ~st.quoted /\ EndWord(st) = Reader(Append(ws, w), <<>>, FALSE, FALSE, 0)
  BY DEF Reader, EndWord
<1> HIDE DEF st
<1>2. /\ ~(Space = Backslash) /\ ~(Space = Quote /\ st.run % 2 = 1)
      /\ ~(Space = Quote /\ st.run % 2 = 0) /\ (Space = Space /\ ~st.quoted) /\ ~(st.run > 0)
  BY <1>1, Differ
<1>3. ArgumentReads(st, Space) = EndWord(IF st.run > 0 THEN Flush(st, st.run) ELSE st)
  BY <1>2, Zenon DEF ArgumentReads
<1>4. ArgumentReads(st, Space) = EndWord(st)
  BY <1>2, <1>3, Zenon
<1>5. After("windows", Append(line, Space)) = Reads("windows", After("windows", line), Space)
  BY AfterOne
<1>6. After("windows", line) = st
  BY DEF Behind, st
<1> QED  BY <1>1, <1>4, <1>5, <1>6, WindowsReads, Zenon DEF Waiting

LEMMA RepeatIs ==
  ASSUME NEW c
  PROVE  /\ Repeat(c, 0) = <<>>
         /\ \A m \in Nat : Repeat(c, m) \in Seq({c}) /\ Append(Repeat(c, m), c) = Repeat(c, m + 1)
<1>1. Repeat(c, 0) = <<>>
  BY DEF Repeat
<1>2. ASSUME NEW m \in Nat
      PROVE  Repeat(c, m) \in Seq({c}) /\ Append(Repeat(c, m), c) = Repeat(c, m + 1)
  <2> DEFINE a == Repeat(c, m)  b == Repeat(c, m + 1)  d == Append(a, c)
  <2>1. a \in Seq({c}) /\ Len(a) = m /\ \A i \in 1..m : a[i] = c
    BY DEF Repeat
  <2>2. b \in Seq({c}) /\ Len(b) = m + 1 /\ \A i \in 1..(m + 1) : b[i] = c
    BY DEF Repeat
  <2> HIDE DEF a, b
  <2>3. d \in Seq({c}) /\ Len(d) = m + 1 /\ \A i \in 1..(m + 1) : d[i] = c
    BY <2>1
  <2> HIDE DEF d
  <2>4. d = b
    BY <2>2, <2>3, SameTuple
  <2> QED  BY <2>1, <2>4 DEF a, b, d
<1> QED  BY <1>1, <1>2

LEMMA WindowsBackslashes ==
  ASSUME NEW C, NEW line \in Seq(C), Backslash \in C, NEW ws, NEW w, Quoting(line, ws, w, 0)
  PROVE  \A m \in Nat : /\ line \o Repeat(Backslash, m) \in Seq(C)
                        /\ Quoting(line \o Repeat(Backslash, m), ws, w, m)
<1> DEFINE Good(m) == /\ line \o Repeat(Backslash, m) \in Seq(C)
                      /\ Quoting(line \o Repeat(Backslash, m), ws, w, m)
           Bad == {m \in Nat : ~Good(m)}
<1> SUFFICES ASSUME Bad # {} PROVE FALSE
  OBVIOUS
<1>1. PICK m \in Bad : \A j \in Bad : m <= j
  <2>1. Bad \subseteq Nat
    OBVIOUS
  <2> HIDE DEF Bad
  <2> QED  BY <2>1, LeastNat
<1>2. CASE m = 0
  <2>1. line \o <<>> = line
    OBVIOUS
  <2>2. Good(0)
    BY <2>1, RepeatIs
  <2> QED  BY <1>1, <1>2, <2>2
<1>3. CASE m # 0
  <2>1. m \in Nat /\ m - 1 \in Nat /\ m - 1 + 1 = m /\ ~(m <= m - 1)
    BY <1>1, <1>3
  <2>2. Good(m - 1)
    BY <1>1, <2>1
  <2> DEFINE a == Repeat(Backslash, m - 1)
  <2>3. a \in Seq({Backslash}) /\ Append(a, Backslash) = Repeat(Backslash, m)
    BY <2>1, RepeatIs
  <2> HIDE DEF a
  <2>4. a \in Seq(C)
    BY <2>3
  <2>5. line \o Append(a, Backslash) = Append(line \o a, Backslash)
    BY <2>4
  <2>6. line \o a \in Seq(C) /\ Quoting(line \o a, ws, w, m - 1)
    BY <2>2 DEF a
  <2>7. Quoting(Append(line \o a, Backslash), ws, w, m - 1 + 1)
    BY <2>1, <2>6, WindowsBackslash, Zenon
  <2>8. Append(line \o a, Backslash) \in Seq(C)
    BY <2>6
  <2>9. Good(m)
    BY <2>1, <2>3, <2>5, <2>7, <2>8
  <2> QED  BY <1>1, <2>9
<1> QED  BY <1>2, <1>3

\* What has been written of the argument is read as what has been taken of it,
\* but for the backslashes that wait.
Escaped(l, r) == [line |-> l, run |-> r]

Encoded(C, y, ws, t) ==
  \E l, w \in Seq(C), r \in Nat :
    After("escape", t) = Escaped(l, r) /\ t = w \o Repeat(Backslash, r) /\ Quoting(y \o l, ws, w, 0)

LEMMA PutBackslash == \A l, r : Put(Escaped(l, r), Backslash) = Escaped(l, r + 1)
BY DEF Put, Escaped

LEMMA PutQuote ==
  \A l, r : Put(Escaped(l, r), Quote) = Escaped(Extended(l \o Repeat(Backslash, 2 * r + 1), Quote), 0)
BY Differ DEF Put, Escaped, Extended

LEMMA PutOther ==
  \A l, r, c : c \notin {Quote, Backslash} =>
                 Put(Escaped(l, r), c) = Escaped(Extended(l \o Repeat(Backslash, r), c), 0)
BY DEF Put, Escaped, Extended

\* The same sequence, put together in another order.
Appends(l, z, c) == Append(l \o z, c) = l \o Append(z, c)
Groups(y, l, z, c) == y \o Extended(l \o z, c) = Append((y \o l) \o z, c)

Associates(a, b, c) == a \o (b \o c) = (a \o b) \o c

LEMMA Regrouped == \A C : \A a, b, c \in Seq(C) : Associates(a, b, c)
BY ConcatAssociates DEF Associates

LEMMA AppendAssociates == \A C : \A l, z \in Seq(C), c \in C : Appends(l, z, c)
<1> TAKE C
<1> TAKE l, z \in Seq(C), c \in C
<1>1. l \o z \in Seq(C) /\ <<c>> \in Seq(C)
  OBVIOUS
<1>2. (l \o z) \o <<c>> = Append(l \o z, c) /\ z \o <<c>> = Append(z, c)
  BY <1>1, SnocIs, Zenon
<1>3. l \o (z \o <<c>>) = (l \o z) \o <<c>>
  BY <1>1, ConcatAssociates
<1> QED  BY <1>2, <1>3, Zenon DEF Appends

LEMMA Regroups ==
  \A C : \A y, l, z \in Seq(C), c \in C : Extended(l \o z, c) \in Seq(C) /\ Groups(y, l, z, c)
<1> TAKE C
<1> TAKE y, l, z \in Seq(C), c \in C
<1>1. l \o z \in Seq(C) /\ y \o l \in Seq(C)
  OBVIOUS
<1>2. Extended(l \o z, c) \in Seq(C) /\ Extended(l \o z, c) = Append(l \o z, c)
  BY <1>1, SnocType, Zenon
<1>3. y \o (l \o z) = (y \o l) \o z
  BY ConcatAssociates
<1>4. Appends(y, l \o z, c)
  BY <1>1, AppendAssociates, Zenon
<1> QED  BY <1>2, <1>3, <1>4, Zenon DEF Appends, Groups

LEMMA EncodesOne ==
  ASSUME NEW C, {Quote, Backslash} \subseteq C, NEW y \in Seq(C), NEW ws, NEW t \in Seq(C), NEW c \in C,
         Encoded(C, y, ws, t)
  PROVE  Encoded(C, y, ws, Append(t, c))
<1>1. PICK l \in Seq(C), w \in Seq(C), r \in Nat :
        After("escape", t) = Escaped(l, r) /\ t = w \o Repeat(Backslash, r) /\ Quoting(y \o l, ws, w, 0)
  BY DEF Encoded
<1>2. After("escape", Append(t, c)) = Put(Escaped(l, r), c)
  <2>1. After("escape", Append(t, c)) = Reads("escape", After("escape", t), c)
    BY AfterOne
  <2>2. \A st, d : Reads("escape", st, d) = Put(st, d)
    BY DEF Reads
  <2> QED  BY <1>1, <2>1, <2>2, Zenon
<1>3. y \o l \in Seq(C) /\ Backslash \in C /\ Quote \in C
  BY ConcatType
<1>4. /\ \A m \in Nat : Repeat(Backslash, m) \in Seq(C)
      /\ Append(Repeat(Backslash, r), Backslash) = Repeat(Backslash, r + 1)
      /\ Repeat(Backslash, 0) = <<>>
      /\ 2 * r + 1 \in Nat /\ r + 1 \in Nat /\ 0 \in Nat
  <2>1. \A m \in Nat : Repeat(Backslash, m) \in Seq({Backslash})
    BY RepeatIs
  <2>2. \A v \in Seq({Backslash}) : v \in Seq(C)
    BY <1>3
  <2>3. Append(Repeat(Backslash, r), Backslash) = Repeat(Backslash, r + 1) /\ Repeat(Backslash, 0) = <<>>
    BY RepeatIs
  <2>4. 2 * r + 1 \in Nat /\ r + 1 \in Nat /\ 0 \in Nat
    OBVIOUS
  <2> QED  BY <2>1, <2>2, <2>3, <2>4, Zenon
<1>5. \A m \in Nat : /\ (y \o l) \o Repeat(Backslash, m) \in Seq(C)
                     /\ Quoting((y \o l) \o Repeat(Backslash, m), ws, w, m)
  BY <1>1, <1>3, WindowsBackslashes, Zenon
<1>6. CASE c = Backslash
  <2>1. After("escape", Append(t, c)) = Escaped(l, r + 1)
    BY <1>2, <1>6, PutBackslash, Zenon
  <2>2. Append(t, c) = w \o Repeat(Backslash, r + 1)
    <3>1. Repeat(Backslash, r) \in Seq(C)
      BY <1>4
    <3>3. Appends(w, Repeat(Backslash, r), c)
      BY <3>1, AppendAssociates, Zenon
    <3>2. Append(w \o Repeat(Backslash, r), c) = w \o Append(Repeat(Backslash, r), c)
      BY <3>3 DEF Appends
    <3> QED  BY <1>1, <1>4, <1>6, <3>2, Zenon
  <2> QED  BY <1>1, <1>4, <2>1, <2>2 DEF Encoded
<1>7. ASSUME NEW m \in Nat, After("escape", Append(t, c)) = Escaped(Extended(l \o Repeat(Backslash, m), c), 0),
             Quoting(Append((y \o l) \o Repeat(Backslash, m), c), ws, Extended(w \o Repeat(Backslash, r), c), 0)
      PROVE  Encoded(C, y, ws, Append(t, c))
  <2> DEFINE z == Repeat(Backslash, m)  zr == Repeat(Backslash, r)
             l2 == Extended(l \o z, c)  w2 == Extended(w \o zr, c)
  <2>1. z \in Seq(C) /\ zr \in Seq(C)
    BY <1>4
  <2> HIDE DEF z, zr
  <2>2. l2 \in Seq(C) /\ w2 \in Seq(C) /\ y \o l2 = Append((y \o l) \o z, c)
    <3>1. l2 \in Seq(C) /\ Groups(y, l, z, c)
      BY <2>1, Regroups, Zenon
    <3>2. w2 \in Seq(C)
      BY <2>1, Regroups, Zenon
    <3> QED  BY <3>1, <3>2, Zenon DEF Groups
  <2>3. Append(t, c) = w2 /\ w2 = w2 \o <<>>
    <3>1. w \o zr \in Seq(C)
      BY <2>1
    <3>2. w2 = Append(w \o zr, c)
      BY <3>1, SnocType
    <3>3. t = w \o zr
      BY <1>1 DEF zr
    <3>4. w2 \o <<>> = w2
      BY <2>2
    <3> QED  BY <3>2, <3>3, <3>4
  <2>4. After("escape", Append(t, c)) = Escaped(l2, 0) /\ Quoting(y \o l2, ws, w2, 0)
    BY <1>7, <2>2 DEF z, zr
  <2>5. Append(t, c) = w2 \o Repeat(Backslash, 0)
    BY <1>4, <2>3
  <2> HIDE DEF l2, w2
  <2> QED  BY <1>4, <2>2, <2>4, <2>5 DEF Encoded
<1>8. CASE c = Quote
  <2> DEFINE m == 2 * r + 1
  <2>1. After("escape", Append(t, c)) = Escaped(Extended(l \o Repeat(Backslash, m), c), 0)
    BY <1>2, <1>8, PutQuote, Zenon
  <2>2. Quoting(Append((y \o l) \o Repeat(Backslash, m), c), ws, Extended(w \o Repeat(Backslash, r), c), 0)
    <3>1. m \in Nat /\ m = 2 * r + 1
      OBVIOUS
    <3> HIDE DEF m
    <3> QED  BY <1>3, <1>5, <1>8, <3>1, WindowsQuote
  <2>3. m \in Nat
    OBVIOUS
  <2> HIDE DEF m
  <2> QED  BY <1>7, <2>1, <2>2, <2>3
<1>9. CASE c \notin {Quote, Backslash}
  <2>1. After("escape", Append(t, c)) = Escaped(Extended(l \o Repeat(Backslash, r), c), 0)
    BY <1>2, <1>9, PutOther, Zenon
  <2>2. Quoting(Append((y \o l) \o Repeat(Backslash, r), c), ws, Extended(w \o Repeat(Backslash, r), c), 0)
    BY <1>3, <1>5, <1>9, WindowsOther
  <2> QED  BY <1>7, <2>1, <2>2
<1> QED  BY <1>6, <1>8, <1>9

LEMMA EncodesAll ==
  ASSUME NEW C, {Quote, Backslash} \subseteq C, NEW y \in Seq(C), NEW ws, NEW s \in Seq(C),
         Quoting(y, ws, <<>>, 0)
  PROVE  Encoded(C, y, ws, s)
<1> DEFINE n == Len(s)  Good(i) == Encoded(C, y, ws, SubSeq(s, 1, i))
           Bad == {i \in 0..n : ~Good(i)}
<1>1. n \in Nat
  OBVIOUS
<1>2. SubSeq(s, 1, 0) = <<>> /\ SubSeq(s, 1, n) = s
  BY PrefixGrows
<1>3. Encoded(C, y, ws, <<>>)
  <2>1. After("escape", <<>>) = Escaped(<<>>, 0)
    BY AfterNothing DEF Starts, Escaped
  <2>2. y \o <<>> = y /\ <<>> \in Seq(C) /\ <<>> \o <<>> = <<>> /\ Repeat(Backslash, 0) = <<>>
    <3>1. y \o <<>> = y /\ <<>> \in Seq(C)
      OBVIOUS
    <3>2. <<>> \o <<>> = <<>>
      OBVIOUS
    <3> QED  BY <3>1, <3>2, RepeatIs, Zenon
  <2>3. <<>> = <<>> \o Repeat(Backslash, 0) /\ Quoting(y \o <<>>, ws, <<>>, 0)
    BY <2>2
  <2> QED  BY <2>1, <2>2, <2>3 DEF Encoded
<1> HIDE DEF n
<1>4. SUFFICES ASSUME Bad # {} PROVE FALSE
  <2>1. n \in 0..n
    BY <1>1
  <2>2. ASSUME Bad = {} PROVE Good(n)
    BY <2>1, <2>2
  <2> HIDE DEF Bad
  <2> QED  BY <1>2, <2>2
<1>5. PICK i \in Bad : \A j \in Bad : i <= j
  <2>1. Bad \subseteq Nat
    BY <1>1
  <2> HIDE DEF Bad
  <2> QED  BY <1>4, <2>1, LeastNat
<1>6. i \in 0..n /\ ~Good(i)
  BY <1>5
<1>7. CASE i = 0
  BY <1>2, <1>3, <1>6, <1>7
<1>8. CASE i # 0
  <2>1. i - 1 \in 0..n /\ i \in 1..n /\ ~(i <= i - 1)
    BY <1>1, <1>6, <1>8
  <2>2. i - 1 \notin Bad
    BY <1>5, <2>1
  <2>3. Encoded(C, y, ws, SubSeq(s, 1, i - 1))
    BY <2>1, <2>2
  <2>4. s[i] \in C /\ SubSeq(s, 1, i - 1) \in Seq(C)
    BY <2>1 DEF n
  <2> DEFINE t == SubSeq(s, 1, i - 1)
  <2>5. SubSeq(s, 1, i) = Extended(t, s[i])
    BY <2>1, PrefixGrows DEF n
  <2> HIDE DEF t
  <2>6. t \in Seq(C) /\ Encoded(C, y, ws, t)
    BY <2>3, <2>4 DEF t
  <2>7. Encoded(C, y, ws, Append(t, s[i]))
    BY <2>4, <2>6, EncodesOne
  <2>8. Extended(t, s[i]) = Append(t, s[i])
    BY <2>4, <2>6, SnocType
  <2> QED  BY <1>6, <2>5, <2>7, <2>8
<1> QED  BY <1>7, <1>8

\* The escaped argument is one word, the argument.
LEMMA WindowsArgument ==
  ASSUME NEW C, {Quote, Backslash} \subseteq C, NEW line \in Seq(C), NEW ws, NEW s \in Seq(C),
         Waiting(line, ws)
  PROVE  /\ EscapeCmdlineArgument(s) \in Seq(C)
         /\ Behind(line \o EscapeCmdlineArgument(s), ws, s)
<1> DEFINE y == Append(line, Quote)  e == EscapeCmdlineArgument(s)
<1>1. y \in Seq(C) /\ Quote \in C /\ Backslash \in C
  OBVIOUS
<1>2. Quoting(y, ws, <<>>, 0)
  BY <1>1, WindowsOpens
<1>3. y = line \o <<Quote>>
  BY <1>1, SnocIs
<1> HIDE DEF y
<1>4. Encoded(C, y, ws, s)
  BY <1>1, <1>2, EncodesAll
<1>5. PICK l \in Seq(C), w \in Seq(C), r \in Nat :
        After("escape", s) = Escaped(l, r) /\ s = w \o Repeat(Backslash, r) /\ Quoting(y \o l, ws, w, 0)
  BY <1>4 DEF Encoded
<1> DEFINE z == Repeat(Backslash, 2 * r)
<1>6. e = <<Quote>> \o l \o z \o <<Quote>>
  <2>1. \A st : st = Escaped(l, r) => st.line = l /\ st.run = r
    BY DEF Escaped
  <2> DEFINE st == Escaped(l, r)
  <2>2. st = After("escape", s) /\ st.line = l /\ st.run = r
    BY <1>5, <2>1
  <2>3. st = After("escape", s) =>
          EscapeCmdlineArgument(s) = <<Quote>> \o st.line \o Repeat(Backslash, 2 * st.run) \o <<Quote>>
    BY EscapeIs
  <2> HIDE DEF st
  <2> QED  BY <2>2, <2>3
<1>7. 2 * r \in Nat /\ y \o l \in Seq(C)
  BY <1>1
<1>8. /\ (y \o l) \o z \in Seq(C) /\ Quoting((y \o l) \o z, ws, w, 2 * r)
      /\ z \in Seq(C)
  <2>1. \A m \in Nat : /\ (y \o l) \o Repeat(Backslash, m) \in Seq(C)
                       /\ Quoting((y \o l) \o Repeat(Backslash, m), ws, w, m)
    BY <1>1, <1>5, <1>7, WindowsBackslashes, Zenon
  <2>2. z \in Seq({Backslash})
    BY <1>7, RepeatIs
  <2> HIDE DEF z
  <2>3. z \in Seq(C)
    BY <1>1, <2>2
  <2> QED  BY <1>7, <2>1, <2>3 DEF z
<1>9. Behind(Append((y \o l) \o z, Quote), ws, w \o Repeat(Backslash, r))
  <2>1. \A m \in Nat : m = 2 * r /\ Quoting((y \o l) \o z, ws, w, m) =>
          Behind(Append((y \o l) \o z, Quote), ws, w \o Repeat(Backslash, r))
    <3> HIDE DEF z
    <3> QED  BY <1>1, <1>8, WindowsQuote
  <2> QED  BY <1>7, <1>8, <2>1
<1> HIDE DEF z
<1>10. e \in Seq(C) /\ line \o e = Append((y \o l) \o z, Quote)
  <2> DEFINE q == <<Quote>>
  <2>1. q \in Seq(C)
    BY <1>1
  <2>2. y = line \o q /\ e = ((q \o l) \o z) \o q
    BY <1>3, <1>6
  <2> HIDE DEF q, e
  <2>3. q \o l \in Seq(C) /\ (q \o l) \o z \in Seq(C)
    BY <1>8, <2>1
  <2>4. line \o (((q \o l) \o z) \o q) = (line \o ((q \o l) \o z)) \o q
    <3>1. Associates(line, (q \o l) \o z, q)
      BY <2>1, <2>3, Regrouped, Zenon
    <3> QED  BY <3>1 DEF Associates
  <2>5. line \o ((q \o l) \o z) = (line \o (q \o l)) \o z
    <3>1. Associates(line, q \o l, z)
      BY <1>8, <2>3, Regrouped, Zenon
    <3> QED  BY <3>1 DEF Associates
  <2>6. line \o (q \o l) = (line \o q) \o l
    BY <2>1, ConcatAssociates, SMTT(30)
  <2>7. ((y \o l) \o z) \o <<Quote>> = Append((y \o l) \o z, Quote)
    BY <1>1, <1>8, SnocIs, Zenon
  <2>8. e \in Seq(C)
    BY <2>1, <2>2, <2>3
  <2> QED  BY <2>2, <2>4, <2>5, <2>6, <2>7, <2>8 DEF q
<1>11. s = w \o Repeat(Backslash, r)
  BY <1>5
<1> QED  BY <1>9, <1>10, <1>11

LEMMA FlattenThree ==
  ASSUME NEW C, NEW bs \in Seq(Seq(C)), Len(bs) = 3
  PROVE  FlattenSeq(bs) = (bs[1] \o bs[2]) \o bs[3]
<1>1. \A s, t \in Seq(C) : s \o t \in Seq(C)
  BY ConcatType
<1>2. Len(bs) # 0
  OBVIOUS
<1>3. PICK f \in [1..Len(bs) -> Seq(C)] : Flat(bs, f, Len(bs)) /\ FlattenSeq(bs) = f[Len(bs)]
  <2> DEFINE G == Seq(C)
  <2>1. bs \in Seq(G) /\ \A s, t \in G : s \o t \in G
    BY <1>1
  <2> HIDE DEF G
  <2>2. \E f \in [1..Len(bs) -> G] : Flat(bs, f, Len(bs)) /\ FlattenSeq(bs) = f[Len(bs)]
    BY <1>2, <2>1, FlattenIs
  <2> QED  BY <2>2 DEF G
<1>4. \A i \in 1..3 : f[i] = IF i = 1 THEN bs[i] ELSE f[i - 1] \o bs[i]
  BY <1>3 DEF Flat
<1>5. f[1] = bs[1]
  BY <1>4
<1>6. f[2] = f[1] \o bs[2]
  <2>1. 2 \in 1..3 /\ 2 # 1 /\ 2 - 1 = 1
    OBVIOUS
  <2> QED  BY <1>4, <2>1
<1>7. f[3] = f[2] \o bs[3]
  <2>1. 3 \in 1..3 /\ 3 # 1 /\ 3 - 1 = 2
    OBVIOUS
  <2> QED  BY <1>4, <2>1
<1> QED  BY <1>3, <1>5, <1>6, <1>7

LEMMA TailIs == \A C : \A c \in C, x \in Seq(C) : Tail(<<c>> \o x) = x
<1> TAKE C
<1> TAKE c \in C, x \in Seq(C)
<1> DEFINE y == <<c>> \o x
<1>1. <<c>> \in Seq(C) /\ Len(<<c>>) = 1
  OBVIOUS
<1>2. y \in Seq(C) /\ Len(y) = 1 + Len(x) /\ \A i \in 1..Len(x) : y[1 + i] = x[i]
  BY <1>1
<1>3. Len(x) \in Nat
  OBVIOUS
<1> HIDE DEF y
<1>4. Tail(y) \in Seq(C) /\ Len(Tail(y)) = Len(x) /\ \A i \in 1..Len(x) : Tail(y)[i] = x[i]
  BY <1>2, <1>3
<1> DEFINE z == Tail(y)
<1>5. z \in Seq(C) /\ Len(z) = Len(x) /\ \A i \in 1..Len(x) : z[i] = x[i]
  BY <1>4
<1> HIDE DEF z
<1>6. z = x
  BY <1>5, SameTuple
<1> QED  BY <1>6 DEF y, z

\* The third argument arrives.
LEMMA WindowsLine ==
  ASSUME NEW C, {Quote, Backslash, Space} \subseteq C, NEW a \in Seq(C), NEW b \in Seq(C), NEW v \in Seq(C)
  PROVE  ArgumentsOf(FormatCmdline(<<a, b, v>>))[3] = v
<1> DEFINE ea == EscapeCmdlineArgument(a)  eb == EscapeCmdlineArgument(b)  ev == EscapeCmdlineArgument(v)
           sp == <<Space>>  la == Append(ea, Space)  lb == la \o eb
           lc == Append(lb, Space)  ld == lc \o ev
<1>1. {Quote, Backslash} \subseteq C /\ Space \in C /\ sp \in Seq(C) /\ <<>> \in Seq(C)
  OBVIOUS
<1>2. Waiting(<<>>, <<>>)
  BY AfterNothing DEF Waiting, Starts, Start
<1>3. ea \in Seq(C) /\ Behind(<<>> \o ea, <<>>, a)
  BY <1>1, <1>2, WindowsArgument
<1> HIDE DEF ea
<1>4. <<>> \o ea = ea
  BY <1>3
<1>5. la \in Seq(C) /\ Waiting(la, Append(<<>>, a))
  <2>1. la \in Seq(C)
    BY <1>1, <1>3
  <2>2. Behind(ea, <<>>, a)
    BY <1>3, <1>4
  <2> QED  BY <1>1, <1>3, <2>1, <2>2, WindowsEndsWord
<1> HIDE DEF la
<1>6. eb \in Seq(C) /\ Behind(lb, Append(<<>>, a), b)
  BY <1>1, <1>5, WindowsArgument
<1> HIDE DEF eb
<1>7. lb \in Seq(C)
  BY <1>5, <1>6
<1> HIDE DEF lb
<1>8. lc \in Seq(C) /\ Waiting(lc, Append(Append(<<>>, a), b))
  <2>1. lc \in Seq(C)
    BY <1>1, <1>7
  <2> QED  BY <1>1, <1>6, <1>7, <2>1, WindowsEndsWord
<1> HIDE DEF lc
<1>9. ev \in Seq(C) /\ Behind(ld, Append(Append(<<>>, a), b), v)
  BY <1>1, <1>8, WindowsArgument
<1> HIDE DEF ev
<1>10. ld \in Seq(C)
  BY <1>8, <1>9
<1> HIDE DEF ld
<1>11. FormatCmdline(<<a, b, v>>) = Tail(((sp \o ea) \o (sp \o eb)) \o (sp \o ev))
  <2> DEFINE args == <<a, b, v>>  bs == [i \in DOMAIN args |-> sp \o EscapeCmdlineArgument(args[i])]
  <2>1. FormatCmdline(args) = Tail(FlattenSeq(bs))
    BY DEF FormatCmdline
  <2>2. /\ DOMAIN args = 1..3 /\ DOMAIN bs = 1..3
        /\ bs[1] = sp \o ea /\ bs[2] = sp \o eb /\ bs[3] = sp \o ev
    <3>1. DOMAIN args = 1..3 /\ args[1] = a /\ args[2] = b /\ args[3] = v
      OBVIOUS
    <3>2. 1 \in 1..3 /\ 2 \in 1..3 /\ 3 \in 1..3
      OBVIOUS
    <3> HIDE DEF args
    <3> QED  BY <3>1, <3>2 DEF ea, eb, ev
  <2>3. sp \o ea \in Seq(C) /\ sp \o eb \in Seq(C) /\ sp \o ev \in Seq(C)
    BY <1>1, <1>3, <1>6, <1>9, ConcatType, Zenon
  <2> DEFINE G == Seq(C)
  <2>4. bs \in Seq(G) /\ Len(bs) = 3
    <3>1. \A i \in 1..3 : bs[i] \in G
      <4>1. \A i \in 1..3 : i = 1 \/ i = 2 \/ i = 3
        OBVIOUS
      <4> HIDE DEF bs
      <4> QED  BY <2>2, <2>3, <4>1
    <3>2. bs = [i \in 1..3 |-> sp \o EscapeCmdlineArgument(args[i])]
      BY <2>2
    <3>3. \A u : (\A i \in 1..3 : u[i] \in G) /\ u = [i \in 1..3 |-> u[i]] => u \in Seq(G) /\ Len(u) = 3
      OBVIOUS
    <3>4. bs = [i \in 1..3 |-> bs[i]]
      BY <3>2
    <3> HIDE DEF bs, G
    <3> QED  BY <3>1, <3>3, <3>4
  <2>5. FlattenSeq(bs) = (bs[1] \o bs[2]) \o bs[3]
    <3> HIDE DEF bs
    <3> QED  BY <2>4, FlattenThree DEF G
  <2> QED  BY <2>1, <2>2, <2>5
<1>12. ((sp \o ea) \o (sp \o eb)) \o (sp \o ev) = sp \o ld
  <2> HIDE DEF sp
  <2>1. /\ la = ea \o sp /\ lc = lb \o sp
    BY <1>1, <1>3, <1>7, SnocIs, Zenon DEF la, lc, sp
  <2>2. sp \o eb \in Seq(C) /\ sp \o ev \in Seq(C) /\ ea \o (sp \o eb) \in Seq(C)
    BY <1>1, <1>3, <1>6, <1>9, ConcatType, Zenon
  <2>3. lb = ea \o (sp \o eb)
    <3>1. Associates(ea, sp, eb)
      BY <1>1, <1>3, <1>6, Regrouped, Zenon
    <3> QED  BY <2>1, <3>1 DEF Associates, lb
  <2>4. ld = lb \o (sp \o ev)
    <3>1. Associates(lb, sp, ev)
      BY <1>1, <1>7, <1>9, Regrouped, Zenon
    <3> QED  BY <2>1, <3>1 DEF Associates, ld
  <2>5. (sp \o ea) \o (sp \o eb) = sp \o lb
    <3>1. Associates(sp, ea, sp \o eb)
      BY <1>1, <1>3, <2>2, Regrouped, Zenon
    <3> QED  BY <2>3, <3>1 DEF Associates
  <2>6. (sp \o lb) \o (sp \o ev) = sp \o ld
    <3>1. Associates(sp, lb, sp \o ev)
      BY <1>1, <1>7, <2>2, Regrouped, Zenon
    <3> QED  BY <2>4, <3>1 DEF Associates
  <2> QED  BY <2>5, <2>6
<1>13. Tail(sp \o ld) = ld
  BY <1>1, <1>10, TailIs, Zenon
<1>14. ArgumentsOf(ld) = Append(Append(Append(<<>>, a), b), v)
  <2> DEFINE ws == Append(Append(<<>>, a), b)  st == Reader(ws, v, TRUE, FALSE, 0)
  <2>1. st = After("windows", ld)
    BY <1>9 DEF Behind
  <2>2. ~(st.run > 0) /\ EndWord(st).words = Append(ws, v)
    BY DEF EndWord, Reader
  <2>3. st = After("windows", ld) =>
           ArgumentsOf(ld) = EndWord(IF st.run > 0 THEN Flush(st, st.run) ELSE st).words
    BY <1>10, ArgumentsOfIs
  <2> HIDE DEF st
  <2> QED  BY <2>1, <2>2, <2>3
<1>15. Append(Append(Append(<<>>, a), b), v) = <<a, b, v>>
  <2>1. Append(<<>>, a) = <<a>>
    BY Grows1, Zenon
  <2>2. Append(<<a>>, b) = <<a, b>>
    BY Grows2, Zenon
  <2>3. Append(<<a, b>>, v) = <<a, b, v>>
    BY Grows3, Zenon
  <2> QED  BY <2>1, <2>2, <2>3, Zenon
<1>16. <<a, b, v>>[3] = v
  OBVIOUS
<1> QED  BY <1>11, <1>12, <1>13, <1>14, <1>15, <1>16, Zenon

-----------------------------------------------------------------------------
(* Key files.  The functions that walk over one exist, and are what they   *)
(* say at each place.                                                      *)

\* They are given from behind some place on.
FieldsFrom(file, lengths, f, m) ==
  /\ f = [i \in Nat |-> f[i]]
  /\ \A i \in Nat : i >= m => f[i] = Field(file, i, lengths, f[i + 3])

EntryRows(file, i, f) ==
  IF i > Len(file) THEN Read(i, NoEntries)
  ELSE WithEntry(Fields(file, i, Entry), f[Fields(file, i, Entry).next])

EntriesFrom(file, f, m) ==
  /\ f = [i \in Nat |-> f[i]]
  /\ \A i \in Nat : i >= m => f[i] = EntryRows(file, i, f)

\* Behind the end of the file nothing is read.
LEMMA BehindTheEnd ==
  ASSUME NEW file, NEW i \in Nat, Len(file) \in Nat, i > Len(file), NEW lengths, NEW rest
  PROVE  Field(file, i, lengths, rest) = Fails("malformed")
<1>1. ~Whole(file, i, 4)
  BY DEF Whole
<1> QED  BY <1>1, Zenon DEF Field

LEMMA FieldsExist ==
  ASSUME NEW C, NEW file \in Seq(C), NEW lengths
  PROVE  \E f : FieldsFrom(file, lengths, f, 0)
<1> DEFINE n == Len(file) + 1
           Good(k) == \E f : FieldsFrom(file, lengths, f, n - k)
           Bad == {k \in 0..n : ~Good(k)}
<1>1. n \in Nat /\ Len(file) \in Nat /\ n = Len(file) + 1
  OBVIOUS
<1> HIDE DEF n
<1>2. Good(0)
  <2> DEFINE f == [i \in Nat |-> Fails("malformed")]
  <2>1. \A i \in Nat : i >= n => f[i] = Field(file, i, lengths, f[i + 3])
    <3> TAKE i \in Nat
    <3> HAVE i >= n
    <3>1. i > Len(file)
      BY <1>1
    <3>2. Field(file, i, lengths, f[i + 3]) = Fails("malformed")
      <4> HIDE DEF f
      <4> QED  BY <1>1, <3>1, BehindTheEnd
    <3> QED  BY <3>2
  <2>2. f = [i \in Nat |-> f[i]] /\ n - 0 = n
    BY <1>1
  <2> HIDE DEF f
  <2> QED  BY <2>1, <2>2 DEF FieldsFrom
<1>3. ASSUME Bad # {} PROVE FALSE
  <2>1. PICK k \in Bad : \A j \in Bad : k <= j
    <3>1. Bad \subseteq Nat
      BY <1>1
    <3> HIDE DEF Bad
    <3> QED  BY <1>3, <3>1, LeastNat
  <2>2. k \in 0..n /\ ~Good(k) /\ k # 0
    BY <1>2, <2>1
  <2>3. k - 1 \in 0..n /\ ~(k <= k - 1) /\ n - k \in Nat /\ n - (k - 1) = (n - k) + 1
    BY <1>1, <2>2
  <2>4. Good(k - 1)
    <3>1. k - 1 \notin Bad
      BY <2>1, <2>3
    <3> QED  BY <2>3, <3>1
  <2> DEFINE m == n - k
  <2>5. m \in Nat
    BY <2>3
  <2>6. PICK f : FieldsFrom(file, lengths, f, m + 1)
    BY <2>3, <2>4
  <2> HIDE DEF m
  <2> DEFINE g == [i \in Nat |-> IF i = m THEN Field(file, m, lengths, f[m + 3]) ELSE f[i]]
  <2>7. \A i \in Nat : i >= m => g[i] = Field(file, i, lengths, g[i + 3])
    <3> TAKE i \in Nat
    <3> HAVE i >= m
    <3>1. i + 3 \in Nat /\ i + 3 # m
      BY <2>5
    <3>2. g[i + 3] = f[i + 3]
      BY <3>1
    <3>3. CASE i = m
      BY <3>2, <3>3
    <3>4. CASE i # m
      <4>1. i >= m + 1
        BY <2>5, <3>4
      <4>2. f[i] = Field(file, i, lengths, f[i + 3])
        BY <2>6, <4>1 DEF FieldsFrom
      <4>3. g[i] = f[i]
        BY <3>4
      <4> HIDE DEF g
      <4> QED  BY <3>2, <4>2, <4>3
    <3> QED  BY <3>3, <3>4
  <2>8. g = [i \in Nat |-> g[i]]
    OBVIOUS
  <2> HIDE DEF g
  <2>9. FieldsFrom(file, lengths, g, m)
    BY <2>7, <2>8 DEF FieldsFrom
  <2> QED  BY <2>2, <2>9 DEF m
<1>4. Good(n)
  <2>1. n \in 0..n
    BY <1>1
  <2> QED  BY <1>3, <2>1
<1> QED  BY <1>1, <1>4

LEMMA FieldsAre ==
  ASSUME NEW C, NEW file \in Seq(C), NEW lengths
  PROVE  \A i \in Nat : Fields(file, i, lengths) = Field(file, i, lengths, Fields(file, i + 3, lengths))
<1> DEFINE R(f) == [i \in Nat |-> Field(file, i, lengths, f[i + 3])]
           h == CHOOSE f : f = R(f)
<1>1. PICK f : FieldsFrom(file, lengths, f, 0)
  BY FieldsExist
<1>2. f = R(f)
  <2>1. f = [i \in Nat |-> f[i]] /\ \A i \in Nat : f[i] = Field(file, i, lengths, f[i + 3])
    <3>1. \A i \in Nat : i >= 0
      OBVIOUS
    <3> QED  BY <1>1, <3>1, Zenon DEF FieldsFrom
  <2>2. R(f) = [i \in Nat |-> R(f)[i]] /\ \A i \in Nat : R(f)[i] = Field(file, i, lengths, f[i + 3])
    OBVIOUS
  <2> HIDE DEF R
  <2> QED  BY <2>1, <2>2
<1>3. h = R(h)
  BY <1>2
<1>4. \A i : Fields(file, i, lengths) = h[i]
  BY DEF Fields
<1> HIDE DEF h
<1>5. \A i \in Nat : h[i] = Field(file, i, lengths, h[i + 3])
  BY <1>3
<1> QED  BY <1>4, <1>5

\* One round of the loop over fields, by what is found at its place.
Well(file, i, id, len, x) ==
  /\ Whole(file, i, 4) /\ file[i].val = id /\ id # 0
  /\ Whole(file, i + 1, 4) /\ file[i + 1].val = len
  /\ Whole(file, i + 2, len) /\ file[i + 2].val = x

Ends(file, i) == Whole(file, i, 4) /\ file[i].val = 0

Broken(file, i, id, len) ==
  \/ ~Whole(file, i, 4)
  \/ Whole(file, i, 4) /\ file[i].val = id /\ id # 0 /\ ~Whole(file, i + 1, 4)
  \/ /\ Whole(file, i, 4) /\ file[i].val = id /\ id # 0
     /\ Whole(file, i + 1, 4) /\ file[i + 1].val = len /\ ~Whole(file, i + 2, len)

LEMMA FailsIs == \A how : Fails(how).error = how /\ "malformed" # "none" /\ "incompatible" # "none"
BY DEF Fails

LEMMA ReadIs ==
  \A next, found : Read(next, found).error = "none" /\ Read(next, found).next = next
                   /\ Read(next, found).found = found
BY DEF Read

LEMMA FieldEnds ==
  ASSUME NEW file, NEW i, NEW lengths, NEW rest, Ends(file, i)
  PROVE  Field(file, i, lengths, rest) = Read(i + 1, NoEntries)
BY Zenon DEF Field, Ends

\* A field that is known and whole: the rest of the loop, and it.
Goes(file, i, lengths, rest, id, x) ==
  Field(file, i, lengths, rest) =
    IF rest.error # "none" THEN rest ELSE Read(rest.next, Under(rest.found, id, x))

LEMMA FieldKnown ==
  ASSUME NEW file, NEW i, NEW lengths, NEW rest, NEW id, NEW len, NEW x,
         Well(file, i, id, len, x), id \in DOMAIN lengths, len \in lengths[id]
  PROVE  Goes(file, i, lengths, rest, id, x)
BY Zenon DEF Field, Well, Goes

LEMMA FieldSkipped ==
  ASSUME NEW file, NEW i, NEW lengths, NEW rest, NEW id, NEW len, NEW x,
         Well(file, i, id, len, x), id \notin DOMAIN lengths, ~(id % 2 = 1), ~(len > MaxFieldLen)
  PROVE  Field(file, i, lengths, rest) = rest
BY Zenon DEF Field, Well

LEMMA FieldCritical ==
  ASSUME NEW file, NEW i, NEW lengths, NEW rest, NEW id, NEW len, NEW x,
         Well(file, i, id, len, x), id \notin DOMAIN lengths, id % 2 = 1
  PROVE  Field(file, i, lengths, rest) = Fails("incompatible")
BY Zenon DEF Field, Well

LEMMA FieldBroken ==
  ASSUME NEW file, NEW i, NEW lengths, NEW rest, NEW id, NEW len,
         Broken(file, i, id, len), id \in DOMAIN lengths
  PROVE  Field(file, i, lengths, rest) = Fails("malformed")
<1>1. CASE ~Whole(file, i, 4)
  BY <1>1, Zenon DEF Field
<1>2. CASE Whole(file, i, 4) /\ file[i].val = id /\ id # 0 /\ ~Whole(file, i + 1, 4)
  BY <1>2, Zenon DEF Field
<1>3. CASE /\ Whole(file, i, 4) /\ file[i].val = id /\ id # 0
           /\ Whole(file, i + 1, 4) /\ file[i + 1].val = len /\ ~Whole(file, i + 2, len)
  BY <1>3, Zenon DEF Field
<1> QED  BY <1>1, <1>2, <1>3 DEF Broken

\* The loop goes forward.
LEMMA FieldForward ==
  ASSUME NEW file, NEW i, NEW lengths, NEW rest, Field(file, i, lengths, rest).error = "none"
  PROVE  \/ Field(file, i, lengths, rest).next = i + 1
         \/ rest.error = "none" /\ Field(file, i, lengths, rest).next = rest.next
<1> DEFINE id == file[i].val
           len == file[i + 1].val
           begins == Whole(file, i, 4)
           goes == begins /\ id # 0 /\ Whole(file, i + 1, 4)
           F == Field(file, i, lengths, rest)
<1>1. ASSUME NEW how, how # "none", F = Fails(how) PROVE FALSE
  BY <1>1, FailsIs
<1>2. "malformed" # "none" /\ "incompatible" # "none"
  OBVIOUS
<1>3. CASE ~begins \/ (begins /\ id # 0 /\ ~goes)
  <2>1. F = Fails("malformed")
    BY <1>3, Zenon DEF Field
  <2> QED  BY <1>1, <1>2, <2>1
<1>4. CASE begins /\ id = 0
  <2>1. F = Read(i + 1, NoEntries)
    BY <1>4, Zenon DEF Field
  <2> QED  BY <2>1, ReadIs
<1>5. CASE goes /\ id \in DOMAIN lengths
  <2>1. F = IF len \notin lengths[id] \/ ~Whole(file, i + 2, len) THEN Fails("malformed")
            ELSE IF rest.error # "none" THEN rest
            ELSE Read(rest.next, Under(rest.found, id, file[i + 2].val))
    BY <1>5, Zenon DEF Field
  <2> HIDE DEF F, id, len
  <2>2. ~(len \notin lengths[id] \/ ~Whole(file, i + 2, len))
    BY <1>1, <1>2, <2>1
  <2>3. F = IF rest.error # "none" THEN rest ELSE Read(rest.next, Under(rest.found, id, file[i + 2].val))
    BY <2>1, <2>2, Zenon
  <2>4. F.error = "none"
    BY DEF F
  <2>5. rest.error = "none"
    BY <2>3, <2>4
  <2>6. F.next = rest.next
    BY <2>3, <2>5, ReadIs
  <2> QED  BY <2>5, <2>6 DEF F
<1>6. CASE goes /\ id \notin DOMAIN lengths
  <2>1. F = IF id % 2 = 1 THEN Fails("incompatible")
            ELSE IF len > MaxFieldLen \/ ~Whole(file, i + 2, len) THEN Fails("malformed")
            ELSE rest
    BY <1>6, Zenon DEF Field
  <2>2. ~(id % 2 = 1) /\ ~(len > MaxFieldLen \/ ~Whole(file, i + 2, len))
    <3> HIDE DEF F, id, len
    <3> QED  BY <1>1, <1>2, <2>1
  <2>3. F = rest
    BY <2>1, <2>2, Zenon
  <2> QED  BY <2>3
<1> QED  BY <1>3, <1>4, <1>5, <1>6

LEMMA FieldsForward ==
  ASSUME NEW C, NEW file \in Seq(C), NEW lengths
  PROVE  \A i \in Nat : Fields(file, i, lengths).error = "none" =>
           Fields(file, i, lengths).next \in Nat /\ Fields(file, i, lengths).next > i
<1> DEFINE n == Len(file) + 1
           Good(i) == Fields(file, i, lengths).error = "none" =>
                        Fields(file, i, lengths).next \in Nat /\ Fields(file, i, lengths).next > i
           Bad == {k \in 0..n : ~Good(n - k)}
<1>1. n \in Nat /\ Len(file) \in Nat /\ n = Len(file) + 1
  OBVIOUS
<1> HIDE DEF n
<1>2. \A i \in Nat : i >= n => Good(i)
  <2> TAKE i \in Nat
  <2> HAVE i >= n
  <2>1. i > Len(file)
    BY <1>1
  <2>2. Fields(file, i, lengths) = Fails("malformed")
    <3>1. Fields(file, i, lengths) = Field(file, i, lengths, Fields(file, i + 3, lengths))
      BY FieldsAre
    <3> QED  BY <1>1, <2>1, <3>1, BehindTheEnd
  <2> QED  BY <2>2, FailsIs
<1>3. ASSUME Bad # {} PROVE FALSE
  <2>1. PICK k \in Bad : \A j \in Bad : k <= j
    <3>1. Bad \subseteq Nat
      BY <1>1
    <3> HIDE DEF Bad
    <3> QED  BY <1>3, <3>1, LeastNat
  <2> DEFINE i == n - k
  <2>2. k \in 0..n /\ ~Good(i)
    BY <2>1
  <2>3. i \in Nat /\ i + 3 \in Nat /\ i + 1 \in Nat
    BY <1>1, <2>2
  <2>4. Good(i + 3)
    <3>1. CASE i + 3 >= n
      BY <1>2, <2>3, <3>1
    <3>2. CASE ~(i + 3 >= n)
      <4>1. k - 3 \in 0..n /\ ~(k <= k - 3) /\ n - (k - 3) = i + 3
        BY <1>1, <2>2, <3>2
      <4>2. k - 3 \notin Bad
        BY <2>1, <4>1
      <4> QED  BY <4>1, <4>2
    <3> QED  BY <3>1, <3>2
  <2> HIDE DEF i
  <2> DEFINE rest == Fields(file, i + 3, lengths)
  <2>5. Fields(file, i, lengths) = Field(file, i, lengths, rest)
    BY <2>3, FieldsAre
  <2>6. rest.error = "none" => rest.next \in Nat /\ rest.next > i + 3
    BY <2>4
  <2> HIDE DEF rest
  <2>7. Field(file, i, lengths, rest).error = "none" =>
           \/ Field(file, i, lengths, rest).next = i + 1
           \/ rest.error = "none" /\ Field(file, i, lengths, rest).next = rest.next
    <3> HAVE Field(file, i, lengths, rest).error = "none"
    <3> QED  BY FieldForward
  <2> DEFINE x == Field(file, i, lengths, rest)
  <2>8. x.error = "none" => x.next = i + 1 \/ (rest.error = "none" /\ x.next = rest.next)
    BY <2>7
  <2> HIDE DEF x
  <2>9. x.error = "none" => x.next \in Nat /\ x.next > i
    BY <2>3, <2>6, <2>8
  <2> QED  BY <2>2, <2>5, <2>9 DEF x
<1>4. ASSUME NEW i \in Nat PROVE Good(i)
  <2>1. CASE i >= n
    BY <1>2, <2>1
  <2>2. CASE ~(i >= n)
    <3>1. n - i \in 0..n /\ n - (n - i) = i
      BY <1>1, <2>2
    <3> QED  BY <1>3, <3>1
  <2> QED  BY <2>1, <2>2
<1> QED  BY <1>4

\* The entries at a place depend on those behind it.
LEMMA EntriesBehind ==
  ASSUME NEW C, NEW file \in Seq(C), NEW i \in Nat, NEW f, NEW g, \A j \in Nat : j > i => f[j] = g[j]
  PROVE  EntryRows(file, i, f) = EntryRows(file, i, g)
<1> DEFINE F == Fields(file, i, Entry)
<1>1. F.error = "none" => F.next \in Nat /\ F.next > i
  BY FieldsForward
<1> HIDE DEF F
<1>2. F.error = "none" => f[F.next] = g[F.next]
  BY <1>1
<1>3. WithEntry(F, f[F.next]) = WithEntry(F, g[F.next])
  <2>1. CASE F.error = "none"
    BY <1>2, <2>1
  <2>2. CASE F.error # "none"
    BY <2>2, Zenon DEF WithEntry
  <2> QED  BY <2>1, <2>2
<1> QED  BY <1>3, Zenon DEF EntryRows, F

LEMMA EntriesExist ==
  ASSUME NEW C, NEW file \in Seq(C)
  PROVE  \E f : EntriesFrom(file, f, 0)
<1> DEFINE n == Len(file) + 1
           Good(k) == \E f : EntriesFrom(file, f, n - k)
           Bad == {k \in 0..n : ~Good(k)}
<1>1. n \in Nat /\ Len(file) \in Nat /\ n = Len(file) + 1
  OBVIOUS
<1> HIDE DEF n
<1>2. Good(0)
  <2> DEFINE f == [i \in Nat |-> Read(i, NoEntries)]
  <2>1. \A i \in Nat : i >= n => f[i] = EntryRows(file, i, f)
    <3> TAKE i \in Nat
    <3> HAVE i >= n
    <3>1. i > Len(file)
      BY <1>1
    <3>2. EntryRows(file, i, f) = Read(i, NoEntries)
      <4> HIDE DEF f
      <4> QED  BY <3>1, Zenon DEF EntryRows
    <3> QED  BY <3>2
  <2>2. f = [i \in Nat |-> f[i]] /\ n - 0 = n
    BY <1>1
  <2> HIDE DEF f
  <2> QED  BY <2>1, <2>2 DEF EntriesFrom
<1>3. ASSUME Bad # {} PROVE FALSE
  <2>1. PICK k \in Bad : \A j \in Bad : k <= j
    <3>1. Bad \subseteq Nat
      BY <1>1
    <3> HIDE DEF Bad
    <3> QED  BY <1>3, <3>1, LeastNat
  <2>2. k \in 0..n /\ ~Good(k) /\ k # 0
    BY <1>2, <2>1
  <2>3. k - 1 \in 0..n /\ ~(k <= k - 1) /\ n - k \in Nat /\ n - (k - 1) = (n - k) + 1
    BY <1>1, <2>2
  <2>4. Good(k - 1)
    <3>1. k - 1 \notin Bad
      BY <2>1, <2>3
    <3> QED  BY <2>3, <3>1
  <2> DEFINE m == n - k
  <2>5. m \in Nat
    BY <2>3
  <2>6. PICK f : EntriesFrom(file, f, m + 1)
    BY <2>3, <2>4
  <2> HIDE DEF m
  <2> DEFINE g == [i \in Nat |-> IF i = m THEN EntryRows(file, m, f) ELSE f[i]]
  <2>7. \A i \in Nat : i >= m => g[i] = EntryRows(file, i, g)
    <3> TAKE i \in Nat
    <3> HAVE i >= m
    <3>1. \A j \in Nat : j > i => g[j] = f[j]
      BY <2>5
    <3>2. g[i] = IF i = m THEN EntryRows(file, i, f) ELSE f[i]
      OBVIOUS
    <3> HIDE DEF g
    <3>3. EntryRows(file, i, g) = EntryRows(file, i, f)
      BY <3>1, EntriesBehind
    <3>4. CASE i = m
      BY <3>2, <3>3, <3>4
    <3>5. CASE i # m
      <4>1. i >= m + 1
        BY <2>5, <3>5
      <4>2. f[i] = EntryRows(file, i, f)
        BY <2>6, <4>1 DEF EntriesFrom
      <4> QED  BY <3>2, <3>3, <3>5, <4>2
    <3> QED  BY <3>4, <3>5
  <2>8. g = [i \in Nat |-> g[i]]
    OBVIOUS
  <2> HIDE DEF g
  <2>9. EntriesFrom(file, g, m)
    BY <2>7, <2>8 DEF EntriesFrom
  <2> QED  BY <2>2, <2>9 DEF m
<1>4. Good(n)
  <2>1. n \in 0..n
    BY <1>1
  <2> QED  BY <1>3, <2>1
<1> QED  BY <1>1, <1>4

LEMMA EntriesAre ==
  ASSUME NEW C, NEW file \in Seq(C)
  PROVE  \A i \in Nat : Entries(file, i) =
           IF i > Len(file) THEN Read(i, NoEntries)
           ELSE WithEntry(Fields(file, i, Entry), Entries(file, Fields(file, i, Entry).next))
<1> DEFINE R(f) == [i \in Nat |-> IF i > Len(file) THEN Read(i, NoEntries)
                                  ELSE WithEntry(Fields(file, i, Entry), f[Fields(file, i, Entry).next])]
           h == CHOOSE f : f = R(f)
<1>1. PICK f : EntriesFrom(file, f, 0)
  BY EntriesExist
<1>2. f = R(f)
  <2>1. f = [i \in Nat |-> f[i]] /\ \A i \in Nat : f[i] = R(f)[i]
    <3>1. \A i \in Nat : i >= 0
      OBVIOUS
    <3>2. f = [i \in Nat |-> f[i]] /\ \A i \in Nat : f[i] = EntryRows(file, i, f)
      BY <1>1, <3>1, Zenon DEF EntriesFrom
    <3> QED  BY <3>2, Zenon DEF EntryRows
  <2>2. R(f) = [i \in Nat |-> R(f)[i]]
    OBVIOUS
  <2> HIDE DEF R
  <2> QED  BY <2>1, <2>2
<1>3. h = R(h)
  BY <1>2
<1>4. \A i : Entries(file, i) = h[i]
  BY DEF Entries
<1> HIDE DEF h
<1>5. \A i \in Nat : h[i] = IF i > Len(file) THEN Read(i, NoEntries)
                            ELSE WithEntry(Fields(file, i, Entry), h[Fields(file, i, Entry).next])
  BY <1>3, Zenon
<1> QED  BY <1>4, <1>5, Zenon

\* What is found is put under what was found before.
LEMMA UnderDomain == \A f, x, y : DOMAIN Under(f, x, y) = DOMAIN f \cup {x}
BY DEF Under

LEMMA UnderNew == \A f, x, y : x \notin DOMAIN f => Under(f, x, y)[x] = y
BY DEF Under

LEMMA UnderOld == \A f, x, y : \A z \in DOMAIN f : Under(f, x, y)[z] = f[z]
BY DEF Under

\* The fields of an entry, and of the header of a named key.
LEMMA Known == /\ DOMAIN Entry = {1, 3, 5} /\ 4 \in Entry[1] /\ 32 \in Entry[3] /\ 64 \in Entry[5]
               /\ DOMAIN Header = {1} /\ 5 \in Header[1]
BY DEF Entry, Header

\* What the fields from a place on come to.
Yields(file, i, lengths, next, found) == Fields(file, i, lengths) = Read(next, found)

LEMMA FieldsEnd ==
  ASSUME NEW C, NEW file \in Seq(C), NEW i \in Nat, NEW lengths, Ends(file, i)
  PROVE  Yields(file, i, lengths, i + 1, NoEntries)
<1>1. Fields(file, i, lengths) = Field(file, i, lengths, Fields(file, i + 3, lengths))
  BY FieldsAre
<1>2. \A rest : Field(file, i, lengths, rest) = Read(i + 1, NoEntries)
  BY FieldEnds
<1> QED  BY <1>1, <1>2 DEF Yields

LEMMA FieldsGoOn ==
  ASSUME NEW C, NEW file \in Seq(C), NEW i \in Nat, NEW lengths, NEW id, NEW len, NEW x,
         Well(file, i, id, len, x), id \in DOMAIN lengths, len \in lengths[id],
         NEW next, NEW found, Yields(file, i + 3, lengths, next, found)
  PROVE  Yields(file, i, lengths, next, Under(found, id, x))
<1>1. Fields(file, i, lengths) = Field(file, i, lengths, Fields(file, i + 3, lengths))
  BY FieldsAre
<1>2. \A rest : Goes(file, i, lengths, rest, id, x)
  BY FieldKnown, Zenon
<1>3. Read(next, found).error = "none" /\ Read(next, found).next = next /\ Read(next, found).found = found
  BY ReadIs
<1> QED  BY <1>1, <1>2, <1>3, Zenon DEF Goes, Yields

LEMMA FieldsFail ==
  ASSUME NEW C, NEW file \in Seq(C), NEW i \in Nat, NEW lengths, NEW id, NEW len, NEW x,
         Well(file, i, id, len, x), id \in DOMAIN lengths, len \in lengths[id],
         Fields(file, i + 3, lengths).error # "none"
  PROVE  Fields(file, i, lengths).error # "none"
<1>1. Fields(file, i, lengths) = Field(file, i, lengths, Fields(file, i + 3, lengths))
  BY FieldsAre
<1>2. \A rest : Goes(file, i, lengths, rest, id, x)
  BY FieldKnown, Zenon
<1> QED  BY <1>1, <1>2, Zenon DEF Goes

LEMMA FieldsBreak ==
  ASSUME NEW C, NEW file \in Seq(C), NEW i \in Nat, NEW lengths, NEW id, NEW len,
         Broken(file, i, id, len), id \in DOMAIN lengths
  PROVE  Fields(file, i, lengths).error # "none"
<1>1. Fields(file, i, lengths) = Field(file, i, lengths, Fields(file, i + 3, lengths))
  BY FieldsAre
<1>2. \A rest : Field(file, i, lengths, rest) = Fails("malformed")
  BY FieldBroken, Zenon
<1> QED  BY <1>1, <1>2, FailsIs

\* The entry of a key with one version.
EntryAt(file, h, v, s) ==
  /\ Well(file, h, 1, 4, v) /\ Well(file, h + 3, 3, 32, s) /\ Well(file, h + 6, 5, 64, s)
  /\ Ends(file, h + 9) /\ Len(file) = h + 9

OneEntry(v, s) == Under(NoEntries, v, [aes |-> s, hmac |-> s])

LEMMA EntryFields ==
  ASSUME NEW C, NEW file \in Seq(C), NEW h \in Nat, NEW v, NEW s, EntryAt(file, h, v, s)
  PROVE  Yields(file, h, Entry, h + 10, Under(Under(Under(NoEntries, 5, s), 3, s), 1, v))
<1>1. /\ Well(file, h, 1, 4, v) /\ Well(file, h + 3, 3, 32, s) /\ Well(file, h + 6, 5, 64, s)
      /\ Ends(file, h + 9)
  BY DEF EntryAt
<1>2. /\ h + 3 \in Nat /\ h + 6 \in Nat /\ h + 9 \in Nat
      /\ h + 3 + 3 = h + 6 /\ h + 6 + 3 = h + 9 /\ h + 9 + 1 = h + 10
  OBVIOUS
<1>3. Yields(file, h + 9, Entry, h + 10, NoEntries)
  BY <1>1, <1>2, FieldsEnd
<1>4. Yields(file, h + 6, Entry, h + 10, Under(NoEntries, 5, s))
  <2>1. 5 \in DOMAIN Entry /\ 64 \in Entry[5] /\ Yields(file, h + 6 + 3, Entry, h + 10, NoEntries)
    BY <1>2, <1>3, Known
  <2> QED  BY <1>1, <1>2, <2>1, FieldsGoOn, Zenon
<1>5. Yields(file, h + 3, Entry, h + 10, Under(Under(NoEntries, 5, s), 3, s))
  <2>1. /\ 3 \in DOMAIN Entry /\ 32 \in Entry[3]
        /\ Yields(file, h + 3 + 3, Entry, h + 10, Under(NoEntries, 5, s))
    BY <1>2, <1>4, Known
  <2> QED  BY <1>1, <1>2, <2>1, FieldsGoOn, Zenon
<1>6. 1 \in DOMAIN Entry /\ 4 \in Entry[1]
  BY Known
<1> QED  BY <1>1, <1>5, <1>6, FieldsGoOn, Zenon

LEMMA EntryFound ==
  ASSUME NEW s, NEW v, NEW i
  PROVE  \A F : F = Read(i, Under(Under(Under(NoEntries, 5, s), 3, s), 1, v)) =>
           F.error = "none" /\ Found(F, 1, 0) = v /\ Found(F, 3, Zero) = s /\ Found(F, 5, Zero) = s
<1> DEFINE a == Under(NoEntries, 5, s)  b == Under(a, 3, s)  c == Under(b, 1, v)
<1>1. DOMAIN NoEntries = {}
  BY DEF NoEntries
<1>2. DOMAIN a = {5} /\ a[5] = s
  <2> HIDE DEF a
  <2>1. DOMAIN a = DOMAIN NoEntries \cup {5}
    BY UnderDomain, Zenon DEF a
  <2>2. 5 \notin DOMAIN NoEntries => a[5] = s
    BY UnderNew, Zenon DEF a
  <2> QED  BY <1>1, <2>1, <2>2
<1> HIDE DEF a
<1>3. DOMAIN b = {5, 3} /\ b[5] = s /\ b[3] = s
  <2> HIDE DEF b
  <2>1. DOMAIN b = DOMAIN a \cup {3}
    BY UnderDomain, Zenon DEF b
  <2>2. 3 \notin DOMAIN a => b[3] = s
    BY UnderNew, Zenon DEF b
  <2>3. \A z \in DOMAIN a : b[z] = a[z]
    BY UnderOld, Zenon DEF b
  <2> QED  BY <1>2, <2>1, <2>2, <2>3
<1> HIDE DEF b
<1>4. DOMAIN c = {5, 3, 1} /\ c[5] = s /\ c[3] = s /\ c[1] = v
  <2> HIDE DEF c
  <2>1. /\ DOMAIN c = DOMAIN b \cup {1} /\ (1 \notin DOMAIN b => c[1] = v)
        /\ \A z \in DOMAIN b : c[z] = b[z]
    BY UnderDomain, UnderNew, UnderOld, ZenonT(60) DEF c
  <2> QED  BY <1>3, <2>1
<1>5. c = Under(Under(Under(NoEntries, 5, s), 3, s), 1, v)
  BY DEF a, b
<1> HIDE DEF c
<1> SUFFICES ASSUME NEW F, F = Read(i, c)
             PROVE  F.error = "none" /\ Found(F, 1, 0) = v /\ Found(F, 3, Zero) = s /\ Found(F, 5, Zero) = s
  BY <1>5
<1>6. F.error = "none" /\ F.found = c
  BY ReadIs
<1> QED  BY <1>4, <1>6 DEF Found

LEMMA EntriesRead ==
  ASSUME NEW C, NEW file \in Seq(C), NEW h \in Nat, NEW v, NEW s, EntryAt(file, h, v, s)
  PROVE  Entries(file, h) = Read(h + 10, OneEntry(v, s))
<1> DEFINE F == Fields(file, h, Entry)  rest == Entries(file, F.next)
<1>1. F = Read(h + 10, Under(Under(Under(NoEntries, 5, s), 3, s), 1, v))
  BY EntryFields DEF Yields
<1>2. Len(file) = h + 9 /\ ~(h > Len(file)) /\ h + 10 \in Nat /\ h + 10 > Len(file)
  BY DEF EntryAt
<1>3. Entries(file, h) = WithEntry(F, rest)
  BY <1>2, EntriesAre, Zenon
<1>4. F.next = h + 10
  BY <1>1, ReadIs
<1>5. rest = Read(h + 10, NoEntries)
  <2>1. Entries(file, h + 10) = Read(h + 10, NoEntries)
    BY <1>2, EntriesAre, Zenon
  <2> QED  BY <1>4, <2>1
<1> HIDE DEF F, rest
<1>6. F.error = "none" /\ Found(F, 1, 0) = v /\ Found(F, 3, Zero) = s /\ Found(F, 5, Zero) = s
  BY <1>1, EntryFound
<1>7. rest.error = "none" /\ rest.next = h + 10 /\ rest.found = NoEntries
  BY <1>5, ReadIs
<1>8. WithEntry(F, rest) = Read(rest.next, Under(rest.found, Found(F, 1, 0),
                                                 [aes |-> Found(F, 3, Zero), hmac |-> Found(F, 5, Zero)]))
  BY <1>6, <1>7, Zenon DEF WithEntry
<1> QED  BY <1>3, <1>6, <1>7, <1>8, Zenon DEF OneEntry

\* A header of a key's name, or of none, from the place o on; the entry follows.
HeaderAt(file, n, o) == IF n = NoName THEN Ends(file, o) ELSE Well(file, o, 1, 5, n) /\ Ends(file, o + 3)
Behead(n, o) == IF n = NoName THEN o + 1 ELSE o + 4
Named(n) == IF n = NoName THEN NoEntries ELSE Under(NoEntries, 1, n)

LEMMA HeaderFields ==
  ASSUME NEW C, NEW file \in Seq(C), NEW o \in Nat, NEW n, HeaderAt(file, n, o)
  PROVE  Yields(file, o, Header, Behead(n, o), Named(n))
<1>1. CASE n = NoName
  <2>1. Ends(file, o) /\ Behead(n, o) = o + 1 /\ Named(n) = NoEntries
    BY <1>1 DEF HeaderAt, Behead, Named
  <2>2. Yields(file, o, Header, o + 1, NoEntries)
    BY <2>1, FieldsEnd, Zenon
  <2> QED  BY <2>1, <2>2
<1>2. CASE n # NoName
  <2>1. /\ Well(file, o, 1, 5, n) /\ Ends(file, o + 3) /\ Behead(n, o) = o + 4
        /\ Named(n) = Under(NoEntries, 1, n)
    BY <1>2 DEF HeaderAt, Behead, Named
  <2>2. o + 3 \in Nat /\ o + 3 + 1 = o + 4
    OBVIOUS
  <2>3. Yields(file, o + 3, Header, o + 4, NoEntries)
    BY <2>1, <2>2, FieldsEnd
  <2>4. 1 \in DOMAIN Header /\ 5 \in Header[1]
    BY Known
  <2>5. Yields(file, o, Header, o + 4, Under(NoEntries, 1, n))
    BY <2>1, <2>3, <2>4, FieldsGoOn, Zenon
  <2> QED  BY <2>1, <2>5
<1> QED  BY <1>1, <1>2

LEMMA NameFound ==
  ASSUME NEW n, NEW i
  PROVE  \A H : H = Read(i, Named(n)) => H.error = "none" /\ H.next = i /\ Found(H, 1, NoName) = n
<1> TAKE H
<1> HAVE H = Read(i, Named(n))
<1>1. H.error = "none" /\ H.next = i /\ H.found = Named(n)
  BY ReadIs
<1>2. DOMAIN NoEntries = {}
  BY DEF NoEntries
<1>3. CASE n = NoName
  <2>1. Named(n) = NoEntries
    BY <1>3 DEF Named
  <2> QED  BY <1>1, <1>2, <1>3, <2>1 DEF Found
<1>4. CASE n # NoName
  <2> DEFINE u == Under(NoEntries, 1, n)
  <2>1. Named(n) = u
    BY <1>4 DEF Named
  <2>2. DOMAIN u = DOMAIN NoEntries \cup {1}
    BY UnderDomain, Zenon
  <2>3. 1 \notin DOMAIN NoEntries => u[1] = n
    BY UnderNew, Zenon
  <2> HIDE DEF u
  <2>4. 1 \in DOMAIN u /\ u[1] = n
    BY <1>2, <2>2, <2>3
  <2> QED  BY <1>1, <2>1, <2>4 DEF Found
<1> QED  BY <1>3, <1>4

\* A file that starts as a key file does.
Begins(file) == Whole(file, 1, 12) /\ Whole(file, 2, 4) /\ file[1] = Magic /\ file[2] = U32(FormatVersion)

LEMMA LoadBegins ==
  ASSUME NEW file, Begins(file), NEW H, H = Fields(file, 3, Header), NEW B, B = Entries(file, H.next)
  PROVE  /\ H.error # "none" => Load(file) = H
         /\ H.error = "none" /\ B.error # "none" => Load(file) = B
         /\ H.error = "none" /\ B.error = "none" =>
              Load(file) = [error |-> "none", key |-> KeyOf(Found(H, 1, NoName), B.found)]
<1> DEFINE starts == Whole(file, 1, 12) /\ Whole(file, 2, 4) /\ file[1] = Magic
<1>1. starts /\ ~~starts /\ file[2] = U32(FormatVersion)
  BY DEF Begins
<1>2. Load(file) = IF H.error # "none" THEN H
                   ELSE IF B.error # "none" THEN B
                   ELSE [error |-> "none", key |-> KeyOf(Found(H, 1, NoName), B.found)]
  BY <1>1, Zenon DEF Load
<1> QED  BY <1>2, Zenon

LEMMA LoadElse ==
  ASSUME NEW file, ~Begins(file)
  PROVE  Load(file).error # "none"
<1> DEFINE starts == Whole(file, 1, 12) /\ Whole(file, 2, 4) /\ file[1] = Magic
<1>1. CASE ~starts
  <2>1. Load(file) = Fails("malformed")
    BY <1>1, Zenon DEF Load
  <2> QED  BY <2>1, FailsIs
<1>2. CASE starts
  <2>1. file[2] # U32(FormatVersion)
    BY <1>2 DEF Begins
  <2>2. Load(file) = Fails("incompatible")
    BY <1>2, <2>1, Zenon DEF Load
  <2> QED  BY <2>2, FailsIs
<1> QED  BY <1>1, <1>2

\* A whole file is read.
LoadedKey(n, v, s) == [error |-> "none", key |-> KeyOf(n, OneEntry(v, s))]

LEMMA LoadsWhole ==
  ASSUME NEW C, NEW file \in Seq(C), NEW n, NEW v, NEW s, NEW h \in Nat, Begins(file),
         Yields(file, 3, Header, h, Named(n)), EntryAt(file, h, v, s)
  PROVE  Load(file) = LoadedKey(n, v, s)
<1> DEFINE H == Fields(file, 3, Header)  B == Entries(file, H.next)
<1>1. H.error = "none" /\ H.next = h /\ Found(H, 1, NoName) = n
  <2>1. H = Read(h, Named(n))
    BY DEF Yields
  <2> HIDE DEF H
  <2> QED  BY <2>1, NameFound
<1>2. B = Read(h + 10, OneEntry(v, s))
  <2>1. Entries(file, h) = Read(h + 10, OneEntry(v, s))
    BY EntriesRead
  <2> QED  BY <1>1, <2>1
<1>3. H.error = "none" /\ B.error = "none" =>
        Load(file) = [error |-> "none", key |-> KeyOf(Found(H, 1, NoName), B.found)]
  BY LoadBegins
<1> HIDE DEF H, B
<1>4. B.error = "none" /\ B.found = OneEntry(v, s)
  BY <1>2, ReadIs
<1> QED  BY <1>1, <1>3, <1>4, Zenon DEF LoadedKey

-----------------------------------------------------------------------------
(* The files git-crypt writes.                                             *)

Cells(n, s) ==
  {Magic, U32(FormatVersion), U32(0), U32(1), U32(2), U32(3), U32(4), U32(5), U32(7), U32(8), U32(32), U32(64),
   Bytes(n, 5), Bytes(s, 32), Bytes(s, 64), Bytes(Zero, 8)}

LEMMA CellsAre ==
  /\ \A x : U32(x).val = x /\ U32(x).width = 4 /\ U32(x).kind # "cut"
  /\ \A x, w : Bytes(x, w).val = x /\ Bytes(x, w).width = w /\ Bytes(x, w).kind # "cut"
  /\ Magic.width = 12 /\ Magic.kind # "cut"
  /\ \A w : Cell("cut", 0, w).kind = "cut"
BY DEF U32, Bytes, Magic, Cell

LEMMA WholeU32 ==
  \A file, i, x : i <= Len(file) /\ file[i] = U32(x) => Whole(file, i, 4) /\ file[i].val = x
BY CellsAre DEF Whole

Entry1(s) == StoreEntry(0, [aes |-> s, hmac |-> s])

LEMMA EntryCells ==
  ASSUME NEW s
  PROVE  /\ \A n : Entry1(s) \in Seq(Cells(n, s))
         /\ Len(Entry1(s)) = 10
         /\ Entry1(s)[1] = U32(1) /\ Entry1(s)[2] = U32(4) /\ Entry1(s)[3] = U32(0)
         /\ Entry1(s)[4] = U32(3) /\ Entry1(s)[5] = U32(32) /\ Entry1(s)[6] = Bytes(s, 32)
         /\ Entry1(s)[7] = U32(5) /\ Entry1(s)[8] = U32(64) /\ Entry1(s)[9] = Bytes(s, 64)
         /\ Entry1(s)[10] = U32(0)
<1> DEFINE e == [aes |-> s, hmac |-> s]
           t == <<U32(1), U32(4), U32(0), U32(3), U32(32), Bytes(s, 32), U32(5), U32(64), Bytes(s, 64), U32(0)>>
<1>1. Entry1(s) = t
  <2>1. e.aes = s /\ e.hmac = s
    OBVIOUS
  <2>2. StoreEntry(0, e) = t
    <3> HIDE DEF e
    <3> QED  BY <2>1, Zenon DEF StoreEntry
  <2> QED  BY <2>2 DEF Entry1
<1>2. \A n : t \in Seq(Cells(n, s))
  BY DEF Cells
<1>3. /\ Len(t) = 10
      /\ t[1] = U32(1) /\ t[2] = U32(4) /\ t[3] = U32(0)
      /\ t[4] = U32(3) /\ t[5] = U32(32) /\ t[6] = Bytes(s, 32)
      /\ t[7] = U32(5) /\ t[8] = U32(64) /\ t[9] = Bytes(s, 64)
      /\ t[10] = U32(0)
  OBVIOUS
<1> HIDE DEF t
<1> QED  BY <1>1, <1>2, <1>3

\* The key: one version, 0, of two secrets that belong together.
LEMMA NewKeyIs ==
  ASSUME NEW n, NEW s
  PROVE  NewKey(n, s) = KeyOf(n, OneEntry(0, s))
<1>1. KeyOf(n, NoEntries).name = n /\ KeyOf(n, NoEntries).entries = NoEntries
  BY DEF KeyOf
<1> QED  BY <1>1, Zenon DEF NewKey, Generate, OneEntry

LEMMA OneEntryIs ==
  ASSUME NEW s
  PROVE  DOMAIN OneEntry(0, s) = {0} /\ OneEntry(0, s)[0] = [aes |-> s, hmac |-> s] /\ OneEntry(0, s) # NoEntries
<1>1. DOMAIN NoEntries = {}
  BY DEF NoEntries
<1>2. DOMAIN OneEntry(0, s) = DOMAIN NoEntries \cup {0}
  BY UnderDomain, Zenon DEF OneEntry
<1>3. 0 \notin DOMAIN NoEntries => OneEntry(0, s)[0] = [aes |-> s, hmac |-> s]
  BY UnderNew, Zenon DEF OneEntry
<1>4. DOMAIN OneEntry(0, s) = {0} /\ OneEntry(0, s)[0] = [aes |-> s, hmac |-> s]
  BY <1>1, <1>2, <1>3
<1>5. OneEntry(0, s) # NoEntries
  BY <1>1, <1>4
<1> QED  BY <1>4, <1>5

LEMMA DescendingOne == Descending({0}) = [i \in 1..1 |-> 0]
<1> DEFINE P(v) == v \in [1..1 -> {0}] /\ \A i, j \in DOMAIN v : i < j => v[i] > v[j]
           w == [i \in 1..1 |-> 0]
<1>1. Cardinality({0}) = 1
  BY FS_Singleton
<1>2. Descending({0}) = CHOOSE v \in [1..1 -> {0}] : \A i, j \in DOMAIN v : i < j => v[i] > v[j]
  BY <1>1 DEF Descending
<1>3. w \in [1..1 -> {0}] /\ \A i, j \in DOMAIN w : i < j => w[i] > w[j]
  OBVIOUS
<1>4. \A v \in [1..1 -> {0}] : v = w
  OBVIOUS
<1> QED  BY <1>2, <1>3, <1>4

LEMMA StoreOne ==
  ASSUME NEW n, NEW s, NEW k, k = KeyOf(n, OneEntry(0, s))
  PROVE  Store(k) = ((<<Magic, U32(FormatVersion)>>
                      \o (IF n = NoName THEN <<>> ELSE <<U32(1), U32(5), Bytes(n, 5)>>))
                     \o <<U32(0)>>) \o Entry1(s)
<1> DEFINE vs == Descending(DOMAIN k.entries)
           bs == [i \in DOMAIN vs |-> StoreEntry(vs[i], k.entries[vs[i]])]
           C == Cells(n, s)
<1>1. k.name = n /\ k.entries = OneEntry(0, s)
  BY DEF KeyOf
<1>2. DOMAIN vs = 1..1 /\ vs[1] = 0
  <2>1. vs = [i \in 1..1 |-> 0]
    BY <1>1, OneEntryIs, DescendingOne
  <2> HIDE DEF vs
  <2> QED  BY <2>1
<1>3. k.entries[0] = [aes |-> s, hmac |-> s]
  BY <1>1, OneEntryIs
<1>4. Store(k) = ((<<Magic, U32(FormatVersion)>>
                      \o (IF n = NoName THEN <<>> ELSE <<U32(1), U32(5), Bytes(n, 5)>>))
                     \o <<U32(0)>>) \o FlattenSeq(bs)
  BY <1>1, Zenon DEF Store
<1>5. DOMAIN bs = 1..1 /\ bs[1] = Entry1(s)
  <2> HIDE DEF vs
  <2>1. DOMAIN bs = 1..1 /\ bs[1] = StoreEntry(vs[1], k.entries[vs[1]])
    BY <1>2
  <2> HIDE DEF bs
  <2> QED  BY <1>2, <1>3, <2>1, Zenon DEF Entry1
<1>6. bs = [i \in 1..1 |-> bs[i]]
  BY <1>5
<1> HIDE DEF bs
<1> DEFINE G == Seq(C)
<1>7. bs[1] \in G /\ \A x, y \in G : x \o y \in G
  BY <1>5, EntryCells, ConcatType
<1>8. bs \in Seq(G) /\ Len(bs) = 1
  <2> HIDE DEF G
  <2> QED  BY <1>6, <1>7
<1>9. PICK f \in [1..Len(bs) -> G] : Flat(bs, f, Len(bs)) /\ FlattenSeq(bs) = f[Len(bs)]
  <2> HIDE DEF G
  <2> QED  BY <1>7, <1>8, FlattenIs
<1>10. FlattenSeq(bs) = bs[1]
  BY <1>8, <1>9 DEF Flat
<1> QED  BY <1>4, <1>5, <1>10, Zenon

\* Where the elements of two sequences are when one follows the other.
Joins(a, b) == /\ Len(a \o b) = Len(a) + Len(b)
               /\ \A i \in 1..Len(a) : (a \o b)[i] = a[i]
               /\ \A i \in 1..Len(b) : (a \o b)[Len(a) + i] = b[i]

LEMMA ConcatIs == \A C : \A a, b \in Seq(C) : a \o b \in Seq(C) /\ Joins(a, b)
BY DEF Joins

\* The cells of a new key's file: h is where its entry starts.
Layout(f, n, s, h) ==
  /\ f \in Seq(Cells(n, s)) /\ Len(f) = h + 9 /\ h = Behead(n, 3)
  /\ f[1] = Magic /\ f[2] = U32(FormatVersion)
  /\ n # NoName => f[3] = U32(1) /\ f[4] = U32(5) /\ f[5] = Bytes(n, 5)
  /\ f[h - 1] = U32(0)
  /\ \A j \in 1..10 : f[h - 1 + j] = Entry1(s)[j]

LEMMA NewFile ==
  ASSUME NEW n, NEW s
  PROVE  Layout(Store(NewKey(n, s)), n, s, Behead(n, 3))
<1> DEFINE C == Cells(n, s)  a == <<Magic, U32(FormatVersion)>>  z == <<U32(0)>>  e == Entry1(s)
           m == IF n = NoName THEN <<>> ELSE <<U32(1), U32(5), Bytes(n, 5)>>
           b == a \o m  d == b \o z  f == d \o e  h == Behead(n, 3)
<1>1. Store(NewKey(n, s)) = f
  <2>1. \A k : k = KeyOf(n, OneEntry(0, s)) => Store(k) = f
    BY StoreOne
  <2> QED  BY <2>1, NewKeyIs
<1>2. a \in Seq(C) /\ Len(a) = 2 /\ a[1] = Magic /\ a[2] = U32(FormatVersion)
  BY DEF Cells
<1>3. z \in Seq(C) /\ Len(z) = 1 /\ z[1] = U32(0)
  BY DEF Cells
<1>4. e \in Seq(C) /\ Len(e) = 10
  BY EntryCells
<1>5. /\ m \in Seq(C) /\ Len(m) = h - 4
      /\ n = NoName => h = 4
      /\ n # NoName => h = 7 /\ m[1] = U32(1) /\ m[2] = U32(5) /\ m[3] = Bytes(n, 5)
  <2>1. CASE n = NoName
    <3>1. m = <<>> /\ h = 4
      BY <2>1 DEF Behead
    <3> QED  BY <2>1, <3>1
  <2>2. CASE n # NoName
    <3> DEFINE t == <<U32(1), U32(5), Bytes(n, 5)>>
    <3>1. m = t /\ h = 7
      BY <2>2 DEF Behead
    <3>2. t \in Seq(C) /\ Len(t) = 3 /\ t[1] = U32(1) /\ t[2] = U32(5) /\ t[3] = Bytes(n, 5)
      BY DEF Cells
    <3> HIDE DEF m, t, h
    <3> QED  BY <2>2, <3>1, <3>2
  <2> QED  BY <2>1, <2>2
<1> HIDE DEF C, a, z, e, m, h
<1>6. /\ b \in Seq(C) /\ Len(b) = Len(a) + Len(m)
      /\ \A i \in 1..Len(a) : b[i] = a[i]
      /\ \A i \in 1..Len(m) : b[Len(a) + i] = m[i]
  <2>1. b \in Seq(C) /\ Joins(a, m)
    BY <1>2, <1>5, ConcatIs, Zenon
  <2> QED  BY <2>1, Zenon DEF Joins
<1> HIDE DEF b
<1>7. /\ d \in Seq(C) /\ Len(d) = Len(b) + Len(z)
      /\ \A i \in 1..Len(b) : d[i] = b[i]
      /\ \A i \in 1..Len(z) : d[Len(b) + i] = z[i]
  <2>1. d \in Seq(C) /\ Joins(b, z)
    BY <1>3, <1>6, ConcatIs, Zenon
  <2> QED  BY <2>1, Zenon DEF Joins
<1> HIDE DEF d
<1>8. /\ f \in Seq(C) /\ Len(f) = Len(d) + Len(e)
      /\ \A i \in 1..Len(d) : f[i] = d[i]
      /\ \A i \in 1..Len(e) : f[Len(d) + i] = e[i]
  <2>1. f \in Seq(C) /\ Joins(d, e)
    BY <1>4, <1>7, ConcatIs, Zenon
  <2> QED  BY <2>1, Zenon DEF Joins
<1> HIDE DEF f
<1>9. h \in {4, 7} /\ Len(b) = h - 2 /\ Len(d) = h - 1 /\ Len(f) = h + 9
  <2>1. h = 4 \/ h = 7
    BY <1>5
  <2>2. Len(a) = 2 /\ Len(m) = h - 4 /\ Len(z) = 1 /\ Len(e) = 10
    BY <1>2, <1>3, <1>4, <1>5
  <2>3. Len(b) = Len(a) + Len(m) /\ Len(d) = Len(b) + Len(z) /\ Len(f) = Len(d) + Len(e)
    BY <1>6, <1>7, <1>8
  <2> QED  BY <2>1, <2>2, <2>3
<1>10. f[1] = Magic /\ f[2] = U32(FormatVersion)
  <2>1. f[1] = d[1] /\ f[2] = d[2]
    BY <1>8, <1>9
  <2>2. d[1] = b[1] /\ d[2] = b[2]
    BY <1>7, <1>9
  <2>3. b[1] = a[1] /\ b[2] = a[2]
    BY <1>2, <1>6
  <2> QED  BY <1>2, <2>1, <2>2, <2>3
<1>11. n # NoName => f[3] = U32(1) /\ f[4] = U32(5) /\ f[5] = Bytes(n, 5)
  <2> HAVE n # NoName
  <2>1. f[3] = d[3] /\ f[4] = d[4] /\ f[5] = d[5]
    BY <1>5, <1>8, <1>9
  <2>2. d[3] = b[3] /\ d[4] = b[4] /\ d[5] = b[5]
    BY <1>5, <1>7, <1>9
  <2>3. b[2 + 1] = m[1] /\ b[2 + 2] = m[2] /\ b[2 + 3] = m[3]
    BY <1>2, <1>5, <1>6
  <2>4. 2 + 1 = 3 /\ 2 + 2 = 4 /\ 2 + 3 = 5
    OBVIOUS
  <2> QED  BY <1>5, <2>1, <2>2, <2>3, <2>4
<1>12. f[h - 1] = U32(0)
  <2>1. f[h - 1] = d[h - 1]
    BY <1>8, <1>9
  <2>2. d[h - 2 + 1] = z[1]
    BY <1>3, <1>7, <1>9
  <2>3. h - 2 + 1 = h - 1
    BY <1>9
  <2> QED  BY <1>3, <2>1, <2>2, <2>3
<1>13. \A j \in 1..10 : f[h - 1 + j] = e[j]
  BY <1>4, <1>8, <1>9
<1>14. Layout(f, n, s, h)
  BY <1>8, <1>9, <1>10, <1>11, <1>12, <1>13, Zenon DEF Layout, C, e, h
<1> QED  BY <1>1, <1>14 DEF h

\* A field as it is written.
Spelt(f, i, id, len, x) ==
  /\ f[i] = U32(id) /\ id # 0 /\ f[i + 1] = U32(len)
  /\ f[i + 2] = Bytes(x, len) \/ (len = 4 /\ f[i + 2] = U32(x))

LEMMA SpeltIs ==
  ASSUME NEW f, NEW i, NEW id, NEW len, NEW x, Spelt(f, i, id, len, x)
  PROVE  /\ f[i].kind # "cut" /\ f[i].width = 4 /\ f[i].val = id /\ id # 0
         /\ f[i + 1].kind # "cut" /\ f[i + 1].width = 4 /\ f[i + 1].val = len
         /\ f[i + 2].kind # "cut" /\ f[i + 2].width = len /\ f[i + 2].val = x
<1> DEFINE a == f[i]  b == f[i + 1]  c == f[i + 2]
<1>1. a = U32(id) /\ id # 0 /\ b = U32(len) /\ (c = Bytes(x, len) \/ (len = 4 /\ c = U32(x)))
  BY DEF Spelt
<1> HIDE DEF a, b, c
<1>2. a.kind # "cut" /\ a.width = 4 /\ a.val = id
  BY <1>1, CellsAre, Zenon
<1>3. b.kind # "cut" /\ b.width = 4 /\ b.val = len
  BY <1>1, CellsAre, Zenon
<1>4. c.kind # "cut" /\ c.width = len /\ c.val = x
  <2>1. CASE c = Bytes(x, len)
    BY <2>1, CellsAre, SMTT(30)
  <2>2. CASE len = 4 /\ c = U32(x)
    <3>1. U32(x).kind # "cut" /\ U32(x).width = 4 /\ U32(x).val = x
      BY CellsAre, Zenon
    <3> QED  BY <2>2, <3>1
  <2> QED  BY <1>1, <2>1, <2>2
<1> QED  BY <1>1, <1>2, <1>3, <1>4 DEF a, b, c

LEMMA SpeltWhole ==
  ASSUME NEW f, NEW i, NEW id, NEW len, NEW x, Spelt(f, i, id, len, x),
         i <= Len(f), i + 1 <= Len(f), i + 2 <= Len(f)
  PROVE  Well(f, i, id, len, x)
<1>1. /\ f[i].kind # "cut" /\ f[i].width = 4 /\ f[i].val = id /\ id # 0
      /\ f[i + 1].kind # "cut" /\ f[i + 1].width = 4 /\ f[i + 1].val = len
      /\ f[i + 2].kind # "cut" /\ f[i + 2].width = len /\ f[i + 2].val = x
  BY SpeltIs
<1>2. Whole(f, i, 4) /\ Whole(f, i + 1, 4) /\ Whole(f, i + 2, len)
  BY <1>1, Zenon DEF Whole
<1> QED  BY <1>1, <1>2, Zenon DEF Well

\* An entry as it is written, from the place h to the end of the file.
EntryLaid(f, h, s) ==
  /\ Len(f) = h + 9
  /\ Spelt(f, h, 1, 4, 0) /\ Spelt(f, h + 3, 3, 32, s) /\ Spelt(f, h + 6, 5, 64, s)
  /\ f[h + 9] = U32(0)

LEMMA EntryIsLaid ==
  ASSUME NEW n, NEW s, NEW f, NEW h \in Nat, Len(f) = h + 9, \A j \in 1..10 : f[h - 1 + j] = Entry1(s)[j]
  PROVE  EntryLaid(f, h, s)
<1>1. /\ f[h] = U32(1) /\ f[h + 1] = U32(4) /\ f[h + 2] = U32(0)
      /\ f[h + 3] = U32(3) /\ f[h + 4] = U32(32) /\ f[h + 5] = Bytes(s, 32)
      /\ f[h + 6] = U32(5) /\ f[h + 7] = U32(64) /\ f[h + 8] = Bytes(s, 64)
      /\ f[h + 9] = U32(0)
  <2> DEFINE g(j) == f[h - 1 + j]
  <2>1. /\ g(1) = U32(1) /\ g(2) = U32(4) /\ g(3) = U32(0)
        /\ g(4) = U32(3) /\ g(5) = U32(32) /\ g(6) = Bytes(s, 32)
        /\ g(7) = U32(5) /\ g(8) = U32(64) /\ g(9) = Bytes(s, 64)
        /\ g(10) = U32(0)
    <3>1. \A j \in 1..10 : g(j) = Entry1(s)[j]
      OBVIOUS
    <3>2. /\ 1 \in 1..10 /\ 2 \in 1..10 /\ 3 \in 1..10 /\ 4 \in 1..10 /\ 5 \in 1..10 /\ 6 \in 1..10
          /\ 7 \in 1..10 /\ 8 \in 1..10 /\ 9 \in 1..10 /\ 10 \in 1..10
      OBVIOUS
    <3> HIDE DEF g
    <3> QED  BY <3>1, <3>2, EntryCells
  <2>2. /\ h - 1 + 1 = h /\ h - 1 + 2 = h + 1 /\ h - 1 + 3 = h + 2 /\ h - 1 + 4 = h + 3
        /\ h - 1 + 5 = h + 4 /\ h - 1 + 6 = h + 5 /\ h - 1 + 7 = h + 6 /\ h - 1 + 8 = h + 7
        /\ h - 1 + 9 = h + 8 /\ h - 1 + 10 = h + 9
    OBVIOUS
  <2> QED  BY <2>1, <2>2
<1>2. /\ h + 3 + 1 = h + 4 /\ h + 3 + 2 = h + 5 /\ h + 6 + 1 = h + 7 /\ h + 6 + 2 = h + 8
      /\ 1 # 0 /\ 3 # 0 /\ 5 # 0
  OBVIOUS
<1>3. Spelt(f, h, 1, 4, 0)
  BY <1>1, <1>2 DEF Spelt
<1>4. Spelt(f, h + 3, 3, 32, s)
  <2>1. f[h + 3] = U32(3) /\ f[h + 3 + 1] = U32(32) /\ f[h + 3 + 2] = Bytes(s, 32)
    BY <1>1, <1>2
  <2> QED  BY <1>2, <2>1, Zenon DEF Spelt
<1>5. Spelt(f, h + 6, 5, 64, s)
  <2>1. f[h + 6] = U32(5) /\ f[h + 6 + 1] = U32(64) /\ f[h + 6 + 2] = Bytes(s, 64)
    BY <1>1, <1>2
  <2> QED  BY <1>2, <2>1, Zenon DEF Spelt
<1> QED  BY <1>1, <1>3, <1>4, <1>5, Zenon DEF EntryLaid

LEMMA EntryReadable ==
  ASSUME NEW s, NEW f, NEW h \in Nat, EntryLaid(f, h, s)
  PROVE  EntryAt(f, h, 0, s)
<1>1. /\ Len(f) = h + 9 /\ f[h + 9] = U32(0)
      /\ Spelt(f, h, 1, 4, 0) /\ Spelt(f, h + 3, 3, 32, s) /\ Spelt(f, h + 6, 5, 64, s)
  BY DEF EntryLaid
<1>2. /\ h <= Len(f) /\ h + 1 <= Len(f) /\ h + 2 <= Len(f)
      /\ h + 3 <= Len(f) /\ h + 3 + 1 <= Len(f) /\ h + 3 + 2 <= Len(f)
      /\ h + 6 <= Len(f) /\ h + 6 + 1 <= Len(f) /\ h + 6 + 2 <= Len(f) /\ h + 9 <= Len(f)
  BY <1>1
<1>3. Well(f, h, 1, 4, 0) /\ Well(f, h + 3, 3, 32, s) /\ Well(f, h + 6, 5, 64, s)
  BY <1>1, <1>2, SpeltWhole, Zenon
<1>4. Ends(f, h + 9)
  BY <1>1, <1>2, WholeU32, Zenon DEF Ends
<1> QED  BY <1>1, <1>3, <1>4, Zenon DEF EntryAt

\* A header as it is written, and the file from it on.
HeaderLaid(f, n, o) == IF n = NoName THEN f[o] = U32(0) ELSE Spelt(f, o, 1, 5, n) /\ f[o + 3] = U32(0)

FileLaid(f, n, s, o) ==
  /\ f \in Seq(Cells(n, s)) /\ f[1] = Magic /\ f[2] = U32(FormatVersion)
  /\ HeaderLaid(f, n, o) /\ EntryLaid(f, Behead(n, o), s)

LEMMA BeheadIs ==
  ASSUME NEW n, NEW o \in Nat
  PROVE  /\ Behead(n, o) \in Nat /\ Behead(n, o) >= o + 1
         /\ n # NoName => Behead(n, o) = o + 4
         /\ Behead(n, o + 3) = Behead(n, o) + 3
BY DEF Behead

LEMMA LaidReadable ==
  ASSUME NEW f, NEW n, NEW s, NEW o \in Nat, o >= 3, FileLaid(f, n, s, o)
  PROVE  Begins(f) /\ HeaderAt(f, n, o) /\ EntryAt(f, Behead(n, o), 0, s)
<1>1. /\ f[1] = Magic /\ f[2] = U32(FormatVersion)
      /\ HeaderLaid(f, n, o) /\ EntryLaid(f, Behead(n, o), s)
  BY DEF FileLaid
<1>2. Behead(n, o) \in Nat /\ Behead(n, o) >= o + 1 /\ (n # NoName => Behead(n, o) = o + 4)
  BY BeheadIs
<1>3. EntryAt(f, Behead(n, o), 0, s)
  BY <1>1, <1>2, EntryReadable, Zenon
<1>4. Len(f) = Behead(n, o) + 9
  BY <1>1 DEF EntryLaid
<1>5. 1 <= Len(f) /\ 2 <= Len(f) /\ o <= Len(f)
  BY <1>2, <1>4
<1>6. Begins(f)
  <2>1. Whole(f, 1, 12)
    BY <1>1, <1>5, CellsAre DEF Whole
  <2>2. Whole(f, 2, 4)
    BY <1>1, <1>5, WholeU32, Zenon
  <2> QED  BY <1>1, <2>1, <2>2 DEF Begins
<1>7. HeaderAt(f, n, o)
  <2>1. CASE n = NoName
    <3>1. f[o] = U32(0)
      BY <1>1, <2>1 DEF HeaderLaid
    <3>2. Ends(f, o)
      BY <1>5, <3>1, WholeU32, Zenon DEF Ends
    <3> QED  BY <2>1, <3>2 DEF HeaderAt
  <2>2. CASE n # NoName
    <3>1. Spelt(f, o, 1, 5, n) /\ f[o + 3] = U32(0)
      BY <1>1, <2>2 DEF HeaderLaid
    <3>2. o + 1 <= Len(f) /\ o + 2 <= Len(f) /\ o + 3 <= Len(f)
      BY <1>2, <1>4, <2>2
    <3>3. Well(f, o, 1, 5, n)
      BY <1>5, <3>1, <3>2, SpeltWhole, Zenon
    <3>4. Ends(f, o + 3)
      BY <3>1, <3>2, WholeU32, Zenon DEF Ends
    <3> QED  BY <2>2, <3>3, <3>4 DEF HeaderAt
  <2> QED  BY <2>1, <2>2
<1> QED  BY <1>3, <1>6, <1>7

LEMMA NewFileLaid ==
  ASSUME NEW n, NEW s
  PROVE  FileLaid(Store(NewKey(n, s)), n, s, 3)
<1> DEFINE f == Store(NewKey(n, s))  h == Behead(n, 3)
<1>1. Layout(f, n, s, h)
  BY NewFile
<1>2. h \in Nat /\ (n # NoName => h = 7) /\ (n = NoName => h = 4)
  BY DEF Behead
<1> HIDE DEF f, h
<1>3. /\ f \in Seq(Cells(n, s)) /\ Len(f) = h + 9
      /\ f[1] = Magic /\ f[2] = U32(FormatVersion)
      /\ n # NoName => f[3] = U32(1) /\ f[4] = U32(5) /\ f[5] = Bytes(n, 5)
      /\ f[h - 1] = U32(0)
      /\ \A j \in 1..10 : f[h - 1 + j] = Entry1(s)[j]
  BY <1>1 DEF Layout
<1>4. EntryLaid(f, h, s)
  BY <1>2, <1>3, EntryIsLaid
<1>5. HeaderLaid(f, n, 3)
  <2>1. CASE n = NoName
    <3>1. f[3] = U32(0)
      BY <1>2, <1>3, <2>1
    <3> QED  BY <2>1, <3>1 DEF HeaderLaid
  <2>2. CASE n # NoName
    <3>1. f[6] = U32(0) /\ 3 + 3 = 6 /\ 3 + 1 = 4 /\ 3 + 2 = 5 /\ 1 # 0
      BY <1>2, <1>3, <2>2
    <3>2. Spelt(f, 3, 1, 5, n)
      BY <1>3, <2>2, <3>1 DEF Spelt
    <3> QED  BY <2>2, <3>1, <3>2 DEF HeaderLaid
  <2> QED  BY <2>1, <2>2
<1>6. FileLaid(f, n, s, 3)
  BY <1>3, <1>4, <1>5, Zenon DEF FileLaid, h
<1> QED  BY <1>6 DEF f

\* A key file from before 0.4.
LEMMA OldFileLoads ==
  ASSUME NEW s
  PROVE  LoadLegacy(OldFile(s)) = LoadedKey(NoName, 0, s)
<1> DEFINE f == OldFile(s)
<1>1. Len(f) = 2 /\ f[1] = Bytes(s, 32) /\ f[2] = Bytes(s, 64)
  BY DEF OldFile
<1> HIDE DEF f
<1>2. 1 <= Len(f) /\ 2 <= Len(f)
  BY <1>1
<1>3. Whole(f, 1, 32) /\ f[1].val = s
  BY <1>1, <1>2, CellsAre DEF Whole
<1>4. Whole(f, 2, 64) /\ f[2].val = s
  BY <1>1, <1>2, CellsAre DEF Whole
<1>5. LoadLegacy(f) = [error |-> "none", key |-> KeyOf(NoName, Under(NoEntries, 0, [aes |-> s, hmac |-> s]))]
  BY <1>1, <1>3, <1>4 DEF LoadLegacy
<1> QED  BY <1>5 DEF f, LoadedKey, OneEntry

\* What git-crypt has written it reads, and writes the same way again.
LEMMA NewFileLoads ==
  ASSUME NEW n, NEW s
  PROVE  Load(Store(NewKey(n, s))) = LoadedKey(n, 0, s)
<1> DEFINE f == Store(NewKey(n, s))  h == Behead(n, 3)
<1>1. FileLaid(f, n, s, 3)
  BY NewFileLaid
<1> HIDE DEF f
<1>2. 3 \in Nat /\ 3 >= 3
  OBVIOUS
<1>3. Begins(f) /\ HeaderAt(f, n, 3) /\ EntryAt(f, h, 0, s)
  BY <1>1, <1>2, LaidReadable, Zenon
<1>4. f \in Seq(Cells(n, s)) /\ h \in Nat
  BY <1>1, BeheadIs DEF FileLaid
<1>5. Yields(f, 3, Header, h, Named(n))
  BY <1>2, <1>3, <1>4, HeaderFields
<1> HIDE DEF h
<1>6. Load(f) = LoadedKey(n, 0, s)
  BY <1>3, <1>4, <1>5, LoadsWhole
<1> QED  BY <1>6 DEF f

LEMMA WrittenIs ==
  ASSUME NEW n, NEW s
  PROVE  Written(n, s) = {Store(NewKey(n, s))}
<1>1. StoredAgain(Load(Store(NewKey(n, s)))) = Store(NewKey(n, s))
  <2>1. LoadedKey(n, 0, s).key = NewKey(n, s)
    BY NewKeyIs DEF LoadedKey
  <2> QED  BY <2>1, NewFileLoads, Zenon DEF StoredAgain
<1>2. Migrated(OldFile(s)) = Store(NewKey(NoName, s))
  <2>1. LoadedKey(NoName, 0, s).key = NewKey(NoName, s)
    BY NewKeyIs DEF LoadedKey
  <2> QED  BY <2>1, OldFileLoads, Zenon DEF Migrated, StoredAgain
<1> QED  BY <1>1, <1>2 DEF Written

\* A file to which a later version has added a field.
Wider(g, f, id) ==
  /\ Len(g) = Len(f) + 3 /\ g[1] = f[1] /\ g[2] = f[2]
  /\ g[3] = U32(id) /\ g[4] = U32(8) /\ g[5] = Bytes(Zero, 8)
  /\ \A i \in 3..Len(f) : g[i + 3] = f[i]

LEMMA TwoOrMore == \A l \in Nat : l >= 2 => l = 2 \/ l >= 3
OBVIOUS

LEMMA AddedIs ==
  ASSUME NEW C, NEW f \in Seq(C), Len(f) >= 2, NEW id, U32(id) \in C, U32(8) \in C, Bytes(Zero, 8) \in C
  PROVE  Added(f, id) \in Seq(C) /\ Wider(Added(f, id), f, id)
<1> DEFINE a == SubSeq(f, 1, 2)  t == <<U32(id), U32(8), Bytes(Zero, 8)>>  z == SubSeq(f, 3, Len(f))
           b == a \o t  g == b \o z
<1>1. a \in Seq(C) /\ Len(a) = 2 /\ a[1] = f[1] /\ a[2] = f[2]
  OBVIOUS
<1>2. t \in Seq(C) /\ Len(t) = 3 /\ t[1] = U32(id) /\ t[2] = U32(8) /\ t[3] = Bytes(Zero, 8)
  OBVIOUS
<1>3. z \in Seq(C) /\ Len(z) = Len(f) - 2 /\ \A i \in 1..(Len(f) - 2) : z[i] = f[i + 2]
  <2>1. z \in Seq(C) /\ Len(z) = Len(f) - 2
    <3>1. Len(f) \in Nat /\ \A i \in 3..Len(f) : f[i] \in C
      OBVIOUS
    <3>2. Len(z) = Len(f) - 2
      <4>1. CASE Len(f) = 2
        BY <4>1
      <4>2. CASE Len(f) >= 3
        BY <4>2
      <4>3. Len(f) = 2 \/ Len(f) >= 3
        <5>1. Len(f) \in Nat
          OBVIOUS
        <5> QED  BY <5>1, TwoOrMore, Zenon
      <4> QED  BY <4>1, <4>2, <4>3, Zenon
    <3>3. z \in Seq(C)
      BY <3>1
    <3> QED  BY <3>2, <3>3
  <2>2. \A i \in 1..(Len(f) - 2) : z[i] = f[3 + i - 1] /\ 3 + i - 1 = i + 2
    OBVIOUS
  <2> HIDE DEF z
  <2> QED  BY <2>1, <2>2
<1>4. Added(f, id) = g
  BY DEF Added
<1> HIDE DEF a, t, z
<1>5. /\ b \in Seq(C) /\ Len(b) = Len(a) + Len(t)
      /\ \A i \in 1..Len(a) : b[i] = a[i]
      /\ \A i \in 1..Len(t) : b[Len(a) + i] = t[i]
  <2>1. b \in Seq(C) /\ Joins(a, t)
    BY <1>1, <1>2, ConcatIs, Zenon
  <2> QED  BY <2>1, Zenon DEF Joins
<1> HIDE DEF b
<1>6. /\ g \in Seq(C) /\ Len(g) = Len(b) + Len(z)
      /\ \A i \in 1..Len(b) : g[i] = b[i]
      /\ \A i \in 1..Len(z) : g[Len(b) + i] = z[i]
  <2>1. g \in Seq(C) /\ Joins(b, z)
    BY <1>3, <1>5, ConcatIs, Zenon
  <2> QED  BY <2>1, Zenon DEF Joins
<1> HIDE DEF g
<1>7. Len(f) \in Nat /\ Len(b) = 5 /\ Len(g) = Len(f) + 3
  BY <1>1, <1>2, <1>3, <1>5, <1>6
<1>8. g[1] = f[1] /\ g[2] = f[2]
  <2>1. g[1] = b[1] /\ g[2] = b[2]
    BY <1>6, <1>7
  <2>2. b[1] = a[1] /\ b[2] = a[2]
    BY <1>1, <1>5
  <2> QED  BY <1>1, <2>1, <2>2
<1>9. g[3] = U32(id) /\ g[4] = U32(8) /\ g[5] = Bytes(Zero, 8)
  <2>1. b[2 + 1] = t[1] /\ b[2 + 2] = t[2] /\ b[2 + 3] = t[3]
    BY <1>1, <1>2, <1>5
  <2>2. g[3] = b[3] /\ g[4] = b[4] /\ g[5] = b[5]
    BY <1>6, <1>7
  <2>3. 2 + 1 = 3 /\ 2 + 2 = 4 /\ 2 + 3 = 5
    OBVIOUS
  <2> QED  BY <1>2, <2>1, <2>2, <2>3
<1>10. \A i \in 3..Len(f) : g[i + 3] = f[i]
  <2> TAKE i \in 3..Len(f)
  <2>1. i - 2 \in 1..(Len(f) - 2) /\ 5 + (i - 2) = i + 3 /\ (i - 2) + 2 = i
    BY <1>7
  <2>2. g[5 + (i - 2)] = z[i - 2]
    BY <1>3, <1>6, <1>7, <2>1
  <2>3. z[i - 2] = f[(i - 2) + 2]
    BY <1>3, <2>1
  <2> QED  BY <2>1, <2>2, <2>3
<1> QED  BY <1>4, <1>6, <1>7, <1>8, <1>9, <1>10, Zenon DEF Wider

LEMMA WiderSpelt ==
  ASSUME NEW g, NEW f, NEW k, Len(f) \in Nat, Wider(g, f, k), NEW i \in Nat, i >= 3, i + 2 <= Len(f),
         NEW id, NEW len, NEW x, Spelt(f, i, id, len, x)
  PROVE  Spelt(g, i + 3, id, len, x)
<1>1. /\ i \in 3..Len(f) /\ i + 1 \in 3..Len(f) /\ i + 2 \in 3..Len(f)
      /\ i + 1 + 3 = i + 3 + 1 /\ i + 2 + 3 = i + 3 + 2
  OBVIOUS
<1>2. \A j \in 3..Len(f) : g[j + 3] = f[j]
  BY DEF Wider
<1>3. g[i + 3] = f[i]
  BY <1>1, <1>2
<1>4. g[i + 3 + 1] = f[i + 1]
  <2>1. g[i + 1 + 3] = f[i + 1]
    BY <1>1, <1>2, Zenon
  <2> QED  BY <1>1, <2>1
<1>5. g[i + 3 + 2] = f[i + 2]
  <2>1. g[i + 2 + 3] = f[i + 2]
    BY <1>1, <1>2, Zenon
  <2> QED  BY <1>1, <2>1
<1>6. /\ f[i] = U32(id) /\ id # 0 /\ f[i + 1] = U32(len)
      /\ f[i + 2] = Bytes(x, len) \/ (len = 4 /\ f[i + 2] = U32(x))
  BY DEF Spelt
<1>7. /\ g[i + 3] = U32(id) /\ id # 0 /\ g[i + 3 + 1] = U32(len)
      /\ g[i + 3 + 2] = Bytes(x, len) \/ (len = 4 /\ g[i + 3 + 2] = U32(x))
  BY <1>3, <1>4, <1>5, <1>6, Zenon
<1> QED  BY <1>7, Zenon DEF Spelt

LEMMA WiderLaid ==
  ASSUME NEW n, NEW s, NEW f, NEW g, NEW k, FileLaid(f, n, s, 3), Wider(g, f, k), g \in Seq(Cells(n, s))
  PROVE  FileLaid(g, n, s, 6)
<1> DEFINE h == Behead(n, 3)
<1>1. /\ f \in Seq(Cells(n, s)) /\ f[1] = Magic /\ f[2] = U32(FormatVersion)
      /\ HeaderLaid(f, n, 3) /\ EntryLaid(f, h, s)
  BY DEF FileLaid
<1>2. h \in Nat /\ h >= 4 /\ (n # NoName => h = 7) /\ Behead(n, 6) = h + 3
  <2>1. 3 \in Nat /\ 3 + 1 = 4 /\ 3 + 4 = 7 /\ 3 + 3 = 6
    OBVIOUS
  <2>2. h \in Nat /\ h >= 3 + 1 /\ (n # NoName => h = 3 + 4) /\ Behead(n, 3 + 3) = h + 3
    BY <2>1, BeheadIs
  <2> QED  BY <2>1, <2>2
<1> HIDE DEF h
<1>3. /\ Len(f) = h + 9 /\ f[h + 9] = U32(0)
      /\ Spelt(f, h, 1, 4, 0) /\ Spelt(f, h + 3, 3, 32, s) /\ Spelt(f, h + 6, 5, 64, s)
  BY <1>1 DEF EntryLaid
<1>4. /\ Len(f) \in Nat /\ h + 3 \in Nat /\ h + 6 \in Nat /\ h >= 3 /\ h + 3 >= 3 /\ h + 6 >= 3
      /\ h + 2 <= Len(f) /\ h + 3 + 2 <= Len(f) /\ h + 6 + 2 <= Len(f) /\ h + 9 \in 3..Len(f)
      /\ h + 6 + 3 = h + 3 + 6 /\ h + 9 + 3 = h + 3 + 9
  BY <1>2, <1>3
<1>5. Len(g) = Len(f) + 3 /\ g[1] = f[1] /\ g[2] = f[2] /\ \A i \in 3..Len(f) : g[i + 3] = f[i]
  BY DEF Wider
<1>6. Spelt(g, h + 3, 1, 4, 0)
  BY <1>2, <1>3, <1>4, WiderSpelt
<1>7. Spelt(g, h + 3 + 3, 3, 32, s)
  BY <1>3, <1>4, WiderSpelt
<1>8. Spelt(g, h + 3 + 6, 5, 64, s)
  <2>1. Spelt(g, h + 6 + 3, 5, 64, s)
    BY <1>3, <1>4, WiderSpelt
  <2> QED  BY <1>4, <2>1
<1>9. g[h + 3 + 9] = U32(0)
  <2>1. g[h + 9 + 3] = f[h + 9]
    BY <1>4, <1>5, Zenon
  <2> QED  BY <1>3, <1>4, <2>1
<1>10. Len(g) = h + 3 + 9
  BY <1>2, <1>3, <1>5
<1>11. EntryLaid(g, Behead(n, 6), s)
  <2>1. EntryLaid(g, h + 3, s)
    BY <1>6, <1>7, <1>8, <1>9, <1>10, Zenon DEF EntryLaid
  <2> QED  BY <1>2, <2>1
<1>12. HeaderLaid(g, n, 6)
  <2>1. CASE n = NoName
    <3>1. f[3] = U32(0)
      BY <1>1, <2>1 DEF HeaderLaid
    <3>2. 3 \in 3..Len(f) /\ 3 + 3 = 6
      BY <1>2, <1>3
    <3>3. g[6] = f[3]
      BY <1>5, <3>2
    <3> QED  BY <2>1, <3>1, <3>3 DEF HeaderLaid
  <2>2. CASE n # NoName
    <3>1. Spelt(f, 3, 1, 5, n) /\ f[3 + 3] = U32(0)
      BY <1>1, <2>2 DEF HeaderLaid
    <3>2. 3 \in Nat /\ 3 >= 3 /\ 3 + 2 <= Len(f) /\ 6 \in 3..Len(f) /\ 3 + 3 = 6 /\ 6 + 3 = 9
      BY <1>2, <1>3
    <3>3. g[6 + 3] = U32(0)
      BY <1>5, <3>1, <3>2
    <3>4. Spelt(g, 3 + 3, 1, 5, n)
      BY <1>4, <3>1, <3>2, WiderSpelt
    <3>5. Spelt(g, 6, 1, 5, n)
      BY <3>2, <3>4
    <3> QED  BY <2>2, <3>3, <3>5 DEF HeaderLaid
  <2> QED  BY <2>1, <2>2
<1> QED  BY <1>1, <1>5, <1>11, <1>12, Zenon DEF FileLaid

LEMMA AddedLaid ==
  ASSUME NEW n, NEW s, NEW id \in {2, 7}
  PROVE  /\ FileLaid(Added(Store(NewKey(n, s)), id), n, s, 6)
         /\ Spelt(Added(Store(NewKey(n, s)), id), 3, id, 8, Zero)
<1> DEFINE f == Store(NewKey(n, s))  C == Cells(n, s)
<1>1. FileLaid(f, n, s, 3)
  BY NewFileLaid
<1>2. f \in Seq(C)
  BY <1>1 DEF FileLaid
<1>3. Len(f) >= 2
  <2>1. Len(f) = Behead(n, 3) + 9
    BY <1>1 DEF FileLaid, EntryLaid
  <2>2. Behead(n, 3) \in Nat
    BY BeheadIs
  <2> QED  BY <2>1, <2>2
<1>4. U32(id) \in C /\ U32(8) \in C /\ Bytes(Zero, 8) \in C
  BY DEF Cells
<1> HIDE DEF f, C
<1> DEFINE g == Added(f, id)
<1>5. g \in Seq(C) /\ Wider(g, f, id)
  BY <1>2, <1>3, <1>4, AddedIs
<1> HIDE DEF g
<1>6. FileLaid(g, n, s, 6)
  BY <1>1, <1>5, WiderLaid DEF C
<1>7. Spelt(g, 3, id, 8, Zero)
  <2>1. g[3] = U32(id) /\ g[4] = U32(8) /\ g[5] = Bytes(Zero, 8) /\ id # 0 /\ 3 + 1 = 4 /\ 3 + 2 = 5
    BY <1>5 DEF Wider
  <2> QED  BY <2>1 DEF Spelt
<1> QED  BY <1>6, <1>7 DEF g, f

LEMMA AddedWell ==
  ASSUME NEW n, NEW s, NEW g, NEW id, FileLaid(g, n, s, 6), Spelt(g, 3, id, 8, Zero)
  PROVE  /\ Begins(g) /\ HeaderAt(g, n, 6) /\ EntryAt(g, Behead(n, 6), 0, s) /\ Well(g, 3, id, 8, Zero)
         /\ g \in Seq(Cells(n, s)) /\ Behead(n, 6) \in Nat
<1>1. 6 \in Nat /\ 6 >= 3
  OBVIOUS
<1>2. Begins(g) /\ HeaderAt(g, n, 6) /\ EntryAt(g, Behead(n, 6), 0, s)
  BY <1>1, LaidReadable, Zenon
<1>3. g \in Seq(Cells(n, s)) /\ Len(g) = Behead(n, 6) + 9
  BY DEF FileLaid, EntryLaid
<1>4. Behead(n, 6) \in Nat /\ Behead(n, 6) >= 6 + 1
  BY <1>1, BeheadIs
<1>5. 3 <= Len(g) /\ 3 + 1 <= Len(g) /\ 3 + 2 <= Len(g)
  BY <1>3, <1>4
<1>6. Well(g, 3, id, 8, Zero)
  BY <1>5, SpeltWhole, Zenon
<1> QED  BY <1>2, <1>3, <1>4, <1>6, Zenon

\* A field whose number is even is passed over, one whose number is odd is not.
LEMMA AddedLoads ==
  ASSUME NEW n, NEW s
  PROVE  Load(Added(Store(NewKey(n, s)), 2)) = LoadedKey(n, 0, s)
<1> DEFINE g == Added(Store(NewKey(n, s)), 2)  h == Behead(n, 6)
<1>1. FileLaid(g, n, s, 6) /\ Spelt(g, 3, 2, 8, Zero)
  BY AddedLaid
<1> HIDE DEF g
<1>2. /\ Begins(g) /\ HeaderAt(g, n, 6) /\ EntryAt(g, h, 0, s) /\ Well(g, 3, 2, 8, Zero)
      /\ g \in Seq(Cells(n, s)) /\ h \in Nat
  BY <1>1, AddedWell
<1>3. 3 \in Nat /\ 6 \in Nat /\ 3 + 3 = 6
  OBVIOUS
<1>4. Yields(g, 6, Header, h, Named(n))
  BY <1>2, <1>3, HeaderFields
<1>5. Fields(g, 3, Header) = Fields(g, 6, Header)
  <2>1. Fields(g, 3, Header) = Field(g, 3, Header, Fields(g, 3 + 3, Header))
    BY <1>2, <1>3, FieldsAre
  <2>2. 2 \notin DOMAIN Header /\ ~(2 % 2 = 1) /\ ~(8 > MaxFieldLen)
    BY Known DEF MaxFieldLen
  <2>3. \A rest : Field(g, 3, Header, rest) = rest
    BY <1>2, <2>2, FieldSkipped, Zenon
  <2> QED  BY <1>3, <2>1, <2>3
<1>6. Yields(g, 3, Header, h, Named(n))
  BY <1>4, <1>5 DEF Yields
<1> HIDE DEF h
<1>7. Load(g) = LoadedKey(n, 0, s)
  BY <1>2, <1>6, LoadsWhole
<1> QED  BY <1>7 DEF g

LEMMA AddedFails ==
  ASSUME NEW n, NEW s
  PROVE  Load(Added(Store(NewKey(n, s)), 7)).error # "none"
<1> DEFINE g == Added(Store(NewKey(n, s)), 7)
<1>1. FileLaid(g, n, s, 6) /\ Spelt(g, 3, 7, 8, Zero)
  BY AddedLaid
<1> HIDE DEF g
<1>2. Begins(g) /\ Well(g, 3, 7, 8, Zero) /\ g \in Seq(Cells(n, s))
  BY <1>1, AddedWell
<1>3. Fields(g, 3, Header).error # "none"
  <2>1. Fields(g, 3, Header) = Field(g, 3, Header, Fields(g, 3 + 3, Header))
    BY <1>2, FieldsAre
  <2>2. 7 \notin DOMAIN Header /\ 7 % 2 = 1
    BY Known
  <2>3. \A rest : Field(g, 3, Header, rest) = Fails("incompatible")
    BY <1>2, <2>2, FieldCritical, Zenon
  <2> QED  BY <2>1, <2>3, FailsIs
<1>4. Load(g) = Fields(g, 3, Header)
  BY <1>2, <1>3, LoadBegins
<1> QED  BY <1>3, <1>4 DEF g

LEMMA LaterFails ==
  ASSUME NEW n, NEW s
  PROVE  Load([Store(NewKey(n, s)) EXCEPT ![2] = U32(3)]).error # "none"
<1> DEFINE f == Store(NewKey(n, s))  g == [f EXCEPT ![2] = U32(3)]
<1>1. FileLaid(f, n, s, 3)
  BY NewFileLaid
<1>2. f \in Seq(Cells(n, s)) /\ Len(f) = Behead(n, 3) + 9 /\ Behead(n, 3) \in Nat
  BY <1>1, BeheadIs DEF FileLaid, EntryLaid
<1> HIDE DEF f
<1>3. g[2] = U32(3)
  <2>1. 2 \in DOMAIN f
    BY <1>2
  <2> QED  BY <2>1
<1> HIDE DEF g
<1>4. ~Begins(g)
  <2>1. U32(3) # U32(FormatVersion)
    <3>1. U32(3).val = 3 /\ U32(FormatVersion).val = 2
      BY CellsAre, Zenon DEF FormatVersion
    <3> QED  BY <3>1
  <2> QED  BY <1>3, <2>1 DEF Begins
<1> QED  BY <1>4, LoadElse DEF g, f

\* A file that was not written to its end: the first j cells are there, and perhaps a
\* part of the next.
CutAt(g, f, j) ==
  /\ j \in 0..(Len(f) - 1)
  /\ Len(g) = j \/ (Len(g) = j + 1 /\ g[j + 1].kind = "cut")
  /\ \A i \in 1..j : g[i] = f[i]

LEMMA CutsAre ==
  ASSUME NEW C, NEW f \in Seq(C), NEW g \in Cuts(f)
  PROVE  \E D, j : g \in Seq(D) /\ CutAt(g, f, j)
<1>1. PICK j \in 0..(Len(f) - 1) :
        g \in {SubSeq(f, 1, j)} \cup {Append(SubSeq(f, 1, j), Cell("cut", 0, left)) :
                                       left \in 1..(f[j + 1].width - 1)}
  BY DEF Cuts
<1> DEFINE a == SubSeq(f, 1, j)
<1>2. j \in Nat /\ j <= Len(f) /\ Len(f) \in Nat
  OBVIOUS
<1>3. a \in Seq(C) /\ Len(a) = j /\ \A i \in 1..j : a[i] = f[i]
  BY <1>2
<1> HIDE DEF a
<1>4. CASE g = a
  <2>1. g \in Seq(C) /\ CutAt(g, f, j)
    BY <1>3, <1>4 DEF CutAt
  <2> QED  BY <2>1
<1>5. CASE g \in {Append(a, Cell("cut", 0, left)) : left \in 1..(f[j + 1].width - 1)}
  <2>1. PICK left : g = Append(a, Cell("cut", 0, left))
    BY <1>5
  <2> DEFINE c == Cell("cut", 0, left)  D == C \cup {c}
  <2>2. c.kind = "cut"
    BY CellsAre, Zenon
  <2> HIDE DEF c
  <2>3. g \in Seq(D) /\ Len(g) = j + 1 /\ g[j + 1] = c /\ \A i \in 1..j : g[i] = f[i]
    BY <1>2, <1>3, <2>1 DEF c
  <2>4. CutAt(g, f, j)
    BY <2>2, <2>3 DEF CutAt
  <2> QED  BY <2>3, <2>4
<1> QED  BY <1>1, <1>4, <1>5 DEF a

LEMMA CutIs ==
  ASSUME NEW g, NEW f, NEW j, Len(f) \in Nat, CutAt(g, f, j)
  PROVE  /\ j \in Nat /\ j < Len(f) /\ Len(g) \in Nat /\ Len(g) >= j /\ Len(g) <= j + 1
         /\ \A i \in Nat : i >= 1 /\ i <= j => g[i] = f[i] /\ i <= Len(g)
         /\ \A i \in Nat : i > j => \A w : ~Whole(g, i, w)
<1>1. j \in Nat /\ j < Len(f) /\ Len(g) \in Nat /\ Len(g) >= j /\ Len(g) <= j + 1
  BY DEF CutAt
<1>2. \A i \in Nat : i >= 1 /\ i <= j => g[i] = f[i] /\ i <= Len(g)
  BY <1>1 DEF CutAt
<1>3. ASSUME NEW i \in Nat, i > j, NEW w, Whole(g, i, w) PROVE FALSE
  <2>1. i <= Len(g) /\ g[i].kind # "cut"
    BY <1>3 DEF Whole
  <2>2. i = j + 1 /\ Len(g) = j + 1
    BY <1>1, <1>3, <2>1
  <2>3. g[j + 1].kind = "cut"
    BY <1>1, <2>2 DEF CutAt
  <2> QED  BY <2>1, <2>2, <2>3
<1> QED  BY <1>1, <1>2, <1>3

LEMMA SpeltKept ==
  ASSUME NEW g, NEW f, NEW j, Len(f) \in Nat, CutAt(g, f, j), NEW i \in Nat, i >= 1, i + 2 <= j,
         NEW id, NEW len, NEW x, Spelt(f, i, id, len, x)
  PROVE  Well(g, i, id, len, x)
<1>1. j \in Nat /\ \A k \in Nat : k >= 1 /\ k <= j => g[k] = f[k] /\ k <= Len(g)
  BY CutIs
<1>2. /\ i + 1 \in Nat /\ i + 2 \in Nat /\ i <= j /\ i + 1 <= j /\ i + 1 >= 1 /\ i + 2 >= 1
  BY <1>1
<1>3. /\ g[i] = f[i] /\ g[i + 1] = f[i + 1] /\ g[i + 2] = f[i + 2]
      /\ i <= Len(g) /\ i + 1 <= Len(g) /\ i + 2 <= Len(g)
  BY <1>1, <1>2, Zenon
<1>4. Spelt(g, i, id, len, x)
  BY <1>3, Zenon DEF Spelt
<1> QED  BY <1>3, <1>4, SpeltWhole, Zenon

LEMMA SpeltBroken ==
  ASSUME NEW g, NEW f, NEW j, Len(f) \in Nat, CutAt(g, f, j), NEW i \in Nat, i >= 1, i + 2 > j,
         NEW id, NEW len, NEW x, Spelt(f, i, id, len, x)
  PROVE  Broken(g, i, id, len)
<1>1. /\ j \in Nat /\ \A k \in Nat : k >= 1 /\ k <= j => g[k] = f[k] /\ k <= Len(g)
      /\ \A k \in Nat : k > j => \A w : ~Whole(g, k, w)
  BY CutIs
<1>2. /\ i + 1 \in Nat /\ i + 2 \in Nat /\ i + 1 >= 1 /\ i + 2 >= 1
      /\ i > j \/ (i <= j /\ i + 1 > j) \/ (i <= j /\ i + 1 <= j)
  BY <1>1
<1>3. /\ f[i].kind # "cut" /\ f[i].width = 4 /\ f[i].val = id /\ id # 0
      /\ f[i + 1].kind # "cut" /\ f[i + 1].width = 4 /\ f[i + 1].val = len
  BY SpeltIs
<1>4. i <= j => Whole(g, i, 4) /\ g[i].val = id
  <2> HAVE i <= j
  <2>1. g[i] = f[i] /\ i <= Len(g)
    BY <1>1
  <2> QED  BY <1>3, <2>1 DEF Whole
<1>5. i + 1 <= j => Whole(g, i + 1, 4) /\ g[i + 1].val = len
  <2> HAVE i + 1 <= j
  <2>1. g[i + 1] = f[i + 1] /\ i + 1 <= Len(g)
    BY <1>1, <1>2, Zenon
  <2> QED  BY <1>3, <2>1 DEF Whole
<1>6. CASE i > j
  <2>1. ~Whole(g, i, 4)
    BY <1>1, <1>6
  <2> QED  BY <2>1 DEF Broken
<1>7. CASE i <= j /\ i + 1 > j
  <2>1. ~Whole(g, i + 1, 4)
    BY <1>1, <1>2, <1>7
  <2> QED  BY <1>3, <1>4, <1>7, <2>1 DEF Broken
<1>8. CASE i <= j /\ i + 1 <= j
  <2>1. ~Whole(g, i + 2, len)
    BY <1>1, <1>2
  <2> QED  BY <1>3, <1>4, <1>5, <1>8, <2>1, Zenon DEF Broken
<1> QED  BY <1>2, <1>6, <1>7, <1>8

LEMMA EndKept ==
  ASSUME NEW g, NEW f, NEW j, Len(f) \in Nat, CutAt(g, f, j), NEW i \in Nat, i >= 1, i <= j, f[i] = U32(0)
  PROVE  Ends(g, i)
<1>1. g[i] = f[i] /\ i <= Len(g)
  BY CutIs
<1>2. g[i] = U32(0)
  BY <1>1
<1> QED  BY <1>1, <1>2, WholeU32, Zenon DEF Ends

LEMMA EndBroken ==
  ASSUME NEW g, NEW f, NEW j, Len(f) \in Nat, CutAt(g, f, j), NEW i \in Nat, i > j
  PROVE  \A id, len : Broken(g, i, id, len)
<1>1. ~Whole(g, i, 4)
  BY CutIs
<1> QED  BY <1>1 DEF Broken

\* An entry that is cut is not read.
LEMMA EntryCut ==
  ASSUME NEW s, NEW f, NEW h \in Nat, h >= 1, EntryLaid(f, h, s),
         NEW D, NEW g \in Seq(D), NEW j, CutAt(g, f, j)
  PROVE  Fields(g, h, Entry).error # "none"
<1> DEFINE Fail(i) == Fields(g, i, Entry).error # "none"
<1>1. /\ Len(f) = h + 9 /\ f[h + 9] = U32(0)
      /\ Spelt(f, h, 1, 4, 0) /\ Spelt(f, h + 3, 3, 32, s) /\ Spelt(f, h + 6, 5, 64, s)
  BY DEF EntryLaid
<1>2. Len(f) \in Nat /\ j \in Nat /\ j < h + 9
  <2>1. Len(f) \in Nat
    BY <1>1
  <2> QED  BY <1>1, <2>1, CutIs
<1>3. /\ 1 \in DOMAIN Entry /\ 3 \in DOMAIN Entry /\ 5 \in DOMAIN Entry
      /\ 4 \in Entry[1] /\ 32 \in Entry[3] /\ 64 \in Entry[5]
  BY Known
<1>4. /\ h + 3 \in Nat /\ h + 6 \in Nat /\ h + 9 \in Nat /\ h + 3 >= 1 /\ h + 6 >= 1 /\ h + 9 > j
      /\ h + 3 + 3 = h + 6 /\ h + 6 + 3 = h + 9
      /\ h + 2 <= j \/ h + 2 > j
      /\ h + 3 + 2 <= j \/ h + 3 + 2 > j
      /\ h + 6 + 2 <= j \/ h + 6 + 2 > j
  BY <1>2
<1>5. Fail(h + 9)
  <2>1. Broken(g, h + 9, 1, 4)
    BY <1>2, <1>4, EndBroken
  <2> QED  BY <1>3, <1>4, <2>1, FieldsBreak
<1>6. Fail(h + 6)
  <2>1. CASE h + 6 + 2 > j
    <3>1. Broken(g, h + 6, 5, 64)
      BY <1>1, <1>2, <1>4, <2>1, SpeltBroken
    <3> QED  BY <1>3, <1>4, <3>1, FieldsBreak
  <2>2. CASE h + 6 + 2 <= j
    <3>1. Well(g, h + 6, 5, 64, s)
      BY <1>1, <1>2, <1>4, <2>2, SpeltKept
    <3>2. Fields(g, h + 6 + 3, Entry).error # "none"
      BY <1>4, <1>5
    <3> QED  BY <1>3, <1>4, <3>1, <3>2, FieldsFail
  <2> QED  BY <1>4, <2>1, <2>2
<1>7. Fail(h + 3)
  <2>1. CASE h + 3 + 2 > j
    <3>1. Broken(g, h + 3, 3, 32)
      BY <1>1, <1>2, <1>4, <2>1, SpeltBroken
    <3> QED  BY <1>3, <1>4, <3>1, FieldsBreak
  <2>2. CASE h + 3 + 2 <= j
    <3>1. Well(g, h + 3, 3, 32, s)
      BY <1>1, <1>2, <1>4, <2>2, SpeltKept
    <3>2. Fields(g, h + 3 + 3, Entry).error # "none"
      BY <1>4, <1>6
    <3> QED  BY <1>3, <1>4, <3>1, <3>2, FieldsFail
  <2> QED  BY <1>4, <2>1, <2>2
<1>8. Fail(h)
  <2>1. CASE h + 2 > j
    <3>1. Broken(g, h, 1, 4)
      BY <1>1, <1>2, <1>4, <2>1, SpeltBroken
    <3> QED  BY <1>3, <3>1, FieldsBreak
  <2>2. CASE h + 2 <= j
    <3>1. Well(g, h, 1, 4, 0)
      BY <1>1, <1>2, <1>4, <2>2, SpeltKept
    <3> QED  BY <1>3, <1>7, <3>1, FieldsFail
  <2> QED  BY <1>4, <2>1, <2>2
<1> QED  BY <1>8

\* Nor is a header, unless it is whole.
LEMMA HeaderCut ==
  ASSUME NEW n, NEW s, NEW f, FileLaid(f, n, s, 3),
         NEW D, NEW g \in Seq(D), NEW j, CutAt(g, f, j)
  PROVE  \/ Fields(g, 3, Header).error # "none"
         \/ HeaderAt(g, n, 3)
<1>1. HeaderLaid(f, n, 3) /\ f \in Seq(Cells(n, s))
  BY DEF FileLaid
<1>2. Len(f) \in Nat /\ j \in Nat
  <2>1. Len(f) \in Nat
    BY <1>1
  <2> QED  BY <2>1, CutIs
<1>3. 1 \in DOMAIN Header /\ 5 \in Header[1]
  BY Known
<1>4. CASE n = NoName
  <2>1. f[3] = U32(0)
    BY <1>1, <1>4 DEF HeaderLaid
  <2>2. CASE 3 <= j
    <3>1. Ends(g, 3)
      BY <1>2, <2>1, <2>2, EndKept
    <3> QED  BY <1>4, <3>1 DEF HeaderAt
  <2>3. CASE 3 > j
    <3>1. Broken(g, 3, 1, 5)
      BY <1>2, <2>3, EndBroken
    <3> QED  BY <1>3, <3>1, FieldsBreak
  <2> QED  BY <1>2, <2>2, <2>3
<1>5. CASE n # NoName
  <2>1. Spelt(f, 3, 1, 5, n) /\ f[6] = U32(0) /\ 3 + 3 = 6
    BY <1>1, <1>5 DEF HeaderLaid
  <2>2. CASE 3 + 2 > j
    <3>1. Broken(g, 3, 1, 5)
      BY <1>2, <2>1, <2>2, SpeltBroken
    <3> QED  BY <1>3, <3>1, FieldsBreak
  <2>3. CASE 3 + 2 <= j
    <3>1. Well(g, 3, 1, 5, n)
      BY <1>2, <2>1, <2>3, SpeltKept
    <3>2. CASE 6 <= j
      <4>1. Ends(g, 6)
        BY <1>2, <2>1, <3>2, EndKept
      <4> QED  BY <1>5, <2>1, <3>1, <4>1 DEF HeaderAt
    <3>3. CASE 6 > j
      <4>1. Broken(g, 6, 1, 5)
        BY <1>2, <3>3, EndBroken
      <4>2. Fields(g, 6, Header).error # "none"
        BY <1>3, <4>1, FieldsBreak
      <4>3. Fields(g, 3 + 3, Header).error # "none"
        BY <2>1, <4>2
      <4> QED  BY <1>3, <3>1, <4>3, FieldsFail
    <3> QED  BY <1>2, <3>2, <3>3
  <2> QED  BY <1>2, <2>2, <2>3
<1> QED  BY <1>4, <1>5

\* No key is read of a file that git-crypt did not write to its end: either it is
\* refused, or there is no entry in it.
Useless(loaded) == loaded.error # "none" \/ loaded.key.entries = NoEntries

LEMMA NewFileCut ==
  ASSUME NEW n, NEW s, NEW g \in Cuts(Store(NewKey(n, s)))
  PROVE  Useless(Load(g))
<1> DEFINE f == Store(NewKey(n, s))  h == Behead(n, 3)
<1>1. FileLaid(f, n, s, 3)
  BY NewFileLaid
<1>2. f \in Seq(Cells(n, s)) /\ EntryLaid(f, h, s) /\ h \in Nat /\ h >= 1 /\ Len(f) \in Nat
  <2>1. f \in Seq(Cells(n, s)) /\ EntryLaid(f, h, s)
    BY <1>1 DEF FileLaid
  <2>2. h \in Nat /\ h >= 3 + 1
    BY BeheadIs
  <2> HIDE DEF f, h
  <2> QED  BY <2>1, <2>2
<1>3. PICK D, j : g \in Seq(D) /\ CutAt(g, f, j)
  <2>1. g \in Cuts(f)
    OBVIOUS
  <2> HIDE DEF f
  <2> QED  BY <1>2, <2>1, CutsAre
<1> HIDE DEF f
<1> DEFINE H == Fields(g, 3, Header)  B == Entries(g, H.next)
<1>4. CASE ~Begins(g)
  BY <1>4, LoadElse DEF Useless
<1>5. CASE Begins(g) /\ H.error # "none"
  <2>1. Load(g) = H
    BY <1>5, LoadBegins
  <2> QED  BY <1>5, <2>1 DEF Useless
<1>6. CASE Begins(g) /\ H.error = "none"
  <2>1. HeaderAt(g, n, 3)
    BY <1>1, <1>3, <1>6, HeaderCut
  <2>2. Yields(g, 3, Header, h, Named(n))
    BY <1>3, <2>1, HeaderFields
  <2>3. H.next = h
    BY <2>2, ReadIs DEF Yields
  <2> HIDE DEF H, h
  <2>4. B = Entries(g, h)
    BY <2>3
  <2>5. CASE h > Len(g)
    <3>1. B = Read(h, NoEntries)
      BY <1>2, <1>3, <2>4, <2>5, EntriesAre
    <3>2. B.error = "none" /\ B.found = NoEntries
      BY <3>1, ReadIs
    <3>3. Load(g) = [error |-> "none", key |-> KeyOf(Found(H, 1, NoName), B.found)]
      BY <1>6, <3>2, LoadBegins DEF H
    <3>4. Load(g).key.entries = NoEntries
      BY <3>2, <3>3 DEF KeyOf
    <3> QED  BY <3>4 DEF Useless
  <2>6. CASE ~(h > Len(g))
    <3>1. Fields(g, h, Entry).error # "none"
      BY <1>2, <1>3, EntryCut
    <3>2. Entries(g, h) = WithEntry(Fields(g, h, Entry), Entries(g, Fields(g, h, Entry).next))
      BY <1>2, <1>3, <2>6, EntriesAre
    <3>3. WithEntry(Fields(g, h, Entry), Entries(g, Fields(g, h, Entry).next)) = Fields(g, h, Entry)
      BY <3>1, Zenon DEF WithEntry
    <3>4. B.error # "none"
      BY <2>4, <3>1, <3>2, <3>3
    <3>5. Load(g) = B
      BY <1>6, <3>4, LoadBegins DEF H
    <3> QED  BY <3>4, <3>5 DEF Useless
  <2> QED  BY <2>5, <2>6
<1> QED  BY <1>4, <1>5, <1>6

LEMMA OldFileCut ==
  ASSUME NEW s, NEW g \in Cuts(OldFile(s))
  PROVE  Useless(LoadLegacy(g))
<1> DEFINE f == OldFile(s)  C == {Bytes(s, 32), Bytes(s, 64)}
<1>1. f \in Seq(C) /\ Len(f) = 2
  BY DEF OldFile
<1>2. PICK j : CutAt(g, f, j)
  <2>1. g \in Cuts(f)
    OBVIOUS
  <2> HIDE DEF f, C
  <2> QED  BY <1>1, <2>1, CutsAre
<1> HIDE DEF f
<1>3. 2 > j /\ \A i \in Nat : i > j => \A w : ~Whole(g, i, w)
  <2>1. Len(f) \in Nat
    BY <1>1
  <2>2. j \in Nat /\ j < Len(f)
    BY <1>2, <2>1, CutIs
  <2>3. \A i \in Nat : i > j => \A w : ~Whole(g, i, w)
    BY <1>2, <2>1, CutIs
  <2>4. 2 > j
    BY <1>1, <2>2
  <2> QED  BY <2>3, <2>4
<1>4. ~Whole(g, 2, 64)
  BY <1>3
<1>5. LoadLegacy(g) = Fails("malformed")
  BY <1>4, Zenon DEF LoadLegacy
<1> QED  BY <1>5, FailsIs DEF Useless

LEMMA LegacyFails ==
  ASSUME NEW s
  PROVE  /\ Useless(LoadLegacy(OldFile(s) \o <<Bytes(s, 1)>>))
         /\ Useless(LoadLegacy(Store(NewKey(NoName, s))))
<1>1. ASSUME NEW g, Len(g) # 2 PROVE Useless(LoadLegacy(g))
  <2>1. LoadLegacy(g) = Fails("malformed")
    BY <1>1, Zenon DEF LoadLegacy
  <2> QED  BY <2>1, FailsIs DEF Useless
<1>2. Len(OldFile(s) \o <<Bytes(s, 1)>>) # 2
  BY DEF OldFile
<1>3. Len(Store(NewKey(NoName, s))) # 2
  <2>1. EntryLaid(Store(NewKey(NoName, s)), Behead(NoName, 3), s)
    BY NewFileLaid DEF FileLaid
  <2>2. Behead(NoName, 3) = 4
    BY DEF Behead
  <2> QED  BY <2>1, <2>2 DEF EntryLaid
<1> QED  BY <1>1, <1>2, <1>3, Zenon

-----------------------------------------------------------------------------
(* What git runs.                                                          *)

LEMMA ConfigIs ==
  ASSUME NEW p, p \in Seq(Range(p)), NEW c \in Filters, NEW n \in {NoName, Name}, NEW w \in BOOLEAN
  PROVE  GitConfig(w, Command(p, c, n)) = Command(p, c, n)
<1> DEFINE v == Command(p, c, n)  C == LettersOf(p) \cup {"git", "config"}
<1>1. v \in Seq(C) /\ {Quote, Backslash, Space} \subseteq C /\ <<"git">> \in Seq(C) /\ <<"config">> \in Seq(C)
  <2>1. v \in Seq(LettersOf(p))
    BY ShellCommand
  <2>2. {Quote, Backslash, Space} \subseteq LettersOf(p)
    BY DEF LettersOf, Special
  <2> HIDE DEF v
  <2> QED  BY <2>1, <2>2
<1> HIDE DEF v, C
<1>2. ArgumentsOf(FormatCmdline(<<<<"git">>, <<"config">>, v>>))[3] = v
  BY <1>1, WindowsLine
<1>3. GitConfig(w, v) = v
  BY <1>2, Zenon DEF GitConfig
<1> QED  BY <1>3 DEF v

LEMMA LineIs ==
  ASSUME NEW p, path' = p
  PROVE  \A c, n : Line(c, n) = Command(p, c, n)
BY Zenon DEF Line, Command, KeyOption

\* A filter that is configured is run by git as it was configured.
Configured ==
  conf # NoCommand =>
    /\ path \in Paths
    /\ \E n \in {NoName, Name} : asked = Internal(n) /\ conf = [c \in Filters |-> Command(path, c, n)]

LEMMA ConfigureConfigures ==
  ASSUME NEW p \in Paths, NEW n \in {NoName, Name}, NEW w \in BOOLEAN, Configure(p, n, w)
  PROVE  Configured'
<1>1. path' = p /\ asked' = Internal(n) /\ conf' = [c \in Filters |-> GitConfig(w, Line(c, n))]
  BY Zenon DEF Configure
<1>2. \A c \in Filters : GitConfig(w, Line(c, n)) = Command(p, c, n)
  <2> TAKE c \in Filters
  <2>1. Line(c, n) = Command(p, c, n)
    BY <1>1, LineIs
  <2>2. p \in Seq(Range(p))
    BY PathsAssumption
  <2> QED  BY <2>1, <2>2, ConfigIs
<1>3. conf' = [c \in Filters |-> Command(p, c, n)]
  BY <1>1, <1>2
<1> QED  BY <1>1, <1>3, Zenon DEF Configured

\* The words that follow the command.
Words(n, c) == KeyArgument(n) \o FileArgument(c)

LEMMA WordsAre ==
  ASSUME NEW n, NEW c, NEW p
  PROVE  <<p, <<c>>>> \o KeyArgument(n) \o FileArgument(c) = <<p, <<c>>>> \o Words(n, c)
<1> DEFINE a == <<p, <<c>>>>  b == KeyArgument(n)  d == FileArgument(c)
           C == {p, <<c>>, <<"--key-name", "=", n>>, <<"file">>}
<1>1. a \in Seq(C) /\ b \in Seq(C) /\ d \in Seq(C)
  <2> DEFINE x == <<"--key-name", "=", n>>  y == <<"file">>  z == <<c>>
  <2>1. b = IF n = NoName THEN <<>> ELSE <<x>>
    BY Zenon DEF KeyArgument
  <2>2. d = IF c = "diff" THEN <<y>> ELSE <<>>
    BY Zenon DEF FileArgument
  <2>3. a = <<p, z>> /\ {p, x, y, z} \subseteq C
    OBVIOUS
  <2> HIDE DEF a, b, d, C, x, y, z
  <2> QED  BY <2>1, <2>2, <2>3
<1> HIDE DEF a, b, d, C
<1>2. (a \o b) \o d = a \o (b \o d)
  BY <1>1
<1> QED  BY <1>2 DEF a, b, d, Words

LEMMA GitRunsIt ==
  ASSUME Configured, NEW c \in Filters, GitRuns(c)
  PROVE  \E n \in {NoName, Name} : /\ asked = Internal(n)
                                   /\ argv' = <<path, <<c>>>> \o KeyArgument(n) \o FileArgument(c)
<1>1. PICK n \in {NoName, Name} : asked = Internal(n) /\ conf = [d \in Filters |-> Command(path, d, n)]
  BY DEF Configured, GitRuns
<1>2. argv' = ShellWords(conf[c] \o FileOption(c))
  BY Zenon DEF GitRuns, FileOption
<1>3. conf[c] = Command(path, c, n)
  BY <1>1
<1>4. path \in Seq(Range(path))
  BY PathsAssumption DEF Configured, GitRuns
<1> QED  BY <1>1, <1>2, <1>3, <1>4, ShellRuns, Zenon

-----------------------------------------------------------------------------
(* main and parse_options.                                                 *)

\* What an argument is made of.
Texts == {"-k", "--key-name", "--key-file", "--", "-x", "--key", "=", "key", "other", "alpha", "file"}
Arguments == Seq(Seq(Texts))
Then(a, t) == <<a>> \o t

LEMMA ThenIs ==
  ASSUME NEW a \in Seq(Texts), NEW t \in Arguments
  PROVE  /\ Then(a, t) \in Arguments /\ Then(a, t) # <<>> /\ Head(Then(a, t)) = a /\ Tail(Then(a, t)) = t
         /\ Len(Then(a, t)) = Len(t) + 1 /\ Then(a, t)[1] = a
         /\ SubSeq(Then(a, t), 2, Len(Then(a, t))) = t
<1> DEFINE C == Seq(Texts)  r == Then(a, t)
<1>1. a \in C /\ t \in Seq(C)
  BY DEF Arguments
<1> HIDE DEF C
<1>2. /\ r \in Seq(C) /\ Len(r) = Len(t) + 1 /\ r[1] = a /\ \A i \in 1..Len(t) : r[i + 1] = t[i]
  BY <1>1 DEF Then
<1>3. Tail(r) = t
  BY <1>1, TailIs DEF Then
<1> HIDE DEF r
<1>4. r # <<>> /\ Head(r) = r[1]
  BY <1>1, <1>2
<1>5. SubSeq(r, 2, Len(r)) = t
  BY <1>1, <1>2, <1>3
<1> QED  BY <1>2, <1>3, <1>4, <1>5, Zenon DEF r, C, Arguments

LEMMA BehindTwoNothing ==
  ASSUME NEW C, NEW r \in Seq(C), Len(r) = 2
  PROVE  SubSeq(r, 3, Len(r)) = <<>>
OBVIOUS

LEMMA BehindTwoType ==
  ASSUME NEW C, NEW r \in Seq(C), NEW n \in Nat, n = Len(r), n >= 3
  PROVE  SubSeq(r, 3, n) \in Seq(C) /\ Len(SubSeq(r, 3, n)) = n - 2
OBVIOUS

LEMMA BehindTwoAt ==
  ASSUME NEW C, NEW r \in Seq(C), NEW n \in Nat, n = Len(r), n >= 3
  PROVE  \A i \in 1..(n - 2) : SubSeq(r, 3, n)[i] = r[i + 2]
<1>1. \A i \in 1..(n - 2) : SubSeq(r, 3, n)[i] = r[3 + i - 1] /\ 3 + i - 1 = i + 2
  OBVIOUS
<1> QED  BY <1>1

LEMMA SameSeq ==
  ASSUME NEW C, NEW u \in Seq(C), NEW v \in Seq(C), Len(u) = Len(v), \A i \in 1..Len(u) : v[i] = u[i]
  PROVE  u = v
OBVIOUS

LEMMA BehindTwo ==
  ASSUME NEW C, NEW r \in Seq(C), NEW u \in Seq(C), Len(r) = Len(u) + 2, \A i \in 1..Len(u) : r[i + 2] = u[i]
  PROVE  SubSeq(r, 3, Len(r)) = u
<1> DEFINE n == Len(r)
<1>1. CASE Len(u) = 0
  <2>1. Len(r) = 2 /\ u = <<>>
    BY <1>1
  <2> QED  BY <2>1, BehindTwoNothing
<1>2. CASE Len(u) # 0
  <2>1. n \in Nat /\ n >= 3 /\ n - 2 = Len(u) /\ n = Len(r)
    BY <1>2
  <2> HIDE DEF n
  <2>2. SubSeq(r, 3, n) \in Seq(C) /\ Len(SubSeq(r, 3, n)) = n - 2
    BY <2>1, BehindTwoType
  <2>3. \A i \in 1..(n - 2) : SubSeq(r, 3, n)[i] = r[i + 2]
    BY <2>1, BehindTwoAt
  <2> DEFINE v == SubSeq(r, 3, n)
  <2>4. v \in Seq(C) /\ Len(v) = Len(u) /\ \A i \in 1..Len(u) : v[i] = u[i]
    <3>1. \A i \in 1..Len(u) : v[i] = r[i + 2]
      BY <2>1, <2>3
    <3> QED  BY <2>1, <2>2, <3>1
  <2> HIDE DEF v
  <2>5. u = v
    BY <2>4, SameSeq
  <2> QED  BY <2>1, <2>5 DEF v
<1> QED  BY <1>1, <1>2

LEMMA BeforeTwo ==
  ASSUME NEW C, NEW a \in C, NEW b \in C, NEW u \in Seq(C)
  PROVE  /\ Len(Then(a, Then(b, u))) > 1 /\ Then(a, Then(b, u))[2] = b
         /\ SubSeq(Then(a, Then(b, u)), 3, Len(Then(a, Then(b, u)))) = u
<1> DEFINE t == Then(b, u)  r == Then(a, t)
<1>1. a \in C /\ b \in C /\ u \in Seq(C)
  OBVIOUS
<1>2. t \in Seq(C) /\ Len(t) = Len(u) + 1 /\ t[1] = b /\ \A i \in 1..Len(u) : t[i + 1] = u[i]
  BY <1>1 DEF Then
<1> HIDE DEF t
<1>3. r \in Seq(C) /\ Len(r) = Len(t) + 1 /\ r[1] = a /\ \A i \in 1..Len(t) : r[i + 1] = t[i]
  BY <1>1, <1>2 DEF Then
<1> HIDE DEF r
<1>4. Len(u) \in Nat /\ Len(r) = Len(u) + 2 /\ r[2] = b /\ \A i \in 1..Len(u) : r[i + 2] = u[i]
  <2>1. Len(u) \in Nat /\ Len(r) = Len(u) + 2
    BY <1>1, <1>2, <1>3
  <2>2. r[2] = t[1]
    BY <1>2, <1>3, <2>1
  <2>3. ASSUME NEW i \in 1..Len(u) PROVE r[i + 2] = u[i]
    <3>1. i + 1 \in 1..Len(t) /\ i + 1 + 1 = i + 2
      BY <1>2, <2>1
    <3>2. r[i + 1 + 1] = t[i + 1]
      BY <1>3, <3>1
    <3> QED  BY <1>2, <3>1, <3>2
  <2> QED  BY <1>2, <2>1, <2>2, <2>3
<1>5. SubSeq(r, 3, Len(r)) = u
  BY <1>1, <1>3, <1>4, BehindTwo
<1> QED  BY <1>4, <1>5 DEF r, t

LEMMA ThenTwo ==
  ASSUME NEW a \in Seq(Texts), NEW b \in Seq(Texts), NEW u \in Arguments
  PROVE  /\ Len(Then(a, Then(b, u))) > 1 /\ Then(a, Then(b, u))[2] = b
         /\ SubSeq(Then(a, Then(b, u)), 3, Len(Then(a, Then(b, u)))) = u
<1> DEFINE C == Seq(Texts)
<1>1. a \in C /\ b \in C /\ u \in Seq(C)
  BY DEF Arguments
<1> HIDE DEF C
<1> QED  BY <1>1, BeforeTwo

\* One argument: an option, with its value or without.
LEMMA OneIs == /\ \A C : \A o \in C : <<o>> \in Seq(C)
               /\ \A o : Len(<<o>>) = 1 /\ <<o>>[1] = o
OBVIOUS

LEMMA TwoTypes == \A C : \A o, x \in C : <<o, x>> \in Seq(C)
OBVIOUS

LEMMA TwoAre == \A o, x : Len(<<o, x>>) = 2 /\ <<o, x>>[1] = o
OBVIOUS

LEMMA TwoTail == \A o, x : Tail(<<o, x>>) = <<x>>
<1> TAKE o, x
<1>1. o \in {o, x} /\ <<x>> \in Seq({o, x})
  OBVIOUS
<1>2. Tail(<<o>> \o <<x>>) = <<x>>
  BY <1>1, TailIs
<1>3. <<o>> \o <<x>> = <<o, x>>
  BY Grows2, Zenon
<1> QED  BY <1>2, <1>3

LEMMA ThreeTypes == \A C : \A o, y, x \in C : <<o, y, x>> \in Seq(C)
OBVIOUS

LEMMA ThreeAre == \A o, y, x : Len(<<o, y, x>>) = 3 /\ <<o, y, x>>[1] = o
OBVIOUS

LEMMA ThreeAt == \A o, y, x : \A i \in 1..1 : <<o, y, x>>[i + 2] = <<x>>[i]
OBVIOUS

LEMMA ThreeBehind == \A o, y, x : SubSeq(<<o, y, x>>, 3, Len(<<o, y, x>>)) = <<x>>
<1> TAKE o, y, x
<1> DEFINE r == <<o, y, x>>  u == <<x>>  C == {o, y, x}
<1>1. r \in Seq(C) /\ u \in Seq(C) /\ Len(r) = Len(u) + 2 /\ Len(u) = 1
  OBVIOUS
<1>2. \A i \in 1..1 : r[i + 2] = u[i]
  BY ThreeAt, SMTT(30)
<1> HIDE DEF r, u, C
<1>3. SubSeq(r, 3, Len(r)) = u
  BY <1>1, <1>2, BehindTwo
<1> QED  BY <1>3 DEF r, u

LEMMA NotDashes == \A o, y, x : /\ <<o, x>> # <<"--">> /\ <<o, y, x>> # <<"--">>
                                /\ o # "--" => <<o>> # <<"--">>
<1> TAKE o, y, x
<1>1. Len(<<o, x>>) # 1 /\ Len(<<o, y, x>>) # 1 /\ Len(<<"--">>) = 1
  BY TwoAre, ThreeAre, OneIs
<1>2. <<o>>[1] = o /\ <<"--">>[1] = "--"
  BY OneIs
<1> QED  BY <1>1, <1>2

\* An option and its value are the first of the arguments a; t is the rest.
Takes(a, t, by, v) ==
  /\ t \in Arguments
  /\ \E x \in Texts :
       /\ v = <<x>>
       /\ \/ by = "name" /\ a = Then(<<"-k", x>>, t)
          \/ \E o \in {"--key-name", "--key-file"} : by = Sets(o) /\ a = Then(<<o, "=", x>>, t)
          \/ \E o \in OptionNames : by = Sets(o) /\ a = Then(<<o>>, Then(<<x>>, t))

\* What Option makes of that.
Taken(t, by, v) ==
  /\ argv # <<>> /\ Head(argv)[1] \in OptionNames /\ Head(argv) # <<"--">>
  /\ Value = v /\ Rest = t /\ Sets(Head(argv)[1]) = by

LEMMA TakesJoined ==
  ASSUME NEW x \in Texts, NEW t \in Arguments, argv = Then(<<"-k", x>>, t)
  PROVE  Taken(t, "name", <<x>>)
<1> DEFINE a == <<"-k", x>>
<1>1. a \in Seq(Texts) /\ Len(a) = 2 /\ a[1] = "-k" /\ a # <<"--">> /\ Tail(a) = <<x>>
  <2>1. a \in Seq(Texts)
    <3>1. "-k" \in Texts
      BY DEF Texts
    <3> QED  BY <3>1, TwoTypes
  <2>2. Len(a) = 2 /\ a[1] = "-k" /\ a # <<"--">> /\ Tail(a) = <<x>>
    BY TwoAre, TwoTail, NotDashes, Zenon
  <2> QED  BY <2>1, <2>2
<1> HIDE DEF a
<1>2. /\ argv # <<>> /\ Head(argv) = a /\ SubSeq(argv, 2, Len(argv)) = t
  BY <1>1, ThenIs DEF a
<1>3. Value = <<x>>
  <2>1. Len(a) # 1 /\ Len(a) > 1
    BY <1>1
  <2>2. Len(Head(argv)) # 1 /\ Len(Head(argv)) > 1 /\ Head(argv)[1] = "-k" /\ Tail(Head(argv)) = <<x>>
    BY <1>1, <1>2, <2>1, Zenon
  <2> QED  BY <2>2, Zenon DEF Value
<1>4. Rest = t
  BY <1>1, <1>2 DEF Rest
<1> QED  BY <1>1, <1>2, <1>3, <1>4 DEF Taken, OptionNames, Sets

LEMMA TakesEquals ==
  ASSUME NEW x \in Texts, NEW t \in Arguments, NEW o \in {"--key-name", "--key-file"},
         argv = Then(<<o, "=", x>>, t)
  PROVE  Taken(t, Sets(o), <<x>>)
<1> DEFINE a == <<o, "=", x>>
<1>1. /\ a \in Seq(Texts) /\ Len(a) = 3 /\ a[1] = o /\ a # <<"--">> /\ o # "-k"
      /\ SubSeq(a, 3, Len(a)) = <<x>>
  <2>1. a \in Seq(Texts)
    <3>1. o \in Texts /\ "=" \in Texts
      BY DEF Texts
    <3> QED  BY <3>1, ThreeTypes
  <2>2. Len(a) = 3 /\ a[1] = o /\ a # <<"--">> /\ SubSeq(a, 3, Len(a)) = <<x>>
    BY ThreeAre, ThreeBehind, NotDashes, Zenon
  <2>3. o # "-k"
    OBVIOUS
  <2> QED  BY <2>1, <2>2, <2>3
<1> HIDE DEF a
<1>2. /\ argv # <<>> /\ Head(argv) = a /\ SubSeq(argv, 2, Len(argv)) = t
  BY <1>1, ThenIs DEF a
<1>3. Value = <<x>>
  <2>1. Len(a) # 1 /\ Len(a) > 1 /\ a[1] # "-k"
    BY <1>1
  <2>2. /\ Len(Head(argv)) # 1 /\ Len(Head(argv)) > 1 /\ Head(argv)[1] # "-k"
        /\ SubSeq(Head(argv), 3, Len(Head(argv))) = <<x>>
    BY <1>1, <1>2, <2>1, Zenon
  <2> QED  BY <2>2, Zenon DEF Value
<1>4. Rest = t
  <2>1. Len(a) # 1
    BY <1>1
  <2> QED  BY <1>2, <2>1, Zenon DEF Rest
<1> QED  BY <1>1, <1>2, <1>3, <1>4 DEF Taken, OptionNames

LEMMA TakesNext ==
  ASSUME NEW x \in Texts, NEW t \in Arguments, NEW o \in OptionNames,
         argv = Then(<<o>>, Then(<<x>>, t))
  PROVE  Taken(t, Sets(o), <<x>>)
<1> DEFINE a == <<o>>  b == <<x>>
<1>1. a \in Seq(Texts) /\ b \in Seq(Texts) /\ Len(a) = 1 /\ a[1] = o /\ a # <<"--">>
  <2>1. o \in Texts /\ o # "--"
    BY DEF OptionNames, Texts
  <2>2. a \in Seq(Texts) /\ b \in Seq(Texts) /\ Len(a) = 1 /\ a[1] = o
    BY <2>1, OneIs, Zenon
  <2>3. a # <<"--">>
    BY <2>1, NotDashes, Zenon
  <2> QED  BY <2>2, <2>3
<1> HIDE DEF a, b
<1>2. /\ argv # <<>> /\ Head(argv) = a
  <2>1. Then(b, t) \in Arguments
    BY <1>1, ThenIs
  <2> QED  BY <1>1, <2>1, ThenIs DEF a, b
<1>3. Len(argv) > 1 /\ argv[2] = b /\ SubSeq(argv, 3, Len(argv)) = t
  BY <1>1, ThenTwo, ZenonT(60) DEF a, b
<1>4. Value = b
  <2>1. Len(Head(argv)) = 1 /\ Len(argv) > 1 /\ ~(Len(Head(argv)) > 1)
    <3>1. ~(Len(a) > 1)
      BY <1>1
    <3> QED  BY <1>1, <1>2, <1>3, <3>1, Zenon
  <2> QED  BY <1>3, <2>1, Zenon DEF Value
<1>5. Rest = t
  BY <1>1, <1>2, <1>3 DEF Rest
<1> QED  BY <1>1, <1>2, <1>3, <1>4, <1>5 DEF Taken, b

LEMMA TakesIs ==
  ASSUME NEW t, NEW by, NEW v, Takes(argv, t, by, v)
  PROVE  Taken(t, by, v) /\ t \in Arguments /\ v # <<>> /\ by \in {"name", "path"}
<1>1. PICK x \in Texts :
        /\ v = <<x>>
        /\ \/ by = "name" /\ argv = Then(<<"-k", x>>, t)
           \/ \E o \in {"--key-name", "--key-file"} : by = Sets(o) /\ argv = Then(<<o, "=", x>>, t)
           \/ \E o \in OptionNames : by = Sets(o) /\ argv = Then(<<o>>, Then(<<x>>, t))
  BY Zenon DEF Takes
<1>2. t \in Arguments
  BY Zenon DEF Takes
<1>3. v # <<>>
  BY <1>1
<1>4. \A o : Sets(o) \in {"name", "path"}
  BY DEF Sets
<1>5. CASE by = "name" /\ argv = Then(<<"-k", x>>, t)
  BY <1>1, <1>2, <1>3, <1>5, TakesJoined
<1>6. CASE \E o \in {"--key-name", "--key-file"} : by = Sets(o) /\ argv = Then(<<o, "=", x>>, t)
  BY <1>1, <1>2, <1>3, <1>4, <1>6, TakesEquals
<1>7. CASE \E o \in OptionNames : by = Sets(o) /\ argv = Then(<<o>>, Then(<<x>>, t))
  BY <1>1, <1>2, <1>3, <1>4, <1>7, TakesNext
<1> QED  BY <1>1, <1>5, <1>6, <1>7

\* The options are taken apart: nothing is left but the file of a textconv, or one
\* argument too many is.
NoMore(a, c) == a = FileArgument(c) \/ a = Then(<<"--">>, FileArgument(c))
TooMany(a, c) == \/ a = Then(<<"key">>, FileArgument(c))
                 \/ a = Then(<<"--">>, Then(<<"key">>, FileArgument(c)))

\* The key file that the options name.
Names(n, p, m) == \/ n = <<>> /\ p = <<>> /\ m = Internal(NoName)
                  \/ n = <<Name>> /\ p = <<>> /\ m = Internal(Name)
                  \/ p = <<"key">> /\ m = Given

\* What is left chooses the key file m, or is refused.
Selects(a, n, p, m, c) ==
  \/ NoMore(a, c) /\ Names(n, p, m)
  \/ TooMany(a, c) /\ n = <<>> /\ p = <<>> /\ m = Legacy

Stops(a, p, c) ==
  \/ a = Then(<<"-x">>, FileArgument(c)) \/ a = Then(<<"--key">>, FileArgument(c))
  \/ FileArgument(c) = <<>> /\ a = <<<<"-k">>>>
  \/ p = <<"key">> /\ TooMany(a, c)

Settles(a, n, p, m, c) == Selects(a, n, p, m, c) \/ Stops(a, p, c)

Named1(by, v, n) == IF by = "name" THEN v ELSE n
Placed(by, v, p) == IF by = "path" THEN v ELSE p

\* One or two options before that.
Parses1(a, n, p, m, c) ==
  \E t, by, v : Takes(a, t, by, v) /\ Settles(t, Named1(by, v, n), Placed(by, v, p), m, c)
Parses2(a, n, p, m, c) ==
  \E t, by, v : Takes(a, t, by, v) /\ Parses1(t, Named1(by, v, n), Placed(by, v, p), m, c)
Parses(a, n, p, m, c) ==
  Settles(a, n, p, m, c) \/ Parses1(a, n, p, m, c) \/ Parses2(a, n, p, m, c)

LEMMA FileIs ==
  ASSUME NEW c
  PROVE  /\ FileArgument(c) \in Arguments
         /\ Len(FileArgument(c)) = (IF c = "diff" THEN 1 ELSE 0)
         /\ FileArgument(c) # <<>> => Head(FileArgument(c)) = <<"file">>
<1>1. CASE c = "diff"
  <2> DEFINE w == <<"file">>
  <2>1. w \in Seq(Texts)
    BY OneIs DEF Texts
  <2>2. FileArgument(c) = <<w>>
    BY <1>1 DEF FileArgument
  <2> HIDE DEF w
  <2>3. <<w>> \in Arguments /\ Len(<<w>>) = 1 /\ Head(<<w>>) = w
    BY <2>1 DEF Arguments
  <2> QED  BY <1>1, <2>2, <2>3 DEF w
<1>2. CASE c # "diff"
  <2>1. FileArgument(c) = <<>>
    BY <1>2 DEF FileArgument
  <2>2. <<>> \in Arguments /\ Len(<<>>) = 0
    BY DEF Arguments
  <2> QED  BY <1>2, <2>1, <2>2
<1> QED  BY <1>1, <1>2

\* What follows the double dash, and what of it is not the file of a textconv.
GivenOf(a) == IF a # <<>> /\ Head(a) = <<"--">> THEN Tail(a) ELSE a
Extra(a, c) == Len(GivenOf(a)) - (IF c = "diff" THEN 1 ELSE 0)

LEMMA NothingGiven ==
  ASSUME NEW c, NEW a, NoMore(a, c)
  PROVE  GivenOf(a) = FileArgument(c) /\ Extra(a, c) = 0
<1> DEFINE F == FileArgument(c)  d == <<"--">>
<1>1. F \in Arguments /\ Len(F) = (IF c = "diff" THEN 1 ELSE 0) /\ (F # <<>> => Head(F) = <<"file">>)
  BY FileIs
<1>2. d \in Seq(Texts)
  BY OneIs DEF Texts
<1>3. d # <<"file">>
  <2>1. <<"file">>[1] = "file" /\ d[1] = "--"
    BY OneIs
  <2> QED  BY <2>1
<1> HIDE DEF F, d
<1>4. GivenOf(a) = F
  <2>1. CASE a = F
    <3>1. ~(a # <<>> /\ Head(a) = d)
      BY <1>1, <1>3, <2>1
    <3> QED  BY <2>1, <3>1, Zenon DEF GivenOf, d
  <2>2. CASE a = Then(d, F)
    <3>1. a # <<>> /\ Head(a) = d /\ Tail(a) = F
      BY <1>1, <1>2, <2>2, ThenIs
    <3> QED  BY <3>1, Zenon DEF GivenOf, d
  <2> QED  BY <2>1, <2>2 DEF F, d, NoMore
<1>5. Extra(a, c) = 0
  BY <1>1, <1>4 DEF Extra
<1> QED  BY <1>4, <1>5 DEF F

LEMMA OneGiven ==
  ASSUME NEW c, NEW a, TooMany(a, c)
  PROVE  GivenOf(a)[1] = <<"key">> /\ Extra(a, c) = 1
<1> DEFINE F == FileArgument(c)  d == <<"--">>  k == <<"key">>  K == Then(k, F)
<1>1. F \in Arguments /\ Len(F) = (IF c = "diff" THEN 1 ELSE 0)
  BY FileIs
<1>2. d \in Seq(Texts) /\ k \in Seq(Texts)
  BY OneIs DEF Texts
<1>3. d # k
  <2>1. k[1] = "key" /\ d[1] = "--"
    BY OneIs
  <2> QED  BY <2>1
<1> HIDE DEF F, d, k
<1>4. K \in Arguments /\ Head(K) = k /\ K # <<>> /\ K[1] = k /\ Len(K) = Len(F) + 1
  BY <1>1, <1>2, ThenIs
<1> HIDE DEF K
<1>5. GivenOf(a) = K
  <2>1. CASE a = K
    <3>1. ~(a # <<>> /\ Head(a) = d)
      BY <1>3, <1>4, <2>1
    <3> QED  BY <2>1, <3>1, Zenon DEF GivenOf, d
  <2>2. CASE a = Then(d, K)
    <3>1. a # <<>> /\ Head(a) = d /\ Tail(a) = K
      BY <1>2, <1>4, <2>2, ThenIs
    <3> QED  BY <3>1, Zenon DEF GivenOf, d
  <2> QED  BY <2>1, <2>2 DEF F, d, k, K, TooMany
<1>6. Extra(a, c) = 1
  BY <1>1, <1>4, <1>5 DEF Extra
<1> QED  BY <1>4, <1>5, <1>6 DEF k

\* None of what is left is an option with a value.
LEMMA NotAnOption ==
  ASSUME NEW n, NEW p, NEW m, NEW c, Settles(argv, n, p, m, c)
  PROVE  ~(argv # <<>> /\ Head(argv)[1] \in OptionNames /\ Value # <<>>)
<1> DEFINE F == FileArgument(c)
<1>1. F \in Arguments /\ (F # <<>> => Head(F) = <<"file">>)
  BY FileIs
<1>2. ASSUME NEW w \in {"--", "-x", "--key", "key", "file"}, Head(argv) = <<w>>
      PROVE  Head(argv)[1] \notin OptionNames
  <2>1. <<w>>[1] = w
    BY OneIs
  <2> QED  BY <1>2, <2>1 DEF OptionNames
<1>3. ASSUME NEW w \in {"--", "-x", "--key", "key"}, NEW t \in Arguments, argv = Then(<<w>>, t)
      PROVE  Head(argv)[1] \notin OptionNames
  <2>1. <<w>> \in Seq(Texts)
    BY OneIs DEF Texts
  <2>2. Head(argv) = <<w>>
    BY <1>3, <2>1, ThenIs
  <2> QED  BY <1>2, <2>2
<1>4. CASE argv = F
  BY <1>1, <1>2, <1>4
<1>5. CASE F = <<>> /\ argv = <<<<"-k">>>>
  <2> DEFINE k == <<"-k">>
  <2>1. Len(k) = 1
    OBVIOUS
  <2>2. argv = <<k>>
    BY <1>5
  <2> HIDE DEF k
  <2>3. Head(argv) = k /\ Len(argv) = 1
    BY <2>2
  <2>4. ~(Len(argv) > 1) /\ ~(Len(Head(argv)) > 1) /\ Len(Head(argv)) = 1
    <3>1. ~(1 > 1)
      OBVIOUS
    <3> QED  BY <2>1, <2>3, <3>1, Zenon
  <2>5. Value = <<>>
    BY <2>4, Zenon DEF Value
  <2> QED  BY <2>5
<1>6. CASE \/ argv = Then(<<"--">>, F) \/ argv = Then(<<"key">>, F)
           \/ argv = Then(<<"--">>, Then(<<"key">>, F))
           \/ argv = Then(<<"-x">>, F) \/ argv = Then(<<"--key">>, F)
  <2>1. Then(<<"key">>, F) \in Arguments
    <3>1. <<"key">> \in Seq(Texts)
      BY OneIs DEF Texts
    <3> QED  BY <1>1, <3>1, ThenIs
  <2> HIDE DEF F
  <2> QED  BY <1>1, <1>3, <1>6, <2>1
<1>7. \/ argv = F
      \/ F = <<>> /\ argv = <<<<"-k">>>>
      \/ argv = Then(<<"--">>, F) \/ argv = Then(<<"key">>, F)
      \/ argv = Then(<<"--">>, Then(<<"key">>, F))
      \/ argv = Then(<<"-x">>, F) \/ argv = Then(<<"--key">>, F)
  <2>1. NoMore(argv, c) \/ TooMany(argv, c) \/ Stops(argv, p, c)
    <3>1. Selects(argv, n, p, m, c) \/ Stops(argv, p, c)
      BY Zenon DEF Settles
    <3>2. CASE Selects(argv, n, p, m, c)
      BY <3>2 DEF Selects
    <3> QED  BY <3>1, <3>2, Zenon
  <2> QED  BY <2>1, Zenon DEF NoMore, TooMany, Stops
<1> QED  BY <1>4, <1>5, <1>6, <1>7, Zenon

Picks ==
  LET n == options["name"]
      p == options["path"]
      extra == Extra(argv, cmd)
  IN \/ extra = 0 /\ p # <<>> /\ chosen' = [by |-> "path", at |-> p[1]]
     \/ extra = 0 /\ p = <<>> /\ chosen' = Internal(IF n # <<>> THEN n[1] ELSE NoName)
     \/ extra = 1 /\ n = <<>> /\ p = <<>> /\ chosen' = [by |-> "legacy", at |-> GivenOf(argv)[1][1]]

LEMMA SelectKeyIs ==
  ASSUME SelectKey
  PROVE  /\ stage = "options" /\ (argv # <<>> => Head(argv) = <<"--">> \/ ~IsOption(Head(argv)))
         /\ UNCHANGED <<stream, path, conf, cmd, asked, options, wanted, used, whole>>
         /\ \/ stage' = "load" /\ code' = code /\ Picks
            \/ stage' = "ended" /\ code' = "usage"
<1> DEFINE given == IF argv # <<>> /\ Head(argv) = <<"--">> THEN Tail(argv) ELSE argv
           extra == Len(given) - (IF cmd = "diff" THEN 1 ELSE 0)
           named == options["name"] # <<>> \/ options["path"] # <<>>
           goes == extra = 0 \/ (extra = 1 /\ ~named)
           found == CASE extra = 1 -> [by |-> "legacy", at |-> given[1][1]]
                      [] extra = 0 /\ options["path"] # <<>> -> [by |-> "path", at |-> options["path"][1]]
                      [] extra = 0 /\ options["path"] = <<>> ->
                           Internal(IF options["name"] # <<>> THEN options["name"][1] ELSE NoName)
<1>1. /\ stage = "options" /\ (argv # <<>> => Head(argv) = <<"--">> \/ ~IsOption(Head(argv)))
      /\ goes => /\ chosen' = found /\ stage' = "load" /\ argv' = <<>>
                 /\ UNCHANGED <<stream, path, conf, cmd, asked, options, wanted, used, whole, code>>
      /\ ~goes => Exit("usage")
  BY Zenon DEF SelectKey
<1>2. extra = Extra(argv, cmd) /\ given = GivenOf(argv)
  BY Zenon DEF Extra, GivenOf
<1>3. CASE ~goes
  BY <1>1, <1>3 DEF Exit
<1>4. CASE goes
  <2>1. /\ chosen' = found /\ stage' = "load"
        /\ UNCHANGED <<stream, path, conf, cmd, asked, options, wanted, used, whole, code>>
    BY <1>1, <1>4, Zenon
  <2>2. Picks
    <3> DEFINE n == options["name"]  p == options["path"]
    <3>1. /\ extra = 1 => found = [by |-> "legacy", at |-> given[1][1]]
          /\ extra = 0 /\ p # <<>> => found = [by |-> "path", at |-> p[1]]
          /\ extra = 0 /\ p = <<>> => found = Internal(IF n # <<>> THEN n[1] ELSE NoName)
      <4> DEFINE l == [by |-> "legacy", at |-> given[1][1]]
                 q == [by |-> "path", at |-> p[1]]
                 i == Internal(IF n # <<>> THEN n[1] ELSE NoName)
                 f == CASE extra = 1 -> l [] extra = 0 /\ p # <<>> -> q [] extra = 0 /\ p = <<>> -> i
      <4>1. found = f
        OBVIOUS
      <4> HIDE DEF extra, given, p, n, l, q, i
      <4>2. /\ extra = 1 => f = l
            /\ extra = 0 /\ p # <<>> => f = q
            /\ extra = 0 /\ p = <<>> => f = i
        OBVIOUS
      <4> HIDE DEF f, found
      <4> QED  BY <4>1, <4>2, Zenon DEF l, q, i
    <3> HIDE DEF extra, given, found
    <3>2. CASE extra = 1
      <4>1. extra = 1 /\ ~(extra = 0)
        BY <3>2
      <4>2. n = <<>> /\ p = <<>>
        BY <1>4, <4>1, Zenon
      <4> QED  BY <1>2, <2>1, <3>1, <4>1, <4>2, Zenon DEF Picks
    <3>3. CASE extra = 0 /\ p # <<>>
      BY <1>2, <2>1, <3>1, <3>3, Zenon DEF Picks
    <3>4. CASE extra = 0 /\ p = <<>>
      BY <1>2, <2>1, <3>1, <3>4, Zenon DEF Picks
    <3> QED  BY <1>4, <3>2, <3>3, <3>4, Zenon
  <2> HIDE DEF found
  <2> QED  BY <1>1, <2>1, <2>2, Zenon
<1> QED  BY <1>3, <1>4

Read2(m) == Parses(argv, options["name"], options["path"], m, cmd)
Slots == {"name", "path"}
IsOptions(o) == o = [by \in Slots |-> o[by]]

\* Where there is one more option, SelectKey waits.
LEMMA TakesFirst ==
  ASSUME NEW t, NEW by, NEW v, Takes(argv, t, by, v)
  PROVE  ~(argv # <<>> => Head(argv) = <<"--">> \/ ~IsOption(Head(argv)))
<1>1. Taken(t, by, v)
  BY TakesIs
<1>2. argv # <<>> /\ Head(argv)[1] \in OptionNames /\ Head(argv) # <<"--">>
  BY <1>1, Zenon DEF Taken
<1>3. IsOption(Head(argv))
  BY <1>2 DEF IsOption
<1> QED  BY <1>2, <1>3, Zenon

LEMMA ParsesIs ==
  ASSUME NEW a, NEW n, NEW p, NEW m, NEW c, Parses(a, n, p, m, c)
  PROVE  \/ Settles(a, n, p, m, c)
         \/ \E t, by, v : Takes(a, t, by, v) /\ Parses(t, Named1(by, v, n), Placed(by, v, p), m, c)
<1>1. CASE Parses1(a, n, p, m, c)
  BY <1>1, Zenon DEF Parses1, Parses
<1>2. CASE Parses2(a, n, p, m, c)
  BY <1>2, Zenon DEF Parses2, Parses
<1> QED  BY <1>1, <1>2, Zenon DEF Parses

\* Option leaves arguments that mean the same key file.
LEMMA OptionReads ==
  ASSUME NEW m, Option, IsOptions(options), Read2(m)
  PROVE  IsOptions(options') /\ Read2(m)'
<1>1. /\ argv # <<>> /\ Head(argv)[1] \in OptionNames /\ Value # <<>>
      /\ options' = [options EXCEPT ![Sets(Head(argv)[1])] = Value]
      /\ argv' = Rest /\ cmd' = cmd
  BY Zenon DEF Option
<1>2. ~Settles(argv, options["name"], options["path"], m, cmd)
  BY <1>1, NotAnOption, Zenon
<1>3. PICK t, by, v : /\ Takes(argv, t, by, v)
                      /\ Parses(t, Named1(by, v, options["name"]), Placed(by, v, options["path"]), m, cmd)
  BY <1>2, ParsesIs, Zenon DEF Read2
<1>4. Taken(t, by, v) /\ by \in Slots
  BY <1>3, TakesIs DEF Slots
<1>5. options' = [options EXCEPT ![by] = v] /\ argv' = t
  BY <1>1, <1>4, Zenon DEF Taken
<1>6. /\ IsOptions(options')
      /\ options'["name"] = Named1(by, v, options["name"])
      /\ options'["path"] = Placed(by, v, options["path"])
  <2>1. options = [b \in Slots |-> options[b]]
    BY DEF IsOptions
  <2>2. options' = [b \in Slots |-> IF b = by THEN v ELSE options[b]]
    BY <1>4, <1>5, <2>1
  <2>3. options' = [b \in Slots |-> options'[b]]
    BY <2>2
  <2>4. options'["name"] = Named1(by, v, options["name"]) /\ options'["path"] = Placed(by, v, options["path"])
    BY <2>2 DEF Named1, Placed, Slots
  <2> QED  BY <2>3, <2>4 DEF IsOptions
<1> QED  BY <1>1, <1>3, <1>5, <1>6, Zenon DEF Read2

\* What is left chooses the key file that is meant.
LEMMA SelectKeyReads ==
  ASSUME NEW m, SelectKey, Read2(m)
  PROVE  \/ stage' = "load" /\ code' = code /\ chosen' = m
         \/ stage' = "ended" /\ code' = "usage"
<1> DEFINE n == options["name"]  p == options["path"]
<1>1. /\ argv # <<>> => Head(argv) = <<"--">> \/ ~IsOption(Head(argv))
      /\ \/ stage' = "load" /\ code' = code /\ Picks
         \/ stage' = "ended" /\ code' = "usage"
  BY SelectKeyIs
<1>2. Settles(argv, n, p, m, cmd)
  BY <1>1, ParsesIs, TakesFirst, Zenon DEF Read2
<1> SUFFICES ASSUME Picks PROVE chosen' = m
  BY <1>1
<1>3. /\ <<>> # <<Name>> /\ <<>> # <<"key">>
      /\ <<Name>>[1] = Name /\ <<"key">>[1] = "key"
  OBVIOUS
<1>4. 0 # 1
  OBVIOUS
<1>5. CASE NoMore(argv, cmd) /\ Names(n, p, m)
  <2>1. Extra(argv, cmd) = 0
    BY <1>5, NothingGiven
  <2>2. \/ p # <<>> /\ chosen' = [by |-> "path", at |-> p[1]]
        \/ p = <<>> /\ chosen' = Internal(IF n # <<>> THEN n[1] ELSE NoName)
    BY <1>4, <2>1, Zenon DEF Picks
  <2>3. CASE n = <<>> /\ p = <<>> /\ m = Internal(NoName)
    BY <2>2, <2>3, Zenon
  <2>4. CASE n = <<Name>> /\ p = <<>> /\ m = Internal(Name)
    <3>1. n # <<>> /\ n[1] = Name
      BY <1>3, <2>4, Zenon
    <3> QED  BY <2>2, <2>4, <3>1, Zenon
  <2>5. CASE p = <<"key">> /\ m = Given
    <3>1. p # <<>> /\ p[1] = "key"
      BY <1>3, <2>5, Zenon
    <3> QED  BY <2>2, <2>5, <3>1, Zenon DEF Given
  <2> QED  BY <1>5, <2>3, <2>4, <2>5, Zenon DEF Names
<1>6. CASE TooMany(argv, cmd) /\ (m = Legacy \/ p = <<"key">>)
  <2>1. Extra(argv, cmd) = 1 /\ GivenOf(argv)[1] = <<"key">>
    BY <1>6, OneGiven
  <2>2. n = <<>> /\ p = <<>> /\ chosen' = [by |-> "legacy", at |-> GivenOf(argv)[1][1]]
    BY <1>4, <2>1, Zenon DEF Picks
  <2>3. m = Legacy
    BY <1>3, <1>6, <2>2, Zenon
  <2>4. GivenOf(argv)[1][1] = "key"
    BY <1>3, <2>1, Zenon
  <2> QED  BY <2>2, <2>3, <2>4, Zenon DEF Legacy
<1>7. ASSUME NEW w \in {"-x", "--key", "-k"}, argv # <<>>, Head(argv) = <<w>> PROVE FALSE
  <2>1. <<w>>[1] = w /\ w # "--"
    BY OneIs
  <2>2. <<w>> # <<"--">>
    BY <2>1, NotDashes, Zenon
  <2>3. IsOption(Head(argv))
    BY <1>7, <2>1 DEF IsOption, OptionNames
  <2> QED  BY <1>1, <1>7, <2>2, <2>3, Zenon
<1>8. ~(argv = Then(<<"-x">>, FileArgument(cmd)) \/ argv = Then(<<"--key">>, FileArgument(cmd)))
  <2>1. <<"-x">> \in Seq(Texts) /\ <<"--key">> \in Seq(Texts)
    BY OneIs DEF Texts
  <2>2. FileArgument(cmd) \in Arguments
    BY FileIs
  <2>3. /\ Then(<<"-x">>, FileArgument(cmd)) # <<>> /\ Head(Then(<<"-x">>, FileArgument(cmd))) = <<"-x">>
        /\ Then(<<"--key">>, FileArgument(cmd)) # <<>> /\ Head(Then(<<"--key">>, FileArgument(cmd))) = <<"--key">>
    BY <2>1, <2>2, ThenIs
  <2>4. "-x" \in {"-x", "--key", "-k"} /\ "--key" \in {"-x", "--key", "-k"}
    OBVIOUS
  <2> QED  BY <1>7, <2>3, <2>4, Zenon
<1>9. argv # <<<<"-k">>>>
  <2> SUFFICES ASSUME argv = <<<<"-k">>>> PROVE FALSE
    OBVIOUS
  <2>1. argv # <<>> /\ Head(argv) = <<"-k">>
    OBVIOUS
  <2>2. "-k" \in {"-x", "--key", "-k"}
    OBVIOUS
  <2> QED  BY <1>7, <2>1, <2>2, Zenon
<1>10. ~Stops(argv, p, cmd) \/ (TooMany(argv, cmd) /\ p = <<"key">>)
  BY <1>8, <1>9, Zenon DEF Stops
<1>11. CASE Selects(argv, n, p, m, cmd)
  <2>1. (NoMore(argv, cmd) /\ Names(n, p, m)) \/ (TooMany(argv, cmd) /\ m = Legacy)
    BY <1>11 DEF Selects
  <2> QED  BY <1>5, <1>6, <2>1, Zenon
<1> QED  BY <1>2, <1>6, <1>10, <1>11, Zenon DEF Settles

\* The arguments that are written mean the key file they are written for.
LEMMA Follows ==
  ASSUME NEW F \in Arguments, NEW a \in Seq(Texts), NEW b \in Seq(Texts)
  PROVE  <<>> \o F = F /\ <<a>> \o F = Then(a, F) /\ <<a, b>> \o F = Then(a, Then(b, F))
<1> DEFINE C == Seq(Texts)
<1>1. F \in Seq(C) /\ a \in C /\ b \in C
  BY DEF Arguments
<1> HIDE DEF C
<1>2. <<>> \o F = F
  BY <1>1
<1>3. <<a, b>> \o F = <<a>> \o (<<b>> \o F)
  <2>1. <<a>> \in Seq(C) /\ <<b>> \in Seq(C)
    BY <1>1
  <2>2. (<<a>> \o <<b>>) \o F = <<a>> \o (<<b>> \o F)
    BY <1>1, <2>1, ConcatAssociates
  <2>3. <<a>> \o <<b>> = <<a, b>>
    BY Grows2, Zenon
  <2> QED  BY <2>2, <2>3
<1> QED  BY <1>2, <1>3, Zenon DEF Then

LEMMA FollowsOne == \A F \in Arguments : \A a \in Seq(Texts) : <<a>> \o F = Then(a, F)
BY Zenon DEF Then

LEMMA FollowsTwo == \A F \in Arguments : \A a, b \in Seq(Texts) : <<a, b>> \o F = Then(a, Then(b, F))
<1> TAKE F \in Arguments
<1> TAKE a, b \in Seq(Texts)
<1> QED  BY Follows

LEMMA FollowsThree ==
  \A F \in Arguments : \A a, b, d \in Seq(Texts) : <<a, b, d>> \o F = Then(a, Then(b, Then(d, F)))
<1> TAKE F \in Arguments
<1> TAKE a, b, d \in Seq(Texts)
<1> DEFINE C == Seq(Texts)
<1>1. F \in Seq(C) /\ a \in C /\ b \in C /\ d \in C
  BY DEF Arguments
<1> HIDE DEF C
<1>4. <<a, b, d>> \o F = <<a>> \o (<<b>> \o (<<d>> \o F))
  <2>1. <<a>> \in Seq(C) /\ <<b>> \in Seq(C) /\ <<d>> \in Seq(C) /\ <<a, b>> \in Seq(C) /\ <<d>> \o F \in Seq(C)
    BY <1>1
  <2>2. (<<a, b>> \o <<d>>) \o F = <<a, b>> \o (<<d>> \o F)
    BY <1>1, <2>1, ConcatAssociates
  <2>3. (<<a>> \o <<b>>) \o (<<d>> \o F) = <<a>> \o (<<b>> \o (<<d>> \o F))
    BY <2>1, ConcatAssociates
  <2>4. <<a, b>> \o <<d>> = <<a, b, d>> /\ <<a>> \o <<b>> = <<a, b>>
    BY Grows2, Grows3, Zenon
  <2> QED  BY <2>2, <2>3, <2>4
<1> QED  BY <1>4, Zenon DEF Then

LEMMA TakesSome ==
  ASSUME NEW x \in Texts, NEW t \in Arguments
  PROVE  /\ Takes(Then(<<"-k", x>>, t), t, "name", <<x>>)
         /\ \A o \in {"--key-name", "--key-file"} : Takes(Then(<<o, "=", x>>, t), t, Sets(o), <<x>>)
         /\ \A o \in OptionNames : Takes(Then(<<o>>, Then(<<x>>, t)), t, Sets(o), <<x>>)
BY Zenon DEF Takes

LEMMA SetsIs == /\ Sets("-k") = "name" /\ Sets("--key-name") = "name" /\ Sets("--key-file") = "path"
                /\ {"-k", "--key-name", "--key-file"} = OptionNames
BY DEF Sets, OptionNames

LEMMA NamedIs == \A v, n, p : /\ Named1("name", v, n) = v /\ Placed("name", v, p) = p
                              /\ Named1("path", v, n) = n /\ Placed("path", v, p) = v
BY DEF Named1, Placed

LEMMA NameOption ==
  ASSUME NEW a, NEW t, NEW v, NEW n, NEW p, NEW m, NEW c, Takes(a, t, "name", v), Settles(t, v, p, m, c)
  PROVE  Parses(a, n, p, m, c)
<1>1. Named1("name", v, n) = v /\ Placed("name", v, p) = p
  BY NamedIs, Zenon
<1>2. Settles(t, Named1("name", v, n), Placed("name", v, p), m, c)
  BY <1>1
<1> QED  BY <1>2, Zenon DEF Parses, Parses1

LEMMA FileOptionIs ==
  ASSUME NEW a, NEW t, NEW v, NEW n, NEW p, NEW m, NEW c, Takes(a, t, "path", v), Settles(t, n, v, m, c)
  PROVE  Parses1(a, n, p, m, c)
<1>1. Named1("path", v, n) = n /\ Placed("path", v, p) = v
  BY NamedIs, Zenon
<1>2. Settles(t, Named1("path", v, n), Placed("path", v, p), m, c)
  BY <1>1
<1> QED  BY <1>2, Zenon DEF Parses1

LEMMA NameFirst ==
  ASSUME NEW a, NEW t, NEW v, NEW n, NEW p, NEW m, NEW c, Takes(a, t, "name", v), Parses1(t, v, p, m, c)
  PROVE  Parses(a, n, p, m, c)
<1>1. Named1("name", v, n) = v /\ Placed("name", v, p) = p
  BY NamedIs, Zenon
<1>2. Parses1(t, Named1("name", v, n), Placed("name", v, p), m, c)
  BY <1>1
<1> QED  BY <1>2, Zenon DEF Parses, Parses2

\* Where nothing more is to be taken.
LEMMA SettlesSome ==
  ASSUME NEW c
  PROVE  LET F == FileArgument(c)
         IN /\ \A m : Names(<<>>, <<>>, m) => Parses(F, <<>>, <<>>, m, c)
            /\ Settles(F, <<Name>>, <<>>, Internal(Name), c)
            /\ Settles(Then(<<"--">>, F), <<Name>>, <<>>, Internal(Name), c)
            /\ \A n : Settles(F, n, <<"key">>, Given, c)
            /\ Parses(Then(<<"key">>, F), <<>>, <<>>, Legacy, c)
            /\ Parses(Then(<<"--">>, Then(<<"key">>, F)), <<>>, <<>>, Legacy, c)
            /\ \A n, m : Settles(Then(<<"key">>, F), n, <<"key">>, m, c)
            /\ \A m : Parses(Then(<<"-x">>, F), <<>>, <<>>, m, c) /\ Parses(Then(<<"--key">>, F), <<>>, <<>>, m, c)
            /\ \A m : F = <<>> => Parses(<<<<"-k">>>>, <<>>, <<>>, m, c)
<1> DEFINE F == FileArgument(c)
<1>1. NoMore(F, c) /\ NoMore(Then(<<"--">>, F), c)
  BY Zenon DEF NoMore
<1>2. TooMany(Then(<<"key">>, F), c) /\ TooMany(Then(<<"--">>, Then(<<"key">>, F)), c)
  BY Zenon DEF TooMany
<1>3. Names(<<Name>>, <<>>, Internal(Name)) /\ \A n : Names(n, <<"key">>, Given)
  BY Zenon DEF Names
<1>4. \A a, n, p, m : NoMore(a, c) /\ Names(n, p, m) => Settles(a, n, p, m, c)
  BY Zenon DEF Settles, Selects
<1>5. \A a : TooMany(a, c) => Settles(a, <<>>, <<>>, Legacy, c) /\ \A n, m : Settles(a, n, <<"key">>, m, c)
  BY Zenon DEF Settles, Selects, Stops
<1>6. \A m : /\ Settles(Then(<<"-x">>, F), <<>>, <<>>, m, c) /\ Settles(Then(<<"--key">>, F), <<>>, <<>>, m, c)
             /\ F = <<>> => Settles(<<<<"-k">>>>, <<>>, <<>>, m, c)
  BY Zenon DEF Settles, Stops
<1>7. \A a, n, p, m : Settles(a, n, p, m, c) => Parses(a, n, p, m, c)
  BY Zenon DEF Parses
<1> HIDE DEF F
<1>8. /\ \A m : Names(<<>>, <<>>, m) => Parses(F, <<>>, <<>>, m, c)
      /\ Parses(Then(<<"key">>, F), <<>>, <<>>, Legacy, c)
      /\ Parses(Then(<<"--">>, Then(<<"key">>, F)), <<>>, <<>>, Legacy, c)
      /\ \A m : Parses(Then(<<"-x">>, F), <<>>, <<>>, m, c) /\ Parses(Then(<<"--key">>, F), <<>>, <<>>, m, c)
      /\ \A m : F = <<>> => Parses(<<<<"-k">>>>, <<>>, <<>>, m, c)
  BY <1>1, <1>2, <1>4, <1>5, <1>6, <1>7, Zenon
<1> QED  BY <1>1, <1>2, <1>3, <1>4, <1>5, <1>8, Zenon DEF F

LEMMA NameParses ==
  ASSUME NEW c, NEW F, F = FileArgument(c), NEW r \in {<<<<"-k", Name>>>>, <<<<"-k">>, <<Name>>>>,
                           <<<<"--key-name", "=", Name>>>>, <<<<"--key-name">>, <<Name>>>>,
                           <<<<"-k", "other">>, <<"-k", Name>>, <<"--">>>>}
  PROVE  Parses(r \o F, <<>>, <<>>, Internal(Name), c)
<1> DEFINE a1 == <<"-k", Name>>  a2 == <<"-k">>  b == <<Name>>  a3 == <<"--key-name", "=", Name>>
           a4 == <<"--key-name">>  a5 == <<"-k", "other">>  d == <<"--">>  m == Internal(Name)
<1>1. Name \in Texts /\ "other" \in Texts /\ F \in Arguments
  BY FileIs DEF Name, Texts
<1>2. /\ a1 \in Seq(Texts) /\ a2 \in Seq(Texts) /\ b \in Seq(Texts) /\ a3 \in Seq(Texts) /\ a4 \in Seq(Texts)
      /\ a5 \in Seq(Texts) /\ d \in Seq(Texts)
  <2>1. "-k" \in Texts /\ "--key-name" \in Texts /\ "=" \in Texts /\ "--" \in Texts
    BY DEF Texts
  <2>2. a1 \in Seq(Texts) /\ a5 \in Seq(Texts)
    BY <1>1, <2>1, TwoTypes
  <2>3. a2 \in Seq(Texts) /\ b \in Seq(Texts) /\ a4 \in Seq(Texts) /\ d \in Seq(Texts)
    BY <1>1, <2>1, OneIs
  <2>4. a3 \in Seq(Texts)
    BY <1>1, <2>1, ThreeTypes
  <2> QED  BY <2>2, <2>3, <2>4
<1>3. /\ Settles(F, b, <<>>, m, c) /\ Settles(Then(d, F), b, <<>>, m, c)
  BY SettlesSome, Zenon
<1>4. /\ Takes(Then(a1, F), F, "name", b)
      /\ Takes(Then(a3, F), F, "name", b)
      /\ Takes(Then(a2, Then(b, F)), F, "name", b)
      /\ Takes(Then(a4, Then(b, F)), F, "name", b)
  <2>1. "--key-name" \in {"--key-name", "--key-file"} /\ "-k" \in OptionNames /\ "--key-name" \in OptionNames
    BY DEF OptionNames
  <2>2. Sets("--key-name") = "name" /\ Sets("-k") = "name"
    BY SetsIs
  <2>3. /\ Takes(Then(a1, F), F, "name", b)
        /\ Takes(Then(a3, F), F, Sets("--key-name"), b)
        /\ Takes(Then(a2, Then(b, F)), F, Sets("-k"), b)
        /\ Takes(Then(a4, Then(b, F)), F, Sets("--key-name"), b)
    BY <1>1, <2>1, TakesSome, Zenon
  <2> QED  BY <2>2, <2>3
<1>5. /\ Takes(Then(a1, Then(d, F)), Then(d, F), "name", b)
      /\ Takes(Then(a5, Then(a1, Then(d, F))), Then(a1, Then(d, F)), "name", <<"other">>)
  <2>1. Then(d, F) \in Arguments
    BY <1>1, <1>2, ThenIs
  <2>2. Then(a1, Then(d, F)) \in Arguments
    BY <1>2, <2>1, ThenIs
  <2> QED  BY <1>1, <2>1, <2>2, TakesSome, Zenon
<1> HIDE DEF a1, a2, a3, a4, a5, b, d, m
<1>6. /\ Parses(Then(a1, F), <<>>, <<>>, m, c) /\ Parses(Then(a3, F), <<>>, <<>>, m, c)
      /\ Parses(Then(a2, Then(b, F)), <<>>, <<>>, m, c) /\ Parses(Then(a4, Then(b, F)), <<>>, <<>>, m, c)
  BY <1>3, <1>4, NameOption, Zenon
<1>7. Parses(Then(a5, Then(a1, Then(d, F))), <<>>, <<>>, m, c)
  <2>1. Parses1(Then(a1, Then(d, F)), <<"other">>, <<>>, m, c)
    <3>1. Named1("name", b, <<"other">>) = b /\ Placed("name", b, <<>>) = <<>>
      BY NamedIs, Zenon
    <3>2. Settles(Then(d, F), Named1("name", b, <<"other">>), Placed("name", b, <<>>), m, c)
      BY <1>3, <3>1
    <3> QED  BY <1>5, <3>2, Zenon DEF Parses1
  <2> QED  BY <1>5, <2>1, NameFirst, Zenon
<1>8. /\ <<a1>> \o F = Then(a1, F) /\ <<a3>> \o F = Then(a3, F)
      /\ <<a2, b>> \o F = Then(a2, Then(b, F)) /\ <<a4, b>> \o F = Then(a4, Then(b, F))
      /\ <<a5, a1, d>> \o F = Then(a5, Then(a1, Then(d, F)))
  <2>1. <<a1>> \o F = Then(a1, F) /\ <<a3>> \o F = Then(a3, F)
    BY <1>1, <1>2, FollowsOne, Zenon
  <2>2. <<a2, b>> \o F = Then(a2, Then(b, F)) /\ <<a4, b>> \o F = Then(a4, Then(b, F))
    BY <1>1, <1>2, FollowsTwo, Zenon
  <2>3. <<a5, a1, d>> \o F = Then(a5, Then(a1, Then(d, F)))
    BY <1>1, <1>2, FollowsThree, SMTT(30)
  <2> QED  BY <2>1, <2>2, <2>3, Zenon
<1>9. r \in {<<a1>>, <<a2, b>>, <<a3>>, <<a4, b>>, <<a5, a1, d>>}
  BY Zenon DEF a1, a2, a3, a4, a5, b, d
<1> HIDE DEF m
<1>10. Parses(r \o F, <<>>, <<>>, m, c)
  BY <1>6, <1>7, <1>8, <1>9, Zenon
<1> QED  BY <1>10, Zenon DEF m

LEMMA FileParses ==
  ASSUME NEW c, NEW F, F = FileArgument(c),
         NEW r \in {<<<<"--key-file", "=", "key">>>>, <<<<"--key-file">>, <<"key">>>>,
                    <<<<"-k", Name>>, <<"--key-file", "=", "key">>>>}
  PROVE  Parses(r \o F, <<>>, <<>>, Given, c)
<1> DEFINE a1 == <<"--key-file", "=", "key">>  a2 == <<"--key-file">>  b == <<"key">>  a3 == <<"-k", Name>>
           n == <<Name>>
<1>1. Name \in Texts /\ "key" \in Texts /\ F \in Arguments
  BY FileIs DEF Name, Texts
<1>2. a1 \in Seq(Texts) /\ a2 \in Seq(Texts) /\ b \in Seq(Texts) /\ a3 \in Seq(Texts)
  <2>1. "-k" \in Texts /\ "--key-file" \in Texts /\ "=" \in Texts
    BY DEF Texts
  <2>2. a3 \in Seq(Texts)
    BY <1>1, <2>1, TwoTypes
  <2>3. a2 \in Seq(Texts) /\ b \in Seq(Texts)
    BY <1>1, <2>1, OneIs
  <2>4. a1 \in Seq(Texts)
    BY <1>1, <2>1, ThreeTypes
  <2> QED  BY <2>2, <2>3, <2>4
<1>3. \A x : Settles(F, x, b, Given, c)
  BY SettlesSome, Zenon
<1>4. Takes(Then(a1, F), F, "path", b) /\ Takes(Then(a2, Then(b, F)), F, "path", b)
  <2>1. "--key-file" \in {"--key-name", "--key-file"} /\ "--key-file" \in OptionNames
    BY DEF OptionNames
  <2>2. Sets("--key-file") = "path"
    BY SetsIs
  <2>3. Takes(Then(a1, F), F, Sets("--key-file"), b) /\ Takes(Then(a2, Then(b, F)), F, Sets("--key-file"), b)
    BY <1>1, <2>1, TakesSome, Zenon
  <2> QED  BY <2>2, <2>3
<1>5. Takes(Then(a3, Then(a1, F)), Then(a1, F), "name", n)
  <2>1. Then(a1, F) \in Arguments
    BY <1>1, <1>2, ThenIs
  <2> QED  BY <1>1, <2>1, TakesSome, Zenon
<1> HIDE DEF a1, a2, a3, b, n
<1>6. \A x : Parses1(Then(a1, F), x, <<>>, Given, c) /\ Parses1(Then(a2, Then(b, F)), x, <<>>, Given, c)
  BY <1>3, <1>4, FileOptionIs, Zenon
<1>7. Parses(Then(a3, Then(a1, F)), <<>>, <<>>, Given, c)
  BY <1>5, <1>6, NameFirst, Zenon
<1>8. /\ <<a1>> \o F = Then(a1, F) /\ <<a2, b>> \o F = Then(a2, Then(b, F))
      /\ <<a3, a1>> \o F = Then(a3, Then(a1, F))
  BY <1>1, <1>2, FollowsOne, FollowsTwo, FollowsThree, ZenonT(60)
<1>9. r \in {<<a1>>, <<a2, b>>, <<a3, a1>>}
  BY Zenon DEF a1, a2, a3, b
<1>10. Parses(Then(a1, F), <<>>, <<>>, Given, c) /\ Parses(Then(a2, Then(b, F)), <<>>, <<>>, Given, c)
  BY <1>6, Zenon DEF Parses
<1> QED  BY <1>7, <1>8, <1>9, <1>10, Zenon

LEMMA OtherParses ==
  ASSUME NEW c, NEW F, F = FileArgument(c)
  PROVE  /\ \A r \in {<<<<"key">>>>, <<<<"--">>, <<"key">>>>} : Parses(r \o F, <<>>, <<>>, Legacy, c)
         /\ \A r \in {<<<<"-x">>>>, <<<<"--key">>>>, <<<<"-k">>>>, <<<<"--key-file", "=", "key">>, <<"key">>>>} :
              ~(c = "diff" /\ r = <<<<"-k">>>>) => Parses(r \o F, <<>>, <<>>, Nothing, c)
<1> DEFINE k == <<"key">>  d == <<"--">>  x == <<"-x">>  y == <<"--key">>  o == <<"-k">>
           a == <<"--key-file", "=", "key">>
<1>1. F \in Arguments /\ (c # "diff" => F = <<>>)
  BY FileIs DEF FileArgument
<1>2. /\ k \in Seq(Texts) /\ d \in Seq(Texts) /\ x \in Seq(Texts) /\ y \in Seq(Texts) /\ o \in Seq(Texts)
      /\ a \in Seq(Texts)
  <2>1. "key" \in Texts /\ "--" \in Texts /\ "-x" \in Texts /\ "--key" \in Texts /\ "-k" \in Texts
        /\ "--key-file" \in Texts /\ "=" \in Texts
    BY DEF Texts
  <2>2. k \in Seq(Texts) /\ d \in Seq(Texts) /\ x \in Seq(Texts) /\ y \in Seq(Texts) /\ o \in Seq(Texts)
    BY <2>1, OneIs
  <2>3. a \in Seq(Texts)
    BY <2>1, ThreeTypes
  <2> QED  BY <2>2, <2>3
<1>3. Parses(Then(k, F), <<>>, <<>>, Legacy, c) /\ Parses(Then(d, Then(k, F)), <<>>, <<>>, Legacy, c)
  BY SettlesSome, Zenon
<1>4. /\ Parses(Then(x, F), <<>>, <<>>, Nothing, c) /\ Parses(Then(y, F), <<>>, <<>>, Nothing, c)
      /\ Settles(Then(k, F), <<>>, k, Nothing, c)
      /\ F = <<>> => Parses(<<o>>, <<>>, <<>>, Nothing, c)
  BY SettlesSome, Zenon
<1>5. Takes(Then(a, Then(k, F)), Then(k, F), "path", k)
  <2>1. "--key-file" \in {"--key-name", "--key-file"} /\ "key" \in Texts
    BY DEF Texts
  <2>2. Sets("--key-file") = "path"
    BY SetsIs
  <2>3. Then(k, F) \in Arguments
    BY <1>1, <1>2, ThenIs
  <2>4. Takes(Then(a, Then(k, F)), Then(k, F), Sets("--key-file"), k)
    BY <2>1, <2>3, TakesSome, Zenon
  <2> QED  BY <2>2, <2>4
<1> HIDE DEF k, d, x, y, o, a
<1>6. Parses(Then(a, Then(k, F)), <<>>, <<>>, Nothing, c)
  <2>1. Parses1(Then(a, Then(k, F)), <<>>, <<>>, Nothing, c)
    BY <1>4, <1>5, FileOptionIs, Zenon
  <2> QED  BY <2>1, Zenon DEF Parses
<1>7. /\ <<k>> \o F = Then(k, F) /\ <<d, k>> \o F = Then(d, Then(k, F))
      /\ <<x>> \o F = Then(x, F) /\ <<y>> \o F = Then(y, F) /\ <<a, k>> \o F = Then(a, Then(k, F))
  <2>1. <<k>> \o F = Then(k, F) /\ <<x>> \o F = Then(x, F) /\ <<y>> \o F = Then(y, F)
    BY <1>1, <1>2, FollowsOne, Zenon
  <2>2. <<d, k>> \o F = Then(d, Then(k, F)) /\ <<a, k>> \o F = Then(a, Then(k, F))
    BY <1>1, <1>2, FollowsTwo, Zenon
  <2> QED  BY <2>1, <2>2, Zenon
<1>8. \A r \in {<<k>>, <<d, k>>} : Parses(r \o F, <<>>, <<>>, Legacy, c)
  BY <1>3, <1>7, Zenon
<1>9. F = <<>> => Parses(<<o>> \o F, <<>>, <<>>, Nothing, c)
  <2>1. <<o>> \o <<>> = <<o>>
    OBVIOUS
  <2> QED  BY <1>4, <2>1
<1>10. ASSUME NEW r \in {<<x>>, <<y>>, <<o>>, <<a, k>>}, ~(c = "diff" /\ r = <<o>>)
       PROVE  Parses(r \o F, <<>>, <<>>, Nothing, c)
  <2>1. CASE r = <<o>>
    <3>1. F = <<>>
      BY <1>1, <1>10, <2>1, Zenon
    <3> QED  BY <1>9, <2>1, <3>1, Zenon
  <2>2. CASE r # <<o>>
    BY <1>4, <1>6, <1>7, <1>10, <2>2, Zenon
  <2> QED  BY <2>1, <2>2
<1> QED  BY <1>8, <1>10, Zenon DEF k, d, x, y, o, a

\* Whatever a user writes for a key, the arguments mean that key.
LEMMA SpellingParses ==
  ASSUME NEW c, NEW sp \in Spellings, ~(c = "diff" /\ sp.args = <<<<"-k">>>>)
  PROVE  Parses(sp.args \o FileArgument(c), <<>>, <<>>, sp.means, c)
<1> DEFINE A == {<<<<"-k", Name>>>>, <<<<"-k">>, <<Name>>>>, <<<<"--key-name", "=", Name>>>>,
                 <<<<"--key-name">>, <<Name>>>>, <<<<"-k", "other">>, <<"-k", Name>>, <<"--">>>>}
           B == {<<<<"--key-file", "=", "key">>>>, <<<<"--key-file">>, <<"key">>>>,
                 <<<<"-k", Name>>, <<"--key-file", "=", "key">>>>}
           D == {<<<<"key">>>>, <<<<"--">>, <<"key">>>>}
           E == {<<<<"-x">>>>, <<<<"--key">>>>, <<<<"-k">>>>, <<<<"--key-file", "=", "key">>, <<"key">>>>}
<1>1. /\ \A r \in A : Parses(r \o FileArgument(c), <<>>, <<>>, Internal(Name), c)
      /\ \A r \in B : Parses(r \o FileArgument(c), <<>>, <<>>, Given, c)
  <2>1. ASSUME NEW r \in A PROVE Parses(r \o FileArgument(c), <<>>, <<>>, Internal(Name), c)
    BY NameParses
  <2>2. ASSUME NEW r \in B PROVE Parses(r \o FileArgument(c), <<>>, <<>>, Given, c)
    BY FileParses
  <2> QED  BY <2>1, <2>2
<1>2. /\ \A r \in D : Parses(r \o FileArgument(c), <<>>, <<>>, Legacy, c)
      /\ \A r \in E : ~(c = "diff" /\ r = <<<<"-k">>>>) => Parses(r \o FileArgument(c), <<>>, <<>>, Nothing, c)
  BY OtherParses
<1>3. \/ \E r \in A : sp = [args |-> r, means |-> Internal(Name)]
      \/ \E r \in B : sp = [args |-> r, means |-> Given]
      \/ \E r \in D : sp = [args |-> r, means |-> Legacy]
      \/ \E r \in E : sp = [args |-> r, means |-> Nothing]
  BY Zenon DEF Spellings
<1> HIDE DEF A, B, D, E
<1>4. \A r, m : sp = [args |-> r, means |-> m] => sp.args = r /\ sp.means = m
  OBVIOUS
<1>5. \/ sp.args \in A /\ sp.means = Internal(Name)
      \/ sp.args \in B /\ sp.means = Given
      \/ sp.args \in D /\ sp.means = Legacy
      \/ sp.args \in E /\ sp.means = Nothing
  BY <1>3, <1>4, Zenon
<1> QED  BY <1>1, <1>2, <1>5, Zenon

\* The arguments a filter is configured with mean the key it is configured for.
LEMMA ConfiguredParses ==
  ASSUME NEW c, NEW n \in {NoName, Name}
  PROVE  Parses(Words(n, c), <<>>, <<>>, Internal(n), c)
<1>1. CASE n = NoName
  <2>1. KeyArgument(n) = <<>>
    BY <1>1 DEF KeyArgument
  <2>2. FileArgument(c) \in Arguments
    BY FileIs
  <2>3. <<>> \o FileArgument(c) = FileArgument(c)
    BY <2>2 DEF Arguments
  <2>4. Words(n, c) = FileArgument(c)
    BY <2>1, <2>3, Zenon DEF Words
  <2>5. Names(<<>>, <<>>, Internal(NoName))
    BY Zenon DEF Names
  <2>6. Parses(FileArgument(c), <<>>, <<>>, Internal(NoName), c)
    BY <2>5, SettlesSome, Zenon
  <2> QED  BY <1>1, <2>4, <2>6, Zenon
<1>2. CASE n = Name /\ n # NoName
  <2> DEFINE r == <<<<"--key-name", "=", Name>>>>
  <2>1. KeyArgument(n) = r
    BY <1>2, Zenon DEF KeyArgument
  <2>2. r \in {<<<<"-k", Name>>>>, <<<<"-k">>, <<Name>>>>, <<<<"--key-name", "=", Name>>>>,
               <<<<"--key-name">>, <<Name>>>>, <<<<"-k", "other">>, <<"-k", Name>>, <<"--">>>>}
    BY Zenon
  <2>3. Parses(r \o FileArgument(c), <<>>, <<>>, Internal(Name), c)
    BY <2>2, NameParses
  <2> HIDE DEF r
  <2> QED  BY <1>2, <2>1, <2>3, Zenon DEF Words
<1> QED  BY <1>1, <1>2

LEMMA WordsType ==
  ASSUME NEW c, NEW n \in {NoName, Name}
  PROVE  Words(n, c) \in Arguments
<1>1. FileArgument(c) \in Arguments
  BY FileIs
<1>2. KeyArgument(n) \in Arguments
  <2> DEFINE a == <<"--key-name", "=", Name>>
  <2>1. a \in Seq(Texts)
    BY ThreeTypes DEF Texts, Name
  <2>2. KeyArgument(n) = <<>> \/ KeyArgument(n) = <<a>>
    BY Zenon DEF KeyArgument
  <2> HIDE DEF a
  <2>3. <<>> \in Arguments /\ <<a>> \in Arguments
    BY <2>1 DEF Arguments
  <2> QED  BY <2>2, <2>3
<1> QED  BY <1>1, <1>2 DEF Words, Arguments

-----------------------------------------------------------------------------
(* load_key.                                                               *)

LEMMA WholeFile ==
  ASSUME stage = "load", cmd \in Filters, NEW s, NEW n,
         NEW f \in (IF chosen.by = "legacy" THEN {OldFile(s)}
                    ELSE Written(n, s) \cup {Added(g, 2) : g \in Written(n, s)})
  PROVE  \E m : (IF chosen.by = "legacy" THEN LoadLegacy(f) ELSE Load(f)) = LoadedKey(m, 0, s)
<1>1. CASE chosen.by = "legacy"
  BY <1>1, OldFileLoads, Zenon
<1>2. CASE chosen.by # "legacy"
  <2>1. f \in {Store(NewKey(n, s))} \cup {Added(g, 2) : g \in {Store(NewKey(n, s))}}
    BY <1>2, WrittenIs, Zenon
  <2>2. f = Store(NewKey(n, s)) \/ f = Added(Store(NewKey(n, s)), 2)
    BY <2>1, Zenon
  <2> QED  BY <1>2, <2>2, NewFileLoads, AddedLoads, Zenon
<1> QED  BY <1>1, <1>2

LEMMA UnwholeFile ==
  ASSUME NEW s, NEW n,
         NEW f \in (IF chosen.by = "legacy" THEN UnwholeLegacy(s) ELSE Unwhole(n, s))
  PROVE  Useless(IF chosen.by = "legacy" THEN LoadLegacy(f) ELSE Load(f))
<1>1. CASE chosen.by = "legacy"
  <2>1. f \in Cuts(OldFile(s)) \/ f = OldFile(s) \o <<Bytes(s, 1)>> \/ f = Store(NewKey(NoName, s))
    BY <1>1, Zenon DEF UnwholeLegacy
  <2>2. f \in Cuts(OldFile(s)) => Useless(LoadLegacy(f))
    BY OldFileCut
  <2> QED  BY <1>1, <2>1, <2>2, LegacyFails, Zenon
<1>2. CASE chosen.by # "legacy"
  <2>1. \/ f \in Cuts(Store(NewKey(n, s))) \/ f = Added(Store(NewKey(n, s)), 7)
        \/ f = [Store(NewKey(n, s)) EXCEPT ![2] = U32(3)]
    BY <1>2, Zenon DEF Unwhole
  <2>2. f \in Cuts(Store(NewKey(n, s))) => Useless(Load(f))
    BY NewFileCut
  <2>3. Useless(Load(f))
    BY <2>1, <2>2, AddedFails, LaterFails, Zenon DEF Useless
  <2> QED  BY <1>2, <2>3, Zenon
<1> QED  BY <1>1, <1>2

\* The latest version of a key with one version is that version, 0.
LEMMA VersionIs ==
  ASSUME NEW m, NEW s, NEW c
  PROVE  Version(LoadedKey(m, 0, s), c) = 0
<1> DEFINE k == KeyOf(m, OneEntry(0, s))
<1>1. k.entries = OneEntry(0, s)
  BY DEF KeyOf
<1>2. DOMAIN k.entries = {0}
  BY <1>1, OneEntryIs
<1> HIDE DEF k
<1>3. Latest(k) = 0
  <2>1. \A w \in {0} : w <= 0
    OBVIOUS
  <2>2. 0 \in DOMAIN k.entries /\ \A w \in DOMAIN k.entries : w <= 0
    BY <1>2, <2>1
  <2>3. Latest(k) \in DOMAIN k.entries
    BY <2>2, Zenon DEF Latest
  <2> QED  BY <1>2, <2>3
<1>4. LoadedKey(m, 0, s).key = k
  BY DEF LoadedKey, k
<1> QED  BY <1>3, <1>4, Zenon DEF Version

\* Of a whole file the entry is used, of another one nothing.
LEMMA LoadKeyLoads ==
  ASSUME NEW f, NEW s, NEW m, LoadKey(f, s, TRUE),
         (IF chosen.by = "legacy" THEN LoadLegacy(f) ELSE Load(f)) = LoadedKey(m, 0, s)
  PROVE  stage' = "loaded" /\ used' = [aes |-> s, hmac |-> s] /\ code' = code
<1> DEFINE l == IF chosen.by = "legacy" THEN LoadLegacy(f) ELSE Load(f)
           none == \/ l.error # "none" \/ l.key.entries = NoEntries
                   \/ Version(l, cmd) \notin DOMAIN l.key.entries
<1>1. IF none THEN stage' = "ended" /\ code' \in {"key", "plain"} /\ UNCHANGED used
      ELSE stage' = "loaded" /\ used' = l.key.entries[Version(l, cmd)] /\ UNCHANGED code
  BY Zenon DEF LoadKey
<1>2. l = LoadedKey(m, 0, s)
  BY Zenon
<1> HIDE DEF l
<1>3. l.error = "none" /\ l.key.entries = OneEntry(0, s)
  BY <1>2 DEF LoadedKey, KeyOf
<1>4. Version(l, cmd) = 0
  BY <1>2, VersionIs
<1>5. /\ OneEntry(0, s) # NoEntries /\ 0 \in DOMAIN OneEntry(0, s)
      /\ OneEntry(0, s)[0] = [aes |-> s, hmac |-> s]
  BY OneEntryIs
<1>6. ~none
  BY <1>3, <1>4, <1>5, Zenon
<1>7. l.key.entries[Version(l, cmd)] = [aes |-> s, hmac |-> s]
  BY <1>3, <1>4, <1>5, Zenon
<1> HIDE DEF none
<1> QED  BY <1>1, <1>6, <1>7, Zenon

LEMMA LoadKeyRefuses ==
  ASSUME NEW f, NEW s, NEW b, LoadKey(f, s, b),
         Useless(IF chosen.by = "legacy" THEN LoadLegacy(f) ELSE Load(f))
  PROVE  stage' = "ended" /\ code' \in {"key", "plain"} /\ used' = used
<1> DEFINE l == IF chosen.by = "legacy" THEN LoadLegacy(f) ELSE Load(f)
           none == \/ l.error # "none" \/ l.key.entries = NoEntries
                   \/ Version(l, cmd) \notin DOMAIN l.key.entries
<1>1. IF none THEN stage' = "ended" /\ code' \in {"key", "plain"} /\ UNCHANGED used
      ELSE stage' = "loaded" /\ used' = l.key.entries[Version(l, cmd)] /\ UNCHANGED code
  BY Zenon DEF LoadKey
<1>2. none
  BY Zenon DEF Useless
<1> HIDE DEF none
<1> QED  BY <1>1, <1>2, Zenon

\* What is read of a key file, whole or not.
LEMMA ReadKeyReads ==
  ASSUME NEW s, ReadKey(s), cmd \in Filters
  PROVE  /\ stage = "load" /\ wanted' = [wanted EXCEPT ![cmd] = s]
         /\ UNCHANGED <<stream, path, conf, argv, cmd, asked, options, chosen>>
         /\ \/ stage' = "loaded" /\ used' = [aes |-> s, hmac |-> s] /\ code' = code
            \/ stage' = "ended" /\ code' \in {"key", "plain"} /\ whole' = FALSE /\ used' = used
<1> DEFINE n == IF chosen.by = "name" THEN chosen.at ELSE NoName
           W == IF chosen.by = "legacy" THEN {OldFile(s)}
                ELSE Written(n, s) \cup {Added(f, 2) : f \in Written(n, s)}
           U == IF chosen.by = "legacy" THEN UnwholeLegacy(s) ELSE Unwhole(n, s)
<1>1. (\E f \in W : LoadKey(f, s, TRUE)) \/ (\E f \in U : LoadKey(f, s, FALSE))
  BY Zenon DEF ReadKey
<1>2. \A f, b : LoadKey(f, s, b) => /\ stage = "load" /\ wanted' = [wanted EXCEPT ![cmd] = s] /\ whole' = b
                                    /\ UNCHANGED <<stream, path, conf, argv, cmd, asked, options, chosen>>
  BY Zenon DEF LoadKey
<1>3. CASE \E f \in W : LoadKey(f, s, TRUE)
  <2>1. PICK f \in W : LoadKey(f, s, TRUE)
    BY <1>3
  <2>2. \E m : (IF chosen.by = "legacy" THEN LoadLegacy(f) ELSE Load(f)) = LoadedKey(m, 0, s)
    BY <1>2, <2>1, WholeFile
  <2>3. stage' = "loaded" /\ used' = [aes |-> s, hmac |-> s] /\ code' = code
    BY <2>1, <2>2, LoadKeyLoads
  <2> QED  BY <1>2, <2>1, <2>3, Zenon
<1>4. CASE \E f \in U : LoadKey(f, s, FALSE)
  <2>1. PICK f \in U : LoadKey(f, s, FALSE)
    BY <1>4
  <2>2. Useless(IF chosen.by = "legacy" THEN LoadLegacy(f) ELSE Load(f))
    BY <2>1, UnwholeFile
  <2>3. stage' = "ended" /\ code' \in {"key", "plain"} /\ used' = used
    BY <2>1, <2>2, LoadKeyRefuses
  <2> QED  BY <1>2, <2>1, <2>3, Zenon
<1> QED  BY <1>1, <1>3, <1>4

-----------------------------------------------------------------------------
(* The invariant of a run.                                                 *)

\* Where the run is, and where the stream is.
Phases ==
  /\ stage # "run" => pc \in {"load", "stored"}
  /\ stage \in {"main", "options", "load", "loaded"} /\ cmd \in Filters => Due(cmd)
  /\ stage \in {"options", "load", "loaded", "run"} => cmd \in Filters
  /\ stage = "run" /\ cmd = "clean" => pc \in {"read", "encrypt", "failed"}
  /\ stage = "run" /\ cmd # "clean" => pc \in {"copy", "decrypt", "smudged", "failed"}
  /\ code # "none" => stage = "ended"
  /\ code \in {"key", "plain"} => ~whole

\* Nothing is taken for an option that is none, and what is left to be read still
\* means the key that is meant.
Given1(c, m, x) == c \in Filters => Parses(x, <<>>, <<>>, m, c)

Means ==
  /\ IsOptions(options)
  /\ stage \in {"idle", "main"} => options = [by \in Slots |-> <<>>]
  /\ stage = "main" => \E x \in Arguments : argv = <<path, <<cmd>>>> \o x /\ Given1(cmd, asked, x)
  /\ stage = "options" => Read2(asked)
  /\ stage \in {"load", "loaded"} => chosen = asked

\* The secrets: of the key file that was read, of the filter that runs, of the blob.
KeyUsed ==
  /\ wanted = [c \in Filters |-> wanted[c]]
  /\ stage = "loaded" => used.aes = wanted[cmd] /\ used.hmac = wanted[cmd] /\ used.aes \in Secrets

SecretsMatch ==
  /\ pc \in {"read", "encrypt"} => secret = wanted["clean"]
  /\ pc \in {"stored", "copy", "decrypt", "smudged"} /\ ~damaged => blob.nonce.secret = wanted["clean"]
  /\ pc \in {"copy", "decrypt", "smudged"} => secret = wanted[cmd]

RunInv == Configured /\ ConfiguredRuns /\ Phases /\ Means /\ KeyUsed /\ SecretsMatch

LEMMA StreamSame ==
  ASSUME UNCHANGED stream
  PROVE  /\ pc' = pc /\ secret' = secret /\ blob' = blob /\ damaged' = damaged
         /\ \A c : Due(c)' = Due(c)
<1>1. pc' = pc /\ secret' = secret /\ blob' = blob /\ damaged' = damaged
  BY DEF stream, vars, reading, cipher
<1> QED  BY <1>1 DEF Due

LEMMA ConfiguredKept ==
  ASSUME Configured, conf' = conf, path' = path, asked' = asked
  PROVE  Configured'
BY Zenon DEF Configured

LEMMA SecretsKept ==
  ASSUME Phases, SecretsMatch, stage # "run", UNCHANGED stream, wanted' = wanted
  PROVE  SecretsMatch'
<1>1. pc' = pc /\ secret' = secret /\ blob' = blob /\ damaged' = damaged
  BY StreamSame
<1>2. pc \in {"load", "stored"}
  BY DEF Phases
<1> QED  BY <1>1, <1>2 DEF SecretsMatch

LEMMA StartRunInv == FilterRunInit => RunInv
<1> SUFFICES ASSUME FilterRunInit PROVE RunInv
  OBVIOUS
<1>1. pc = "load" /\ stage = "idle" /\ conf = NoCommand /\ code = "none" /\ wanted = NoSecret
      /\ options = [by \in {"name", "path"} |-> <<>>]
  BY DEF FilterRunInit, Init
<1>2. Configured /\ ConfiguredRuns
  BY <1>1 DEF Configured, ConfiguredRuns
<1>3. Phases /\ SecretsMatch
  BY <1>1 DEF Phases, SecretsMatch
<1>4. Means /\ KeyUsed
  BY <1>1 DEF Means, KeyUsed, IsOptions, Slots, NoSecret
<1> QED  BY <1>2, <1>3, <1>4 DEF RunInv

LEMMA ConfigureRunInv ==
  ASSUME RunInv, NEW p \in Paths, NEW n \in {NoName, Name}, NEW w \in BOOLEAN, Configure(p, n, w)
  PROVE  RunInv'
<1>1. /\ stage = "idle" /\ UNCHANGED <<stream, stage, argv, cmd, options, chosen, wanted, used, whole, code>>
  BY Zenon DEF Configure
<1>2. Configured'
  BY ConfigureConfigures
<1>3. ConfiguredRuns'
  BY <1>1 DEF ConfiguredRuns
<1>4. Phases'
  BY <1>1, StreamSame DEF RunInv, Phases, Due
<1>5. Means'
  BY <1>1 DEF RunInv, Means
<1>6. KeyUsed'
  BY <1>1 DEF RunInv, KeyUsed
<1>7. SecretsMatch'
  BY <1>1, SecretsKept DEF RunInv
<1> QED  BY <1>2, <1>3, <1>4, <1>5, <1>6, <1>7 DEF RunInv

LEMMA GitRunsRunInv ==
  ASSUME RunInv, NEW c \in Filters, GitRuns(c)
  PROVE  RunInv'
<1>1. /\ stage = "idle" /\ Due(c) /\ cmd' = c /\ stage' = "main"
      /\ UNCHANGED <<stream, path, conf, asked, options, chosen, wanted, used, whole, code>>
  BY Zenon DEF GitRuns
<1>2. PICK n \in {NoName, Name} : /\ asked = Internal(n)
                                  /\ argv' = <<path, <<c>>>> \o KeyArgument(n) \o FileArgument(c)
  BY GitRunsIt DEF RunInv
<1>3. asked.at = n
  BY <1>2 DEF Internal
<1>4. Configured'
  BY <1>1, ConfiguredKept DEF RunInv
<1>5. ConfiguredRuns'
  <2>1. argv' = <<path', <<cmd'>>>> \o KeyArgument(asked'.at) \o FileArgument(cmd')
    BY <1>1, <1>2, <1>3, Zenon
  <2> QED  BY <2>1, Zenon DEF ConfiguredRuns, KeyArgument, FileArgument
<1>6. Phases'
  BY <1>1, StreamSame DEF RunInv, Phases, Due
<1>7. Means'
  <2>1. argv' = <<path', <<cmd'>>>> \o Words(n, c)
    BY <1>1, <1>2, WordsAre, Zenon
  <2>2. Given1(cmd', asked', Words(n, c))
    BY <1>1, <1>2, ConfiguredParses, Zenon DEF Given1
  <2>3. Words(n, c) \in Arguments
    BY WordsType
  <2>4. IsOptions(options') /\ options' = [by \in Slots |-> <<>>]
    BY <1>1 DEF RunInv, Means
  <2> QED  BY <1>1, <2>1, <2>2, <2>3, <2>4, Zenon DEF Means
<1>8. KeyUsed'
  BY <1>1 DEF RunInv, KeyUsed
<1>9. SecretsMatch'
  BY <1>1, SecretsKept DEF RunInv
<1> QED  BY <1>4, <1>5, <1>6, <1>7, <1>8, <1>9 DEF RunInv

LEMMA SpellingType ==
  ASSUME NEW sp \in Spellings
  PROVE  sp.args \in Arguments
<1> DEFINE a1 == <<"-k", Name>>  a2 == <<"-k">>  b == <<Name>>  a3 == <<"--key-name", "=", Name>>
           a4 == <<"--key-name">>  a5 == <<"-k", "other">>  d == <<"--">>
           f1 == <<"--key-file", "=", "key">>  f2 == <<"--key-file">>  k == <<"key">>  x == <<"-x">>
           y == <<"--key">>
           S == {<<a1>>, <<a2, b>>, <<a3>>, <<a4, b>>, <<a5, a1, d>>, <<f1>>, <<f2, k>>, <<a1, f1>>, <<k>>,
                 <<d, k>>, <<x>>, <<y>>, <<a2>>, <<f1, k>>}
<1>1. sp.args \in S
  <2>1. \A s \in Spellings : \E r \in S : \E m : s = [args |-> r, means |-> m]
    BY Zenon DEF Spellings
  <2> HIDE DEF S
  <2>2. \A r, m : sp = [args |-> r, means |-> m] => sp.args = r
    OBVIOUS
  <2> QED  BY <2>1, <2>2, Zenon
<1>2. /\ a1 \in Seq(Texts) /\ a5 \in Seq(Texts) /\ a3 \in Seq(Texts) /\ f1 \in Seq(Texts)
      /\ a2 \in Seq(Texts) /\ b \in Seq(Texts) /\ a4 \in Seq(Texts) /\ d \in Seq(Texts) /\ f2 \in Seq(Texts)
      /\ k \in Seq(Texts) /\ x \in Seq(Texts) /\ y \in Seq(Texts)
  <2>1. /\ "-k" \in Texts /\ "--key-name" \in Texts /\ "=" \in Texts /\ "--" \in Texts /\ "other" \in Texts
        /\ Name \in Texts /\ "--key-file" \in Texts /\ "key" \in Texts /\ "-x" \in Texts /\ "--key" \in Texts
    BY DEF Texts, Name
  <2>2. a1 \in Seq(Texts) /\ a5 \in Seq(Texts)
    BY <2>1, TwoTypes
  <2>3. a3 \in Seq(Texts) /\ f1 \in Seq(Texts)
    BY <2>1, ThreeTypes
  <2>4. a2 \in Seq(Texts) /\ b \in Seq(Texts) /\ a4 \in Seq(Texts) /\ d \in Seq(Texts) /\ f2 \in Seq(Texts)
    BY <2>1, OneIs
  <2>5. k \in Seq(Texts) /\ x \in Seq(Texts) /\ y \in Seq(Texts)
    BY <2>1, OneIs
  <2> QED  BY <2>2, <2>3, <2>4, <2>5
<1> HIDE DEF a1, a2, a3, a4, a5, b, d, f1, f2, k, x, y
<1> DEFINE C == Seq(Texts)
<1>7. /\ a1 \in C /\ a5 \in C /\ a3 \in C /\ f1 \in C /\ a2 \in C /\ b \in C /\ a4 \in C /\ d \in C
      /\ f2 \in C /\ k \in C /\ x \in C /\ y \in C
  BY <1>2
<1> HIDE DEF C
<1>3. \A u \in C : <<u>> \in Seq(C)
  OBVIOUS
<1>4. \A u, v \in C : <<u, v>> \in Seq(C)
  OBVIOUS
<1>5. \A u, v, z \in C : <<u, v, z>> \in Seq(C)
  OBVIOUS
<1>6. S \subseteq Seq(C)
  <2>1. <<a1>> \in Seq(C) /\ <<a3>> \in Seq(C) /\ <<f1>> \in Seq(C) /\ <<k>> \in Seq(C)
    BY <1>3, <1>7, Zenon
  <2>2. <<x>> \in Seq(C) /\ <<y>> \in Seq(C) /\ <<a2>> \in Seq(C)
    BY <1>3, <1>7, Zenon
  <2>3. <<a2, b>> \in Seq(C) /\ <<a4, b>> \in Seq(C) /\ <<f2, k>> \in Seq(C)
    BY <1>4, <1>7, Zenon
  <2>4. <<a1, f1>> \in Seq(C) /\ <<d, k>> \in Seq(C) /\ <<f1, k>> \in Seq(C)
    BY <1>4, <1>7, Zenon
  <2>5. <<a5, a1, d>> \in Seq(C)
    BY <1>5, <1>7, Zenon
  <2> QED  BY <2>1, <2>2, <2>3, <2>4, <2>5, Zenon
<1> HIDE DEF S
<1> QED  BY <1>1, <1>6, Zenon DEF C, Arguments

LEMMA UserRunsRunInv ==
  ASSUME RunInv, NEW c \in Filters \cup {"encrypt"}, NEW sp \in Spellings, UserRuns(c, sp)
  PROVE  RunInv'
<1>1. /\ stage = "idle" /\ conf = NoCommand /\ (c \in Filters => Due(c)) /\ cmd' = c /\ stage' = "main"
      /\ asked' = sp.means /\ ~(c = "diff" /\ sp.args = <<<<"-k">>>>)
      /\ argv' = <<path', <<c>>>> \o sp.args \o FileArgument(c)
      /\ UNCHANGED <<stream, conf, options, chosen, wanted, used, whole, code>>
  BY Zenon DEF UserRuns, FileArgument
<1>2. Configured'
  BY <1>1, Zenon DEF Configured
<1>3. ConfiguredRuns'
  BY <1>1, Zenon DEF ConfiguredRuns
<1>4. Phases'
  BY <1>1, StreamSame DEF RunInv, Phases, Due
<1>5. Means'
  <2> DEFINE x == sp.args \o FileArgument(c)
  <2>1. sp.args \in Arguments /\ FileArgument(c) \in Arguments
    BY SpellingType, FileIs
  <2>2. x \in Arguments
    BY <2>1 DEF Arguments
  <2>3. argv' = <<path', <<cmd'>>>> \o x
    <3> DEFINE D == Seq(Texts) \cup {path', <<c>>}  u == <<path', <<c>>>>  r == sp.args  f == FileArgument(c)
    <3>1. u \in Seq(D)
      OBVIOUS
    <3>2. r \in Seq(D) /\ f \in Seq(D)
      <4>1. \A a \in Seq(Seq(Texts)) : a \in Seq(D)
        OBVIOUS
      <4> QED  BY <2>1, <4>1 DEF Arguments
    <3> HIDE DEF D, u, r, f
    <3>3. (u \o r) \o f = u \o (r \o f)
      BY <3>1, <3>2, ConcatAssociates
    <3> QED  BY <1>1, <3>3, Zenon DEF u, r, f
  <2>4. Given1(cmd', asked', x)
    BY <1>1, SpellingParses, Zenon DEF Given1
  <2>5. IsOptions(options') /\ options' = [by \in Slots |-> <<>>]
    BY <1>1 DEF RunInv, Means
  <2> HIDE DEF x
  <2> QED  BY <1>1, <2>2, <2>3, <2>4, <2>5, Zenon DEF Means
<1>6. KeyUsed'
  BY <1>1 DEF RunInv, KeyUsed
<1>7. SecretsMatch'
  BY <1>1, SecretsKept DEF RunInv
<1> QED  BY <1>2, <1>3, <1>4, <1>5, <1>6, <1>7 DEF RunInv

\* An error in the arguments ends the run.
LEMMA ExitRunInv ==
  ASSUME RunInv, stage \in {"main", "options"}, Exit("usage")
  PROVE  RunInv'
<1>1. /\ stage' = "ended" /\ code' = "usage"
      /\ UNCHANGED <<stream, path, conf, argv, cmd, asked, options, chosen, wanted, used, whole>>
  BY Zenon DEF Exit
<1>2. Configured'
  BY <1>1, ConfiguredKept DEF RunInv
<1>3. ConfiguredRuns' /\ Means' /\ KeyUsed'
  BY <1>1 DEF RunInv, ConfiguredRuns, Means, KeyUsed
<1>4. Phases'
  BY <1>1, StreamSame DEF RunInv, Phases, Due
<1>5. SecretsMatch'
  BY <1>1, SecretsKept DEF RunInv
<1> QED  BY <1>2, <1>3, <1>4, <1>5 DEF RunInv

\* main takes the name of git-crypt and of the command away.
LEMMA BehindCommand ==
  ASSUME NEW p, NEW c, NEW x \in Arguments
  PROVE  LET a == <<p, <<c>>>> \o x IN a[2] = <<c>> /\ SubSeq(a, 3, Len(a)) = x
<1> DEFINE b == <<c>>  D == Seq(Texts) \cup {p, b}
<1>1. p \in D /\ b \in D
  OBVIOUS
<1>2. x \in Seq(D)
  <2>1. \A r \in Seq(Seq(Texts)) : r \in Seq(D)
    OBVIOUS
  <2> QED  BY <2>1 DEF Arguments
<1> HIDE DEF b, D
<1>3. <<p, b>> \o x = Then(p, Then(b, x))
  <2>1. <<p>> \in Seq(D) /\ <<b>> \in Seq(D)
    BY <1>1
  <2>2. (<<p>> \o <<b>>) \o x = <<p>> \o (<<b>> \o x)
    BY <1>2, <2>1, ConcatAssociates
  <2>3. <<p>> \o <<b>> = <<p, b>>
    BY Grows2, Zenon
  <2> QED  BY <2>2, <2>3, Zenon DEF Then
<1>4. LET a == Then(p, Then(b, x)) IN a[2] = b /\ SubSeq(a, 3, Len(a)) = x
  BY <1>1, <1>2, BeforeTwo
<1> QED  BY <1>3, <1>4, Zenon DEF b

LEMMA DispatchRunInv ==
  ASSUME RunInv, Dispatch
  PROVE  RunInv'
<1>1. PICK x \in Arguments : argv = <<path, <<cmd>>>> \o x /\ Given1(cmd, asked, x)
  BY DEF RunInv, Means, Dispatch
<1>2. argv[2] = <<cmd>> /\ SubSeq(argv, 3, Len(argv)) = x
  BY <1>1, BehindCommand, Zenon
<1>3. CASE argv[2] \in {<<c>> : c \in Filters}
  <2>1. /\ stage = "main" /\ argv' = x /\ stage' = "options"
        /\ UNCHANGED <<stream, path, conf, cmd, asked, options, chosen, wanted, used, whole, code>>
    BY <1>2, <1>3, Zenon DEF Dispatch
  <2>2. cmd \in Filters
    <3>1. PICK c \in Filters : <<cmd>> = <<c>>
      BY <1>2, <1>3
    <3>2. cmd = c
      BY <3>1
    <3> QED  BY <3>2
  <2>3. Configured'
    BY <2>1, ConfiguredKept DEF RunInv
  <2>4. ConfiguredRuns'
    BY <2>1 DEF ConfiguredRuns
  <2>5. Phases'
    BY <2>1, <2>2, StreamSame DEF RunInv, Phases, Due
  <2>6. Means'
    <3>1. IsOptions(options') /\ options'["name"] = <<>> /\ options'["path"] = <<>>
      BY <2>1 DEF RunInv, Means, Slots
    <3>2. Parses(x, <<>>, <<>>, asked, cmd)
      BY <1>1, <2>2 DEF Given1
    <3>3. Read2(asked)'
      BY <2>1, <3>1, <3>2, Zenon DEF Read2
    <3> QED  BY <2>1, <3>1, <3>3 DEF Means
  <2>7. KeyUsed'
    BY <2>1 DEF RunInv, KeyUsed
  <2>8. SecretsMatch'
    BY <2>1, SecretsKept DEF RunInv
  <2> QED  BY <2>3, <2>4, <2>5, <2>6, <2>7, <2>8 DEF RunInv
<1>4. CASE argv[2] \notin {<<c>> : c \in Filters}
  <2>1. stage = "main" /\ Exit("usage")
    BY <1>4, Zenon DEF Dispatch
  <2> QED  BY <2>1, ExitRunInv
<1> QED  BY <1>3, <1>4

LEMMA OptionRunInv ==
  ASSUME RunInv, Option
  PROVE  RunInv'
<1>1. /\ stage = "options"
      /\ UNCHANGED <<stream, stage, path, conf, cmd, asked, chosen, wanted, used, whole, code>>
  BY Zenon DEF Option
<1>2. IsOptions(options') /\ Read2(asked)'
  <2>1. IsOptions(options) /\ Read2(asked)
    BY <1>1 DEF RunInv, Means
  <2> DEFINE m == asked
  <2>2. m' = m
    BY <1>1
  <2> HIDE DEF m
  <2>3. Read2(m) /\ m = asked
    BY <2>1 DEF m
  <2>4. \A z : Read2(z) => IsOptions(options') /\ Parses(argv', options'["name"], options'["path"], z, cmd')
    <3> TAKE z
    <3> SUFFICES ASSUME Read2(z) PROVE IsOptions(options') /\ Parses(argv', options'["name"], options'["path"], z, cmd')
      OBVIOUS
    <3>1. IsOptions(options') /\ Read2(z)'
      BY <2>1, OptionReads
    <3> QED  BY <3>1, Zenon DEF Read2
  <2> QED  BY <1>1, <2>1, <2>4, Zenon DEF Read2
<1>3. Configured'
  BY <1>1, ConfiguredKept DEF RunInv
<1>4. ConfiguredRuns'
  BY <1>1 DEF ConfiguredRuns
<1>5. Phases'
  BY <1>1, StreamSame DEF RunInv, Phases, Due
<1>6. Means'
  BY <1>1, <1>2 DEF RunInv, Means
<1>7. KeyUsed'
  BY <1>1 DEF RunInv, KeyUsed
<1>8. SecretsMatch'
  BY <1>1, SecretsKept DEF RunInv
<1> QED  BY <1>3, <1>4, <1>5, <1>6, <1>7, <1>8 DEF RunInv

LEMMA OptionErrorRunInv ==
  ASSUME RunInv, OptionError
  PROVE  RunInv'
<1>1. stage = "options" /\ Exit("usage")
  BY Zenon DEF OptionError
<1> QED  BY <1>1, ExitRunInv

LEMMA SelectKeyRunInv ==
  ASSUME RunInv, SelectKey
  PROVE  RunInv'
<1>1. stage = "options" /\ UNCHANGED <<stream, path, conf, cmd, asked, options, wanted, used, whole>>
  BY SelectKeyIs
<1>2. Read2(asked)
  BY <1>1 DEF RunInv, Means
<1>3. \/ stage' = "load" /\ code' = code /\ chosen' = asked
      \/ stage' = "ended" /\ code' = "usage"
  <2>1. \A z : Read2(z) => \/ stage' = "load" /\ code' = code /\ chosen' = z
                           \/ stage' = "ended" /\ code' = "usage"
    BY SelectKeyReads
  <2> QED  BY <1>2, <2>1, Zenon
<1>4. Configured'
  BY <1>1, ConfiguredKept DEF RunInv
<1>5. ConfiguredRuns'
  BY <1>3 DEF ConfiguredRuns
<1>6. Phases'
  BY <1>1, <1>3, StreamSame DEF RunInv, Phases, Due
<1>7. Means'
  BY <1>1, <1>3 DEF RunInv, Means
<1>8. KeyUsed'
  BY <1>1, <1>3 DEF RunInv, KeyUsed
<1>9. SecretsMatch'
  BY <1>1, SecretsKept DEF RunInv
<1> QED  BY <1>4, <1>5, <1>6, <1>7, <1>8, <1>9 DEF RunInv

LEMMA ReadKeyRunInv ==
  ASSUME RunInv, NEW s \in Secrets, ReadKey(s)
  PROVE  RunInv'
<1>1. stage = "load" /\ cmd \in Filters
  <2>1. stage = "load"
    BY Zenon DEF ReadKey, LoadKey
  <2> QED  BY <2>1 DEF RunInv, Phases
<1>2. /\ wanted' = [wanted EXCEPT ![cmd] = s]
      /\ UNCHANGED <<stream, path, conf, argv, cmd, asked, options, chosen>>
      /\ \/ stage' = "loaded" /\ used' = [aes |-> s, hmac |-> s] /\ code' = code
         \/ stage' = "ended" /\ code' \in {"key", "plain"} /\ whole' = FALSE /\ used' = used
  BY <1>1, ReadKeyReads
<1>3. Configured'
  BY <1>2, ConfiguredKept DEF RunInv
<1>4. ConfiguredRuns'
  BY <1>2 DEF ConfiguredRuns
<1>5. Phases'
  BY <1>1, <1>2, StreamSame DEF RunInv, Phases, Due
<1>6. Means'
  BY <1>1, <1>2 DEF RunInv, Means
<1>7. wanted' = [c \in Filters |-> wanted'[c]] /\ wanted'[cmd] = s /\ (cmd # "clean" => wanted'["clean"] = wanted["clean"])
  BY <1>1, <1>2 DEF RunInv, KeyUsed, Filters
<1>8. KeyUsed'
  BY <1>2, <1>7 DEF KeyUsed
<1>9. SecretsMatch'
  <2>1. pc' = pc /\ secret' = secret /\ blob' = blob /\ damaged' = damaged
    BY <1>2, StreamSame
  <2>2. pc = IF cmd = "clean" THEN "load" ELSE "stored"
    BY <1>1 DEF RunInv, Phases, Due
  <2>3. cmd # "clean" /\ ~damaged => blob.nonce.secret = wanted["clean"]
    BY <2>2 DEF RunInv, SecretsMatch
  <2> QED  BY <1>7, <2>1, <2>2, <2>3 DEF SecretsMatch
<1> QED  BY <1>3, <1>4, <1>5, <1>6, <1>8, <1>9 DEF RunInv

LEMMA StartFilterRunInv ==
  ASSUME RunInv, StartFilter
  PROVE  RunInv'
<1>1. /\ stage = "loaded" /\ stage' = "run" /\ cmd \in Filters /\ Due(cmd) /\ code = "none"
      /\ UNCHANGED <<path, conf, argv, cmd, asked, options, chosen, wanted, used, whole, code>>
  BY DEF StartFilter, RunInv, Phases
<1>2. Configured'
  BY <1>1, ConfiguredKept DEF RunInv
<1>3. ConfiguredRuns' /\ KeyUsed'
  BY <1>1 DEF ConfiguredRuns, RunInv, KeyUsed
<1>4. Means'
  BY <1>1 DEF RunInv, Means
<1>5. used.aes = wanted[cmd]
  BY <1>1 DEF RunInv, KeyUsed
<1>6. CASE cmd = "clean"
  <2>1. secret' = used.aes /\ pc' = "read"
    BY <1>6, Zenon DEF StartFilter, StartClean
  <2>2. Phases'
    BY <1>1, <1>6, <2>1 DEF Phases
  <2>3. SecretsMatch'
    BY <1>1, <1>5, <1>6, <2>1 DEF SecretsMatch
  <2> QED  BY <1>2, <1>3, <1>4, <2>2, <2>3 DEF RunInv
<1>7. CASE cmd # "clean"
  <2>1. secret' = used.aes /\ pc' \in {"decrypt", "copy"} /\ pc = "stored" /\ blob' = blob /\ damaged' = damaged
    BY <1>7 DEF StartFilter, StartSmudge
  <2>2. Phases'
    BY <1>1, <1>7, <2>1 DEF Phases
  <2>3. SecretsMatch'
    <3>1. ~damaged => blob.nonce.secret = wanted["clean"]
      BY <2>1 DEF RunInv, SecretsMatch
    <3> QED  BY <1>1, <1>5, <2>1, <3>1 DEF SecretsMatch
  <2> QED  BY <1>2, <1>3, <1>4, <2>2, <2>3 DEF RunInv
<1> QED  BY <1>6, <1>7

\* A step of a filter changes neither the secret nor what git has stored.
LEMMA FilterStepIs ==
  ASSUME FilterStep
  PROVE  /\ stage = "run" /\ UNCHANGED mine /\ secret' = secret /\ blob' = blob /\ damaged' = damaged
         /\ \/ pc \in {"read", "encrypt"} /\ pc' \in {"read", "encrypt", "failed"}
            \/ pc \in {"copy", "decrypt"} /\ pc' \in {"decrypt", "smudged", "failed"}
<1> DEFINE Goal == /\ secret' = secret /\ blob' = blob /\ damaged' = damaged
                   /\ \/ pc \in {"read", "encrypt"} /\ pc' \in {"read", "encrypt", "failed"}
                      \/ pc \in {"copy", "decrypt"} /\ pc' \in {"decrypt", "smudged", "failed"}
<1>1. ReadChunk => Goal
  BY DEF ReadChunk
<1>2. TooLong => Goal
  BY DEF TooLong
<1>3. WriteHeader => Goal
  BY DEF WriteHeader
<1>4. EncryptMemory => Goal
  BY DEF EncryptMemory, CountByte
<1>5. EncryptTemp => Goal
  BY DEF EncryptTemp, CountByte
<1>6. CleanDies => Goal
  BY DEF CleanDies
<1>7. CopyPlain => Goal
  BY DEF CopyPlain
<1>8. DecryptByte => Goal
  BY DEF DecryptByte, CountByte
<1>9. Verify => Goal
  BY DEF Verify
<1>10. stage = "run" /\ UNCHANGED mine
  BY Zenon DEF FilterStep
<1> HIDE DEF Goal
<1>11. Goal
  BY <1>1, <1>2, <1>3, <1>4, <1>5, <1>6, <1>7, <1>8, <1>9, Zenon DEF FilterStep
<1> QED  BY <1>10, <1>11 DEF Goal

\* What depends on the run alone.
LEMMA MineSame ==
  ASSUME RunInv, UNCHANGED mine
  PROVE  Configured' /\ ConfiguredRuns' /\ Means' /\ KeyUsed'
<1>1. UNCHANGED <<stage, path, conf, argv, cmd, asked, options, chosen, wanted, used, whole, code>>
  BY Zenon DEF mine
<1>2. Configured'
  BY <1>1, ConfiguredKept DEF RunInv
<1>3. ConfiguredRuns'
  BY <1>1, Zenon DEF RunInv, ConfiguredRuns
<1>4. Means' /\ KeyUsed'
  BY <1>1 DEF RunInv, Means, KeyUsed, Read2
<1> QED  BY <1>2, <1>3, <1>4

LEMMA FilterStepRunInv ==
  ASSUME RunInv, FilterStep
  PROVE  RunInv'
<1>1. /\ stage = "run" /\ UNCHANGED mine /\ secret' = secret /\ blob' = blob /\ damaged' = damaged
      /\ \/ pc \in {"read", "encrypt"} /\ pc' \in {"read", "encrypt", "failed"}
         \/ pc \in {"copy", "decrypt"} /\ pc' \in {"decrypt", "smudged", "failed"}
  BY FilterStepIs
<1>2. stage' = stage /\ cmd' = cmd /\ code' = code /\ whole' = whole /\ wanted' = wanted
  BY <1>1 DEF mine
<1>3. Phases' /\ SecretsMatch'
  BY <1>1, <1>2 DEF RunInv, Phases, SecretsMatch
<1>4. Configured' /\ ConfiguredRuns' /\ Means' /\ KeyUsed'
  BY <1>1, MineSame
<1> QED  BY <1>3, <1>4 DEF RunInv

\* The nonce that clean wrote is made with its secret.
LEMMA CleanEndsRunInv ==
  ASSUME RunInv, IInv, CleanEnds
  PROVE  RunInv'
<1>1. /\ stage = "run" /\ FinishClean /\ stage' = "idle" /\ options' = [by \in {"name", "path"} |-> <<>>]
      /\ used' = NoEntry /\ UNCHANGED <<path, conf, cmd, asked, wanted, whole, code>>
  BY Zenon DEF CleanEnds, Again
<1>2. /\ pc = "encrypt" /\ pc' = "stored" /\ blob' = [marked |-> TRUE, nonce |-> nonce, body |-> out]
      /\ secret' = secret /\ damaged' = damaged
  BY <1>1 DEF FinishClean
<1>3. blob'.nonce.secret = wanted["clean"]
  <2>1. nonce = Digest(secret, input)
    BY <1>2, Zenon DEF IInv, Reading
  <2>2. nonce.secret = secret
    BY <2>1 DEF Digest
  <2>3. secret = wanted["clean"]
    BY <1>2 DEF RunInv, SecretsMatch
  <2>4. blob'.nonce = nonce
    BY <1>2
  <2> QED  BY <2>2, <2>3, <2>4
<1>4. Configured'
  BY <1>1, ConfiguredKept DEF RunInv
<1>5. ConfiguredRuns'
  BY <1>1 DEF ConfiguredRuns
<1>6. Phases' /\ KeyUsed'
  BY <1>1, <1>2 DEF RunInv, Phases, KeyUsed
<1>7. Means'
  BY <1>1 DEF RunInv, Means, IsOptions, Slots
<1>8. SecretsMatch'
  BY <1>1, <1>2, <1>3 DEF SecretsMatch
<1> QED  BY <1>4, <1>5, <1>6, <1>7, <1>8 DEF RunInv

LEMMA BlobChangesRunInv ==
  ASSUME RunInv, BlobChanges
  PROVE  RunInv'
<1>1. stage = "idle" /\ UNCHANGED mine
  BY Zenon DEF BlobChanges
<1>2. \A b : Damage(b) => pc = "stored" /\ pc' = "stored" /\ damaged' = TRUE
  BY DEF Damage
<1>3. pc = "stored" /\ pc' = "stored" /\ damaged' = TRUE
  BY <1>2, Zenon DEF BlobChanges
<1>4. stage' = stage /\ cmd' = cmd /\ code' = code /\ whole' = whole /\ wanted' = wanted
  BY <1>1 DEF mine
<1>5. Phases' /\ SecretsMatch'
  BY <1>1, <1>3, <1>4 DEF RunInv, Phases, SecretsMatch
<1>6. Configured' /\ ConfiguredRuns' /\ Means' /\ KeyUsed'
  BY <1>1, MineSame
<1> QED  BY <1>5, <1>6 DEF RunInv

LEMMA StutterRunInv ==
  ASSUME RunInv, UNCHANGED allvars
  PROVE  RunInv'
<1>1. UNCHANGED stream /\ UNCHANGED mine
  BY Zenon DEF allvars
<1>2. stage' = stage /\ cmd' = cmd /\ code' = code /\ whole' = whole /\ wanted' = wanted
  BY <1>1 DEF mine
<1>3. Phases' /\ SecretsMatch'
  BY <1>1, <1>2, StreamSame DEF RunInv, Phases, SecretsMatch, Due
<1>4. Configured' /\ ConfiguredRuns' /\ Means' /\ KeyUsed'
  BY <1>1, MineSame
<1> QED  BY <1>3, <1>4 DEF RunInv

LEMMA StepRunInv ==
  ASSUME RunInv, IInv, [FilterRunNext]_allvars
  PROVE  RunInv'
<1>1. \/ \E p \in Paths, n \in {NoName, Name}, w \in BOOLEAN : Configure(p, n, w)
      \/ \E c \in Filters : GitRuns(c)
      \/ \E c \in Filters \cup {"encrypt"}, sp \in Spellings : UserRuns(c, sp)
      \/ Dispatch \/ Option \/ OptionError \/ SelectKey
      \/ \E s \in Secrets : ReadKey(s)
      \/ StartFilter \/ FilterStep \/ CleanEnds \/ BlobChanges
      \/ UNCHANGED allvars
  BY Zenon DEF FilterRunNext
<1>2. ASSUME NEW p \in Paths, NEW n \in {NoName, Name}, NEW w \in BOOLEAN, Configure(p, n, w) PROVE RunInv'
  BY <1>2, ConfigureRunInv
<1>3. ASSUME NEW c \in Filters, GitRuns(c) PROVE RunInv'
  BY <1>3, GitRunsRunInv
<1>4. ASSUME NEW c \in Filters \cup {"encrypt"}, NEW sp \in Spellings, UserRuns(c, sp) PROVE RunInv'
  BY <1>4, UserRunsRunInv
<1>5. ASSUME NEW s \in Secrets, ReadKey(s) PROVE RunInv'
  BY <1>5, ReadKeyRunInv
<1>6. CASE Dispatch \/ Option \/ OptionError \/ SelectKey
  BY <1>6, DispatchRunInv, OptionRunInv, OptionErrorRunInv, SelectKeyRunInv
<1>7. CASE StartFilter \/ FilterStep \/ CleanEnds \/ BlobChanges
  BY <1>7, StartFilterRunInv, FilterStepRunInv, CleanEndsRunInv, BlobChangesRunInv
<1>8. CASE UNCHANGED allvars
  BY <1>8, StutterRunInv
<1> QED  BY <1>1, <1>2, <1>3, <1>4, <1>5, <1>6, <1>7, <1>8, Zenon

-----------------------------------------------------------------------------
(* The streams of FilterStream, and the theorems.                          *)

\* Whatever a run does, the streams make a step of theirs, or none.
LEMMA RunStepsStream ==
  ASSUME RunInv, [FilterRunNext]_allvars
  PROVE  [Next]_vars
<1>1. UNCHANGED stream => [Next]_vars
  BY Zenon DEF stream
<1>2. UNCHANGED allvars => UNCHANGED stream
  BY Zenon DEF allvars
<1>3. \/ \E p \in Paths, n \in {NoName, Name}, w \in BOOLEAN : Configure(p, n, w)
      \/ \E c \in Filters : GitRuns(c)
      \/ \E c \in Filters \cup {"encrypt"}, sp \in Spellings : UserRuns(c, sp)
      \/ Dispatch \/ Option \/ OptionError \/ SelectKey
      \/ \E s \in Secrets : ReadKey(s)
      \/ StartFilter \/ FilterStep \/ CleanEnds \/ BlobChanges
      \/ UNCHANGED stream
  BY <1>2, Zenon DEF FilterRunNext
<1>4. /\ \A p, n, w : Configure(p, n, w) => UNCHANGED stream
      /\ \A c : GitRuns(c) => UNCHANGED stream
      /\ \A c, sp : UserRuns(c, sp) => UNCHANGED stream
  BY Zenon DEF Configure, GitRuns, UserRuns
<1>5. Dispatch \/ Option \/ OptionError \/ SelectKey => UNCHANGED stream
  <2>1. \A what : Exit(what) => UNCHANGED stream
    BY Zenon DEF Exit
  <2>2. SelectKey => UNCHANGED stream
    BY SelectKeyIs
  <2> QED  BY <2>1, <2>2, Zenon DEF Dispatch, Option, OptionError
<1>6. \A s : ReadKey(s) => UNCHANGED stream
  BY Zenon DEF ReadKey, LoadKey
<1>7. StartFilter => [Next]_vars
  <2> SUFFICES ASSUME StartFilter PROVE Next
    OBVIOUS
  <2>1. used.aes \in Secrets
    BY DEF StartFilter, RunInv, KeyUsed
  <2>2. StartClean(used.aes) \/ StartSmudge(used.aes)
    BY Zenon DEF StartFilter
  <2> QED  BY <2>1, <2>2, Zenon DEF Next
<1>8. FilterStep => [Next]_vars
  BY Zenon DEF FilterStep, Next
<1>9. CleanEnds => [Next]_vars
  BY Zenon DEF CleanEnds, Next
<1>10. BlobChanges => [Next]_vars
  BY Zenon DEF BlobChanges, Next
<1> QED  BY <1>1, <1>3, <1>4, <1>5, <1>6, <1>7, <1>8, <1>9, <1>10, Zenon

\* The invariant of a run, with that of its streams.
THEOREM RunInvariance == FilterRunSpec => [](RunInv /\ IInv)
<1>1. FilterRunInit => RunInv /\ IInv
  <2>1. FilterRunInit => Init
    BY Zenon DEF FilterRunInit
  <2> QED  BY <2>1, StartRunInv, InitIInv
<1>2. (RunInv /\ IInv) /\ [FilterRunNext]_allvars => (RunInv /\ IInv)'
  BY RunStepsStream, StepRunInv, StepIInv
<1> QED  BY <1>1, <1>2, PTL DEF FilterRunSpec

\* With the keys that runs read, the filters are those of FilterStream: all that is
\* proved of them holds in a run.
THEOREM RunsAreStreams == FilterRunSpec => Spec
<1>1. FilterRunInit => Init
  BY Zenon DEF FilterRunInit
<1>2. RunInv /\ [FilterRunNext]_allvars => [Next]_vars
  BY RunStepsStream
<1> QED  BY <1>1, <1>2, RunInvariance, PTL DEF Spec, FilterRunSpec

\* The quoting of configure_git_filters and of the command line on Windows against a
\* shell that takes it apart: for a path of any length and of any characters.
THEOREM ConfiguredCommandRuns == FilterRunSpec => []ConfiguredRuns
BY RunInvariance, PTL DEF RunInv

\* parse_options and load_key choose the key file that is meant, and use of it the
\* secrets it holds or nothing, wherever it was cut off.
THEOREM TheKeyThatIsMeant == FilterRunSpec => []KeyFaithful
<1>1. RunInv => KeyFaithful
  BY DEF RunInv, Phases, Means, KeyUsed, KeyFaithful
<1> QED  BY <1>1, RunInvariance, PTL

\* From the configuration to the file that is checked out: a text survives where both
\* filters find the same secret.
THEOREM TextsSurvive == FilterRunSpec => []EndToEnd
<1>1. RunInv /\ IInv => EndToEnd
  <2> SUFFICES ASSUME RunInv, IInv, pc = "smudged", ~damaged, wanted["clean"] = wanted[cmd]
               PROVE  exit = "ok" /\ out = input
    BY Zenon DEF EndToEnd
  <2>1. blob.nonce.secret = wanted["clean"] /\ secret = wanted[cmd]
    BY DEF RunInv, SecretsMatch
  <2>2. RoundTrip
    BY DEF IInv
  <2> QED  BY <2>1, <2>2, Zenon DEF RoundTrip
<1> QED  BY <1>1, RunInvariance, PTL

=============================================================================
