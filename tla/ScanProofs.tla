----------------------------- MODULE ScanProofs -----------------------------
(***************************************************************************)
(* That no file of the listing is taken for another or left out, and that  *)
(* the attributes read are the file's: for every index, all names and all  *)
(* values, where each theorem says which names.                            *)
(***************************************************************************)
EXTENDS AttributeScan, SequenceTheorems, WellFoundedInduction, TLAPS

-----------------------------------------------------------------------------
(* The least and the greatest number.                                      *)

LEMMA LeastNat ==
  ASSUME NEW T, T \subseteq Nat, T # {}
  PROVE  \E x \in T : \A y \in T : x <= y
<1> DEFINE Less == OpToRel(<, Nat)
<1>1. \E x \in T : \A y \in T : ~(<<y, x>> \in Less)
  BY NatLessThanWellFounded, WFMin, Zenon
<1>2. \A x \in Nat, y \in Nat : y < x => <<y, x>> \in Less
  BY Zenon DEF OpToRel
<1>3. PICK x \in T : \A y \in T : ~(<<y, x>> \in Less)
  BY <1>1
<1>4. \A y \in T : ~(y < x)
  BY <1>2, <1>3, Zenon
<1> QED  BY <1>4

\* Min and Max are what they are called when there is such a number.
LEMMA MinIs ==
  ASSUME NEW T, T \subseteq Nat, NEW x \in T, \A y \in T : x <= y
  PROVE  Min(T) = x
<1>1. \A z \in T : (\A y \in T : z <= y) => z = x
  OBVIOUS
<1> QED  BY <1>1 DEF Min

LEMMA MaxIs ==
  ASSUME NEW T, T \subseteq Nat, NEW x \in T, \A y \in T : x >= y
  PROVE  Max(T) = x
<1>1. \A z \in T : (\A y \in T : z >= y) => z = x
  OBVIOUS
<1> QED  BY <1>1 DEF Max

-----------------------------------------------------------------------------
(* FlattenSeq.  Its function exists, and what all the parts are, and       *)
(* concatenation keeps, is the whole.                                      *)

Flat(bs, f, n) == \A i \in 1..n : f[i] = IF i = 1 THEN bs[i] ELSE f[i - 1] \o bs[i]

LEMMA FlatExists ==
  ASSUME NEW G, \A s, t \in G : s \o t \in G, NEW bs \in Seq(G)
  PROVE  \A n \in 1..Len(bs) : \E f \in [1..n -> G] : Flat(bs, f, n)
<1> DEFINE Bad == {n \in 1..Len(bs) : ~\E f \in [1..n -> G] : Flat(bs, f, n)}
<1> SUFFICES ASSUME Bad # {} PROVE FALSE
  OBVIOUS
<1>1. PICK n \in Bad : \A m \in Bad : n <= m
  <2>1. Bad \subseteq Nat
    OBVIOUS
  <2> HIDE DEF Bad
  <2> QED  BY <2>1, LeastNat
<1>2. CASE n = 1
  <2> DEFINE f == [i \in 1..1 |-> bs[1]]
  <2>1. f \in [1..n -> G] /\ Flat(bs, f, n)
    BY <1>2 DEF Flat
  <2> QED  BY <2>1
<1>3. CASE n # 1
  <2>1. n - 1 \in 1..Len(bs) /\ n - 1 \notin Bad
    BY <1>1, <1>3
  <2>2. PICK f \in [1..(n - 1) -> G] : Flat(bs, f, n - 1)
    BY <2>1
  <2> DEFINE g == [i \in 1..n |-> IF i = n THEN f[n - 1] \o bs[n] ELSE f[i]]
  <2>3. f[n - 1] \in G /\ bs[n] \in G /\ f[n - 1] \o bs[n] \in G
    BY <2>1
  <2>4. g \in [1..n -> G]
    BY <2>3
  <2>5. \A i \in 1..n : g[i] = IF i = 1 THEN bs[i] ELSE g[i - 1] \o bs[i]
    <3> TAKE i \in 1..n
    <3>1. CASE i = n
      <4>1. n - 1 \in 1..n /\ n - 1 # n /\ n \in 1..n
        BY <2>1
      <4>2. g[n - 1] = f[n - 1] /\ g[n] = f[n - 1] \o bs[n]
        BY <4>1
      <4> QED  BY <3>1, <1>3, <4>2
    <3>2. CASE i # n
      <4>1. i \in 1..(n - 1) /\ (i # 1 => i - 1 \in 1..(n - 1) /\ i - 1 # n /\ i - 1 \in 1..n)
        BY <3>2
      <4> QED  BY <4>1, <3>2, <2>2 DEF Flat
    <3> QED  BY <3>1, <3>2
  <2> HIDE DEF g
  <2> QED  BY <2>4, <2>5 DEF Flat
<1> QED  BY <1>2, <1>3

\* What FlattenSeq(bs) is: the last value of such a function.
LEMMA FlattenIs ==
  ASSUME NEW G, \A s, t \in G : s \o t \in G, NEW bs \in Seq(G), Len(bs) # 0
  PROVE  \E f \in [1..Len(bs) -> G] : Flat(bs, f, Len(bs)) /\ FlattenSeq(bs) = f[Len(bs)]
<1> DEFINE n == Len(bs)
<1> DEFINE R(f) == [i \in 1..n |-> IF i = 1 THEN bs[i] ELSE f[i - 1] \o bs[i]]
<1> DEFINE h == CHOOSE f : f = R(f)
<1>1. n \in 1..Len(bs)
  BY LenProperties
<1>2. PICK f \in [1..n -> G] : Flat(bs, f, n)
  BY <1>1, FlatExists
<1>3. f = R(f)
  BY <1>2 DEF Flat
<1>4. h = R(h)
  BY <1>3
<1>5. FlattenSeq(bs) = h[n]
  BY DEF FlattenSeq
<1> HIDE DEF h
<1>6. \A i \in 1..n : h[i] = IF i = 1 THEN bs[i] ELSE h[i - 1] \o bs[i]
  BY <1>4
<1>7. \A i \in 1..n : h[i] \in G
  <2> DEFINE Bad == {i \in 1..n : h[i] \notin G}
  <2> SUFFICES ASSUME Bad # {} PROVE FALSE
    OBVIOUS
  <2>1. PICK i \in Bad : \A j \in Bad : i <= j
    <3>1. Bad \subseteq Nat
      OBVIOUS
    <3> HIDE DEF Bad
    <3> QED  BY <3>1, LeastNat
  <2>2. CASE i = 1
    BY <2>2, <1>6
  <2>3. CASE i # 1
    <3>1. i - 1 \in 1..n /\ i - 1 \notin Bad
      BY <2>1, <2>3
    <3> QED  BY <3>1, <1>6, <2>3
  <2> QED  BY <2>2, <2>3
<1>8. h \in [1..n -> G]
  BY <1>4, <1>7
<1> QED  BY <1>5, <1>6, <1>8 DEF Flat

LEMMA FlattenIn ==
  ASSUME NEW G, \A s, t \in G : s \o t \in G, NEW bs \in Seq(G)
  PROVE  FlattenSeq(bs) \in G \/ (Len(bs) = 0 /\ FlattenSeq(bs) = <<>>)
<1>1. CASE Len(bs) = 0
  BY <1>1 DEF FlattenSeq
<1>2. CASE Len(bs) # 0
  <2>1. Len(bs) \in 1..Len(bs)
    BY <1>2, LenProperties
  <2> QED  BY <1>2, <2>1, FlattenIs
<1> QED  BY <1>1, <1>2

-----------------------------------------------------------------------------
(* Reading: what is read of the rest of a sequence, by places in the whole. *)

LEMMA FromType ==
  ASSUME NEW S, NEW s \in Seq(S), NEW c \in 1..(Len(s) + 1)
  PROVE  /\ From(s, c) \in Seq(S) /\ Len(From(s, c)) = Len(s) - c + 1
         /\ \A q \in 1..(Len(s) - c + 1) : From(s, c)[q] = s[c + q - 1]
BY DEF From

LEMMA FromFrom ==
  ASSUME NEW S, NEW s \in Seq(S), NEW c \in 1..(Len(s) + 1), NEW d \in c..(Len(s) + 1)
  PROVE  From(From(s, c), d - c + 1) = From(s, d)
<1> DEFINE t == From(s, c)  e == d - c + 1
<1>1. /\ t \in Seq(S) /\ Len(t) = Len(s) - c + 1
      /\ \A q \in 1..(Len(s) - c + 1) : t[q] = s[c + q - 1]
  BY FromType
<1> HIDE DEF t
<1>2. e \in 1..(Len(t) + 1)
  BY <1>1
<1>3. /\ From(t, e) \in Seq(S) /\ Len(From(t, e)) = Len(t) - e + 1
      /\ \A q \in 1..(Len(t) - e + 1) : From(t, e)[q] = t[e + q - 1]
  BY <1>1, <1>2, FromType, ZenonT(60)
<1>4. /\ From(s, d) \in Seq(S) /\ Len(From(s, d)) = Len(s) - d + 1
      /\ \A q \in 1..(Len(s) - d + 1) : From(s, d)[q] = s[d + q - 1]
  BY FromType
<1>5. \A q \in 1..(Len(s) - d + 1) : From(t, e)[q] = From(s, d)[q]
  <2> TAKE q \in 1..(Len(s) - d + 1)
  <2>1. e + q - 1 \in 1..(Len(s) - c + 1) /\ q \in 1..(Len(t) - e + 1) /\ c + (e + q - 1) - 1 = d + q - 1
    BY <1>1
  <2> QED  BY <2>1, <1>1, <1>3, <1>4
<1>6. From(t, e) = From(s, d)
  <2>1. Len(From(t, e)) = Len(From(s, d)) /\ Len(From(s, d)) = Len(s) - d + 1
    BY <1>1, <1>3, <1>4
  <2> HIDE DEF e
  <2> QED  BY <2>1, <1>3, <1>4, <1>5, SeqEqual
<1> QED  BY <1>6 DEF t, e

\* A part of the rest is a part of the whole.
LEMMA SubSeqFrom ==
  ASSUME NEW S, NEW s \in Seq(S), NEW c \in 1..(Len(s) + 1), NEW b \in c..(Len(s) + 1)
  PROVE  SubSeq(From(s, c), 1, b - c) = SubSeq(s, c, b - 1)
<1> DEFINE t == From(s, c)
<1>1. /\ t \in Seq(S) /\ Len(t) = Len(s) - c + 1
      /\ \A q \in 1..(Len(s) - c + 1) : t[q] = s[c + q - 1]
  BY FromType
<1> HIDE DEF t
<1>2. \A i \in 1..(b - c) : t[i] \in S
  BY <1>1
<1>3. \A i \in c..(b - 1) : s[i] \in S
  OBVIOUS
<1>4. /\ SubSeq(t, 1, b - c) \in Seq(S) /\ Len(SubSeq(t, 1, b - c)) = b - c
      /\ \A i \in 1..(b - c) : SubSeq(t, 1, b - c)[i] = t[i]
  BY <1>2, <1>1
<1>5. /\ SubSeq(s, c, b - 1) \in Seq(S) /\ Len(SubSeq(s, c, b - 1)) = b - c
      /\ \A i \in 1..(b - c) : SubSeq(s, c, b - 1)[i] = s[c + i - 1]
  BY <1>3
<1>6. \A i \in 1..(b - c) : SubSeq(t, 1, b - c)[i] = SubSeq(s, c, b - 1)[i]
  BY <1>1, <1>4, <1>5
<1>7. SubSeq(t, 1, b - c) = SubSeq(s, c, b - 1)
  BY <1>4, <1>5, <1>6, SeqEqual
<1> QED  BY <1>7 DEF t

\* The first place of what is looked for.
FirstOther(s) == SelectInSeq(s, LAMBDA c : c # Blank)
FirstBlank(s) == SelectInSeq(s, LAMBDA c : c = Blank)
FirstNul(s) == SelectInSeq(s, LAMBDA c : c = Nul)

LEMMA Firsts ==
  ASSUME NEW S, NEW s \in Seq(S)
  PROVE  /\ FirstOther(s) \in 0..Len(s) /\ FirstBlank(s) \in 0..Len(s) /\ FirstNul(s) \in 0..Len(s)
         /\ \A i \in 1..Len(s) : s[i] # Blank /\ (\A j \in 1..(i - 1) : s[j] = Blank) => FirstOther(s) = i
         /\ \A i \in 1..Len(s) : s[i] = Blank /\ (\A j \in 1..(i - 1) : s[j] # Blank) => FirstBlank(s) = i
         /\ \A i \in 1..Len(s) : s[i] = Nul /\ (\A j \in 1..(i - 1) : s[j] # Nul) => FirstNul(s) = i
         /\ FirstOther(s) # 0 => /\ s[FirstOther(s)] # Blank
                                 /\ \A j \in 1..(FirstOther(s) - 1) : s[j] = Blank
         /\ FirstBlank(s) = 1 => s[1] = Blank
         /\ (\A j \in 1..Len(s) : s[j] # Blank) => FirstBlank(s) = 0
         /\ \A j \in 1..Len(s) : s[j] = Nul => FirstNul(s) # 0 /\ FirstNul(s) <= j
<1> DEFINE O == {i \in 1..Len(s) : s[i] # Blank}
           B == {i \in 1..Len(s) : s[i] = Blank}
           N == {i \in 1..Len(s) : s[i] = Nul}
<1>1. /\ FirstOther(s) = IF O # {} THEN Min(O) ELSE 0
      /\ FirstBlank(s) = IF B # {} THEN Min(B) ELSE 0
      /\ FirstNul(s) = IF N # {} THEN Min(N) ELSE 0
  BY DEF FirstOther, FirstBlank, FirstNul, SelectInSeq
<1>2. \A T : T \subseteq Nat /\ T # {} => Min(T) \in T /\ \A y \in T : Min(T) <= y
  <2> TAKE T
  <2> HAVE T \subseteq Nat /\ T # {}
  <2>1. PICK x \in T : \A y \in T : x <= y
    BY LeastNat
  <2> QED  BY <2>1, MinIs
<1>3. O \subseteq Nat /\ B \subseteq Nat /\ N \subseteq Nat
  OBVIOUS
<1>4. /\ O # {} => FirstOther(s) \in O /\ \A y \in O : FirstOther(s) <= y
      /\ B # {} => FirstBlank(s) \in B /\ \A y \in B : FirstBlank(s) <= y
      /\ N # {} => FirstNul(s) \in N /\ \A y \in N : FirstNul(s) <= y
      /\ O = {} => FirstOther(s) = 0
      /\ B = {} => FirstBlank(s) = 0
      /\ N = {} => FirstNul(s) = 0
  <2> HIDE DEF O, B, N
  <2> QED  BY <1>1, <1>2, <1>3
<1>5. Len(s) \in Nat
  OBVIOUS
<1>6. FirstOther(s) \in 0..Len(s) /\ FirstBlank(s) \in 0..Len(s) /\ FirstNul(s) \in 0..Len(s)
  BY <1>4, <1>5
<1>7. ASSUME NEW i \in 1..Len(s), s[i] # Blank, \A j \in 1..(i - 1) : s[j] = Blank
      PROVE  FirstOther(s) = i
  BY <1>4, <1>5, <1>7
<1>8. ASSUME NEW i \in 1..Len(s), s[i] = Blank, \A j \in 1..(i - 1) : s[j] # Blank
      PROVE  FirstBlank(s) = i
  BY <1>4, <1>5, <1>8
<1>9. ASSUME NEW i \in 1..Len(s), s[i] = Nul, \A j \in 1..(i - 1) : s[j] # Nul
      PROVE  FirstNul(s) = i
  BY <1>4, <1>5, <1>9
<1>10. ASSUME FirstOther(s) # 0
       PROVE  s[FirstOther(s)] # Blank /\ \A j \in 1..(FirstOther(s) - 1) : s[j] = Blank
  BY <1>4, <1>5, <1>10
<1>11. FirstBlank(s) = 1 => s[1] = Blank
  BY <1>4
<1>12. (\A j \in 1..Len(s) : s[j] # Blank) => FirstBlank(s) = 0
  BY <1>4
<1>13. \A j \in 1..Len(s) : s[j] = Nul => FirstNul(s) # 0 /\ FirstNul(s) <= j
  BY <1>4
<1> QED  BY <1>6, <1>7, <1>8, <1>9, <1>10, <1>11, <1>12, <1>13

LEMMA FirstOtherIs ==
  ASSUME NEW S, NEW s \in Seq(S), NEW i \in 1..Len(s), s[i] # Blank, \A j \in 1..(i - 1) : s[j] = Blank
  PROVE  FirstOther(s) = i /\ FirstOther(s) # 0
BY Firsts

LEMMA FirstBlankIs ==
  ASSUME NEW S, NEW s \in Seq(S), NEW i \in 1..Len(s), s[i] = Blank, \A j \in 1..(i - 1) : s[j] # Blank
  PROVE  FirstBlank(s) = i /\ FirstBlank(s) # 0
BY Firsts

LEMMA FirstNulIs ==
  ASSUME NEW S, NEW s \in Seq(S), NEW i \in 1..Len(s), s[i] = Nul, \A j \in 1..(i - 1) : s[j] # Nul
  PROVE  FirstNul(s) = i /\ FirstNul(s) # 0
BY Firsts

\* The words of the code by these places.
LEMMA WsIs == \A s : Ws(s) = IF FirstOther(s) = 0 THEN <<>> ELSE From(s, FirstOther(s))
BY Zenon DEF Ws, FirstOther

LEMMA NextWordIs ==
  \A s : NextWord(s) = IF FirstBlank(Ws(s)) = 0 THEN [word |-> Ws(s), rest |-> <<>>]
                       ELSE [word |-> SubSeq(Ws(s), 1, FirstBlank(Ws(s)) - 1),
                             rest |-> From(Ws(s), FirstBlank(Ws(s)))]
BY Zenon DEF NextWord, FirstBlank

LEMMA LineIs ==
  \A s : Line(s) = IF FirstNul(s) = 0 THEN [word |-> s, rest |-> <<>>]
                   ELSE [word |-> SubSeq(s, 1, FirstNul(s) - 1), rest |-> From(s, FirstNul(s) + 1)]
BY Zenon DEF Line, FirstNul

\* After blanks up to a, the rest starts at a.
LEMMA WsFrom ==
  ASSUME NEW S, NEW s \in Seq(S), NEW c \in 1..(Len(s) + 1), NEW a \in c..Len(s),
         \A q \in c..(a - 1) : s[q] = Blank, s[a] # Blank
  PROVE  Ws(From(s, c)) = From(s, a)
<1> DEFINE t == From(s, c)  i == a - c + 1
<1>1. /\ t \in Seq(S) /\ Len(t) = Len(s) - c + 1
      /\ \A q \in 1..(Len(s) - c + 1) : t[q] = s[c + q - 1]
  BY FromType
<1>2. From(t, i) = From(s, a)
  BY FromFrom
<1> HIDE DEF t
<1>3. i \in 1..Len(t) /\ t[i] = s[a] /\ \A j \in 1..(i - 1) : t[j] = s[c + j - 1] /\ c + j - 1 \in c..(a - 1)
  BY <1>1, SMTT(30)
<1> HIDE DEF i
<1>4. FirstOther(t) = i /\ i # 0
  <2>1. t[i] # Blank /\ \A j \in 1..(i - 1) : t[j] = Blank
    BY <1>3
  <2> QED  BY <1>1, <1>3, <2>1, FirstOtherIs
<1>5. Ws(t) = From(t, i)
  BY <1>4, WsIs
<1> QED  BY <1>2, <1>5 DEF t

\* A word from a to before the blank at b.
LEMMA WordFrom ==
  ASSUME NEW S, NEW s \in Seq(S), NEW c \in 1..(Len(s) + 1), NEW a \in c..Len(s),
         \A q \in c..(a - 1) : s[q] = Blank, s[a] # Blank,
         NEW b \in (a + 1)..Len(s), \A q \in a..(b - 1) : s[q] # Blank, s[b] = Blank
  PROVE  NextWord(From(s, c)) = [word |-> SubSeq(s, a, b - 1), rest |-> From(s, b)]
<1> DEFINE t == From(s, a)  i == b - a + 1
<1>0. a \in 1..(Len(s) + 1) /\ b \in a..(Len(s) + 1)
  OBVIOUS
<1>1. /\ t \in Seq(S) /\ Len(t) = Len(s) - a + 1
      /\ \A q \in 1..(Len(s) - a + 1) : t[q] = s[a + q - 1]
  BY <1>0, FromType
<1>2. From(t, i) = From(s, b)
  BY FromFrom
<1>3. SubSeq(t, 1, i - 1) = SubSeq(s, a, b - 1)
  <2>1. i - 1 = b - a
    OBVIOUS
  <2> QED  BY <1>0, <2>1, SubSeqFrom
<1>4. Ws(From(s, c)) = t
  BY WsFrom
<1> HIDE DEF t
<1>5. i \in 1..Len(t) /\ t[i] = s[b] /\ \A j \in 1..(i - 1) : t[j] = s[a + j - 1] /\ a + j - 1 \in a..(b - 1)
  BY <1>1
<1> HIDE DEF i
<1>6. FirstBlank(t) = i /\ i # 0
  <2>1. t[i] = Blank /\ \A j \in 1..(i - 1) : t[j] # Blank
    BY <1>5
  <2> QED  BY <1>1, <1>5, <2>1, FirstBlankIs
<1> QED  BY <1>2, <1>3, <1>4, <1>6, NextWordIs

\* A word that is the last.
LEMMA LastWordFrom ==
  ASSUME NEW S, NEW s \in Seq(S), NEW c \in 1..(Len(s) + 1), NEW a \in c..Len(s),
         \A q \in c..(a - 1) : s[q] = Blank, \A q \in a..Len(s) : s[q] # Blank
  PROVE  NextWord(From(s, c)) = [word |-> From(s, a), rest |-> <<>>]
<1> DEFINE t == From(s, a)
<1>0. a \in 1..(Len(s) + 1)
  OBVIOUS
<1>1. /\ t \in Seq(S) /\ Len(t) = Len(s) - a + 1
      /\ \A q \in 1..(Len(s) - a + 1) : t[q] = s[a + q - 1]
  BY <1>0, FromType
<1>2. Ws(From(s, c)) = t
  BY WsFrom
<1> HIDE DEF t
<1>3. \A q \in 1..Len(t) : t[q] # Blank
  BY <1>1
<1>4. FirstBlank(t) = 0
  BY <1>1, <1>3, Firsts
<1> QED  BY <1>2, <1>4, NextWordIs DEF t

\* At the end there is no word.
LEMMA NoWord == NextWord(<<>>) = [word |-> <<>>, rest |-> <<>>]
<1>1. <<>> \in Seq({}) /\ Len(<<>>) = 0
  BY EmptySeq
<1>2. FirstOther(<<>>) \in 0..Len(<<>>) /\ FirstBlank(<<>>) \in 0..Len(<<>>)
  BY <1>1, Firsts, Zenon
<1>3. FirstOther(<<>>) = 0 /\ FirstBlank(<<>>) = 0
  BY <1>1, <1>2
<1> QED  BY <1>3, WsIs, NextWordIs

\* A name from a to before the NUL at b.
LEMMA LineFrom ==
  ASSUME NEW S, NEW s \in Seq(S), NEW c \in 1..(Len(s) + 1), NEW a \in c..Len(s),
         \A q \in c..(a - 1) : s[q] = Blank, s[a] # Blank,
         NEW b \in a..Len(s), \A q \in a..(b - 1) : s[q] # Nul, s[b] = Nul
  PROVE  Line(Ws(From(s, c))) = [word |-> SubSeq(s, a, b - 1), rest |-> From(s, b + 1)]
<1> DEFINE t == From(s, a)  i == b - a + 1
<1>0. a \in 1..(Len(s) + 1) /\ b \in a..(Len(s) + 1)
  OBVIOUS
<1>1. /\ t \in Seq(S) /\ Len(t) = Len(s) - a + 1
      /\ \A q \in 1..(Len(s) - a + 1) : t[q] = s[a + q - 1]
  BY <1>0, FromType
<1>2. From(t, i + 1) = From(s, b + 1)
  <2>1. i + 1 = (b + 1) - a + 1 /\ b + 1 \in a..(Len(s) + 1) /\ a \in 1..(Len(s) + 1)
    OBVIOUS
  <2> QED  BY <2>1, FromFrom
<1>3. SubSeq(t, 1, i - 1) = SubSeq(s, a, b - 1)
  <2>1. i - 1 = b - a
    OBVIOUS
  <2> QED  BY <1>0, <2>1, SubSeqFrom
<1>4. Ws(From(s, c)) = t
  BY WsFrom
<1> HIDE DEF t
<1>5. i \in 1..Len(t) /\ t[i] = s[b] /\ \A j \in 1..(i - 1) : t[j] = s[a + j - 1] /\ a + j - 1 \in a..(b - 1)
  <2>1. i \in 1..Len(t) /\ i \in 1..(Len(s) - a + 1) /\ a + i - 1 = b
    BY <1>0, <1>1
  <2>2. t[i] = s[b]
    BY <1>1, <2>1
  <2>3. \A j \in 1..(i - 1) : j \in 1..(Len(s) - a + 1) /\ a + j - 1 \in a..(b - 1)
    BY <2>1
  <2> QED  BY <1>1, <2>1, <2>2, <2>3
<1> HIDE DEF i
<1>6. FirstNul(t) = i /\ i # 0
  <2>1. t[i] = Nul /\ \A j \in 1..(i - 1) : t[j] # Nul
    BY <1>5
  <2> QED  BY <1>1, <1>5, <2>1, FirstNulIs
<1> QED  BY <1>2, <1>3, <1>4, <1>6, LineIs

\* Whatever is read, the rest is a rest, and a word starts where the blanks end.
Rest(s, t) == \E c \in 1..(Len(s) + 1) : t = From(s, c)

LEMMA RestOfRest ==
  ASSUME NEW S, NEW s \in Seq(S), NEW t, Rest(s, t), NEW u, Rest(t, u)
  PROVE  t \in Seq(S) /\ Rest(s, u)
<1>1. PICK c \in 1..(Len(s) + 1) : t = From(s, c)
  BY DEF Rest
<1>2. t \in Seq(S) /\ Len(t) = Len(s) - c + 1
  BY <1>1, FromType
<1>3. PICK d \in 1..(Len(t) + 1) : u = From(t, d)
  BY DEF Rest
<1> DEFINE e == c + d - 1
<1>4. e \in c..(Len(s) + 1) /\ e \in 1..(Len(s) + 1) /\ e - c + 1 = d
  BY <1>2
<1>5. u = From(s, e)
  <2>1. From(From(s, c), e - c + 1) = From(s, e)
    BY <1>4, FromFrom
  <2> QED  BY <2>1, <1>1, <1>3, <1>4
<1> HIDE DEF e
<1> QED  BY <1>2, <1>4, <1>5 DEF Rest

LEMMA RestEmpty ==
  ASSUME NEW S, NEW s \in Seq(S)
  PROVE  Rest(s, <<>>) /\ Rest(s, s)
<1>1. Len(s) + 1 \in 1..(Len(s) + 1) /\ From(s, Len(s) + 1) = <<>>
  BY SubSeqEmpty DEF From
<1>2. 1 \in 1..(Len(s) + 1) /\ From(s, 1) = s
  BY SubSeqFull DEF From
<1> QED  BY <1>1, <1>2 DEF Rest

LEMMA WsRest ==
  ASSUME NEW S, NEW s \in Seq(S)
  PROVE  /\ Rest(s, Ws(s)) /\ Ws(s) \in Seq(S)
         /\ Ws(s) # <<>> => \E a \in 1..Len(s) : /\ \A q \in 1..(a - 1) : s[q] = Blank
                                                 /\ s[a] # Blank /\ Ws(s) = From(s, a)
<1>1. CASE FirstOther(s) = 0
  <2>1. Ws(s) = <<>>
    BY <1>1, WsIs
  <2> QED  BY <2>1, RestEmpty
<1>2. CASE FirstOther(s) # 0
  <2> DEFINE a == FirstOther(s)
  <2>1. a \in 1..Len(s) /\ s[a] # Blank /\ \A q \in 1..(a - 1) : s[q] = Blank
    BY <1>2, Firsts
  <2>2. Ws(s) = From(s, a)
    BY <1>2, WsIs
  <2>3. From(s, a) \in Seq(S) /\ a \in 1..(Len(s) + 1)
    BY <2>1, FromType
  <2> HIDE DEF a
  <2> QED  BY <2>1, <2>2, <2>3 DEF Rest
<1> QED  BY <1>1, <1>2

LEMMA WordRest ==
  ASSUME NEW S, NEW s \in Seq(S)
  PROVE  /\ Rest(s, NextWord(s).rest) /\ NextWord(s).word \in Seq(S)
         /\ NextWord(s).word # <<>> =>
              \E a \in 1..Len(s) : /\ \A q \in 1..(a - 1) : s[q] = Blank
                                   /\ s[a] # Blank /\ Head(NextWord(s).word) = s[a]
<1> DEFINE t == Ws(s)  i == FirstBlank(t)
<1>1. Rest(s, t) /\ t \in Seq(S)
  BY WsRest
<1>2. t # <<>> => \E a \in 1..Len(s) : /\ \A q \in 1..(a - 1) : s[q] = Blank
                                       /\ s[a] # Blank /\ t[1] = s[a]
  <2> HAVE t # <<>>
  <2>1. PICK a \in 1..Len(s) : (\A q \in 1..(a - 1) : s[q] = Blank) /\ s[a] # Blank /\ t = From(s, a)
    BY WsRest
  <2>2. From(s, a)[1] = s[a]
    <3>1. a \in 1..(Len(s) + 1) /\ 1 \in 1..(Len(s) - a + 1) /\ a + 1 - 1 = a
      OBVIOUS
    <3> QED  BY <3>1, FromType
  <2> QED  BY <2>1, <2>2
<1>3. i \in 0..Len(t)
  BY <1>1, Firsts
<1>4. CASE i = 0
  <2>1. NextWord(s) = [word |-> t, rest |-> <<>>]
    BY <1>4, NextWordIs
  <2> HIDE DEF t
  <2> QED  BY <2>1, <1>1, <1>2, RestEmpty
<1>5. CASE i # 0
  <2>1. NextWord(s) = [word |-> SubSeq(t, 1, i - 1), rest |-> From(t, i)]
    BY <1>5, NextWordIs
  <2> HIDE DEF t, i
  <2>2. /\ SubSeq(t, 1, i - 1) \in Seq(S) /\ Len(SubSeq(t, 1, i - 1)) = i - 1
        /\ \A q \in 1..(i - 1) : SubSeq(t, 1, i - 1)[q] = t[q]
    BY <1>1, <1>3, <1>5
  <2>3. i - 1 # 0 => t # <<>> /\ Head(SubSeq(t, 1, i - 1)) = t[1]
    BY <1>1, <1>3, <1>5, <2>2
  <2>4. SubSeq(t, 1, i - 1) # <<>> => i - 1 # 0
    BY <2>2
  <2>5. Rest(t, From(t, i))
    BY <1>3, <1>5 DEF Rest
  <2>6. Rest(s, From(t, i))
    BY <1>1, <2>5, RestOfRest
  <2> DEFINE w == SubSeq(t, 1, i - 1)
  <2> HIDE DEF w
  <2>7. NextWord(s).word = w /\ w \in Seq(S) /\ (w # <<>> => t # <<>> /\ Head(w) = t[1])
    BY <2>1, <2>2, <2>3, <2>4 DEF w
  <2>8. Rest(s, NextWord(s).rest)
    BY <2>1, <2>6
  <2> QED  BY <1>2, <2>7, <2>8
<1> QED  BY <1>4, <1>5

LEMMA LineRest ==
  ASSUME NEW S, NEW s \in Seq(S)
  PROVE  Rest(s, Line(s).rest) /\ Line(s).word \in Seq(S)
<1> DEFINE i == FirstNul(s)
<1>1. i \in 0..Len(s) /\ Len(s) \in Nat
  BY Firsts
<1>2. CASE i = 0
  BY <1>2, LineIs, RestEmpty
<1>3. CASE i # 0
  <2>1. Line(s) = [word |-> SubSeq(s, 1, i - 1), rest |-> From(s, i + 1)]
    BY <1>3, LineIs
  <2> HIDE DEF i
  <2>2. i + 1 \in 1..(Len(s) + 1) /\ SubSeq(s, 1, i - 1) \in Seq(S)
    BY <1>1, <1>3
  <2> QED  BY <2>1, <2>2 DEF Rest
<1> QED  BY <1>2, <1>3
\* A name that is read has no NUL.
LEMMA LineNoNul ==
  ASSUME NEW S, NEW s \in Seq(S)
  PROVE  Line(s).word \in Seq(S \ {Nul})
<1> DEFINE i == FirstNul(s)
<1>1. i \in 0..Len(s) /\ Len(s) \in Nat /\ \A j \in 1..Len(s) : s[j] = Nul => i # 0 /\ i <= j
  BY Firsts
<1>2. CASE i = 0
  <2>1. \A j \in 1..Len(s) : s[j] \in S \ {Nul}
    BY <1>1, <1>2
  <2>2. Line(s).word = s
    BY <1>2, LineIs
  <2> QED  BY <2>1, <2>2
<1>3. CASE i # 0
  <2>1. Line(s).word = SubSeq(s, 1, i - 1)
    BY <1>3, LineIs
  <2> HIDE DEF i
  <2>2. \A j \in 1..(i - 1) : s[j] \in S \ {Nul}
    BY <1>1, <1>3
  <2>3. SubSeq(s, 1, i - 1) \in Seq(S \ {Nul})
    BY <1>1, <1>3, <2>2, SubSeqProperties
  <2> QED  BY <2>1, <2>3
<1> QED  BY <1>2, <1>3



-----------------------------------------------------------------------------
(* The fields of the listing.                                              *)

Texts == Seq(Tokens)

OtherFields(i) == <<Tag("?"), Blank>> \o others[i] \o <<Nul>>

\* What the listing is made of is told apart.
LEMMA Distinct ==
  /\ Blank # Nul /\ Blank # Stage /\ Nul # Stage
  /\ \A k : Mode(k) # Blank /\ Mode(k) # Nul /\ Mode(k) # Stage
  /\ \A t : Tag(t) # Blank /\ Tag(t) # Nul /\ Tag(t) # Stage
  /\ \A i : Id(i) # Blank /\ Id(i) # Nul /\ Id(i) # Stage
  /\ \A k, t : Mode(k) # Tag(t)
  /\ \A k, i : Mode(k) # Id(i)
  /\ \A t, i : Tag(t) # Id(i)
  /\ \A k, l : Mode(k) = Mode(l) => k = l
  /\ \A t, u : Tag(t) = Tag(u) => t = u
  /\ \A i, j : Id(i) = Id(j) => i = j
<1>1. /\ Blank[1] = "blank" /\ Nul[1] = "NUL" /\ Stage[1] = "stage"
      /\ \A k : Mode(k)[1] = "mode" /\ Mode(k)[2] = k
      /\ \A t : Tag(t)[1] = "tag" /\ Tag(t)[2] = t
      /\ \A i : Id(i)[1] = "id" /\ Id(i)[2] = i
  BY DEF Blank, Nul, Stage, Mode, Tag, Id
<1> QED  BY <1>1

\* A name is of tokens but the one that ends it.
LEMMA NameTokens ==
  ASSUME NEW n \in Names
  PROVE  /\ n \in Seq(Tokens) /\ Len(n) \in Nat /\ Len(n) > 0
         /\ \A q \in 1..Len(n) : n[q] \in Range(n) /\ n[q] \in Tokens /\ n[q] # Nul
<1>1. n \in Seq(Range(n)) /\ Len(n) > 0 /\ Nul \notin Range(n)
  BY NamesAssumption
<1>2. \A q \in 1..Len(n) : n[q] \in Range(n)
  BY <1>1
<1>3. Range(n) \subseteq Tokens
  BY DEF Tokens
<1>4. n \in Seq(Tokens)
  BY <1>1, <1>2, <1>3
<1> QED  BY <1>1, <1>2, <1>3, <1>4

Listed == others \in Seq(Names) /\ tracked \in Seq(Entry) /\ Len(tracked) <= MaxTracked

LEMMA EntryType ==
  ASSUME Listed
  PROVE  /\ \A i \in DOMAIN tracked : /\ i \in 1..MaxTracked /\ tracked[i].name \in Names
                                      /\ tracked[i].kind \in {"file", "link"}
         /\ \A i \in DOMAIN others : i \in Nat /\ others[i] \in Names
<1>1. ASSUME NEW i \in DOMAIN tracked
      PROVE  i \in 1..MaxTracked /\ tracked[i].name \in Names /\ tracked[i].kind \in {"file", "link"}
  <2>1. tracked[i] \in Entry /\ i \in 1..MaxTracked
    BY BoundAssumption, LenProperties DEF Listed
  <2> QED  BY <2>1 DEF Entry
<1>2. ASSUME NEW i \in DOMAIN others PROVE i \in Nat /\ others[i] \in Names
  BY DEF Listed
<1> QED  BY <1>1, <1>2

\* NamesOf has the names of both.
LEMMA NamesListed ==
  ASSUME Listed
  PROVE  /\ \A i \in DOMAIN tracked : \E q \in DOMAIN NamesOf : NamesOf[q] = tracked[i].name
         /\ \A i \in DOMAIN others : \E q \in DOMAIN NamesOf : NamesOf[q] = others[i]
<1> DEFINE n == [i \in DOMAIN tracked |-> tracked[i].name]
<1>1. n \in Seq(Names) /\ Len(n) = Len(tracked) /\ DOMAIN tracked = 1..Len(tracked)
  <2>1. DOMAIN tracked = 1..Len(tracked) /\ Len(tracked) \in Nat
    BY LenProperties DEF Listed
  <2>2. \A i \in 1..Len(tracked) : tracked[i].name \in Names
    BY <2>1, EntryType
  <2> QED  BY <2>1, <2>2, IsASeq
<1>2. \A i \in DOMAIN tracked : n[i] = tracked[i].name
  OBVIOUS
<1>3. NamesOf = n \o others
  BY DEF NamesOf
<1> HIDE DEF n
<1>4. /\ NamesOf \in Seq(Names) /\ Len(NamesOf) = Len(n) + Len(others)
      /\ \A q \in 1..(Len(n) + Len(others)) : NamesOf[q] = IF q <= Len(n) THEN n[q] ELSE others[q - Len(n)]
  BY <1>1, <1>3, ConcatProperties DEF Listed
<1>5. Len(n) \in Nat /\ Len(others) \in Nat /\ DOMAIN others = 1..Len(others)
  BY <1>1, LenProperties DEF Listed
<1>6. \A q \in 1..(Len(n) + Len(others)) : q \in DOMAIN NamesOf
  BY <1>4, LenProperties
<1>7. ASSUME NEW i \in DOMAIN tracked PROVE \E q \in DOMAIN NamesOf : NamesOf[q] = tracked[i].name
  <2>1. i \in 1..(Len(n) + Len(others)) /\ i <= Len(n)
    BY <1>1, <1>5
  <2>2. NamesOf[i] = tracked[i].name
    BY <1>2, <1>4, <2>1
  <2> QED  BY <1>6, <2>1, <2>2
<1>8. ASSUME NEW i \in DOMAIN others PROVE \E q \in DOMAIN NamesOf : NamesOf[q] = others[i]
  <2> DEFINE q == Len(n) + i
  <2>1. q \in 1..(Len(n) + Len(others)) /\ ~(q <= Len(n)) /\ q - Len(n) = i
    BY <1>5
  <2> HIDE DEF q
  <2>2. NamesOf[q] = others[i]
    BY <1>4, <2>1
  <2> QED  BY <1>6, <2>1, <2>2
<1> QED  BY <1>7, <1>8

LEMMA PlainNames ==
  ASSUME Listed, AllPlain
  PROVE  /\ \A i \in DOMAIN tracked : Plain(tracked[i].name)
         /\ \A i \in DOMAIN others : Plain(others[i])
BY NamesListed DEF AllPlain

\* The fields of an entry, and of an untracked file, by their places.
LEMMA FieldsAre ==
  ASSUME Listed, NEW i \in DOMAIN tracked
  PROVE  /\ Fields(i) \in Texts /\ Len(Fields(i)) = Len(tracked[i].name) + 7
         /\ Fields(i)[1] = Mode(tracked[i].kind) /\ Fields(i)[2] = Blank /\ Fields(i)[3] = Id(i)
         /\ Fields(i)[4] = Blank /\ Fields(i)[5] = Stage /\ Fields(i)[6] = Blank
         /\ \A q \in 1..Len(tracked[i].name) : Fields(i)[6 + q] = tracked[i].name[q]
         /\ Fields(i)[Len(tracked[i].name) + 7] = Nul
<1> DEFINE n == tracked[i].name
           h == <<Mode(tracked[i].kind), Blank, Id(i), Blank, Stage, Blank>>
<1>1. n \in Names /\ tracked[i].kind \in {"file", "link"} /\ i \in 1..MaxTracked
  BY EntryType
<1>2. n \in Seq(Tokens) /\ Len(n) \in Nat
  <2> HIDE DEF n
  <2> QED  BY <1>1, NameTokens
<1>3. h \in Seq(Tokens) /\ Len(h) = 6
  BY <1>1 DEF Tokens, Modes
<1>4. <<Nul>> \in Seq(Tokens) /\ Len(<<Nul>>) = 1 /\ <<Nul>>[1] = Nul
  BY DEF Tokens
<1>5. /\ h[1] = Mode(tracked[i].kind) /\ h[2] = Blank /\ h[3] = Id(i) /\ h[4] = Blank
      /\ h[5] = Stage /\ h[6] = Blank
  OBVIOUS
<1>6. Fields(i) = (h \o n) \o <<Nul>>
  BY DEF Fields
<1> HIDE DEF h, n
<1>7. /\ h \o n \in Seq(Tokens) /\ Len(h \o n) = 6 + Len(n)
      /\ \A q \in 1..(6 + Len(n)) : (h \o n)[q] = IF q <= 6 THEN h[q] ELSE n[q - 6]
  <2>1. /\ h \o n \in Seq(Tokens) /\ Len(h \o n) = Len(h) + Len(n)
        /\ \A q \in 1..(Len(h) + Len(n)) : (h \o n)[q] = IF q <= Len(h) THEN h[q] ELSE n[q - Len(h)]
    BY <1>2, <1>3, ConcatProperties, Zenon
  <2> QED  BY <1>3, <2>1
<1> DEFINE t == h \o n  f == t \o <<Nul>>
<1>8. /\ f \in Seq(Tokens) /\ Len(f) = 6 + Len(n) + 1
      /\ \A q \in 1..(6 + Len(n) + 1) : f[q] = IF q <= 6 + Len(n) THEN t[q] ELSE <<Nul>>[q - (6 + Len(n))]
  <2> HIDE DEF t
  <2> QED  BY <1>4, <1>7, ConcatProperties DEF t
<1> HIDE DEF t, f
<1>9. \A q \in 1..6 : f[q] = h[q]
  BY <1>2, <1>7, <1>8 DEF t
<1>10. \A q \in 1..Len(n) : f[6 + q] = n[q]
  BY <1>2, <1>7, <1>8 DEF t
<1>11. f[Len(n) + 7] = Nul
  BY <1>2, <1>4, <1>8
<1>12. Fields(i) = f
  BY <1>6 DEF f, t
<1> QED  BY <1>2, <1>5, <1>8, <1>9, <1>10, <1>11, <1>12, SMTT(30) DEF n, Texts

LEMMA OtherFieldsAre ==
  ASSUME Listed, NEW i \in DOMAIN others
  PROVE  /\ OtherFields(i) \in Texts /\ Len(OtherFields(i)) = Len(others[i]) + 3
         /\ OtherFields(i)[1] = Tag("?") /\ OtherFields(i)[2] = Blank
         /\ \A q \in 1..Len(others[i]) : OtherFields(i)[2 + q] = others[i][q]
         /\ OtherFields(i)[Len(others[i]) + 3] = Nul
<1> DEFINE n == others[i]  h == <<Tag("?"), Blank>>
<1>1. n \in Names
  BY EntryType
<1>2. n \in Seq(Tokens) /\ Len(n) \in Nat
  <2> HIDE DEF n
  <2> QED  BY <1>1, NameTokens
<1>3. h \in Seq(Tokens) /\ Len(h) = 2 /\ h[1] = Tag("?") /\ h[2] = Blank
  BY DEF Tokens, Tags
<1>4. <<Nul>> \in Seq(Tokens) /\ Len(<<Nul>>) = 1 /\ <<Nul>>[1] = Nul
  BY DEF Tokens
<1>5. OtherFields(i) = (h \o n) \o <<Nul>>
  BY DEF OtherFields
<1> HIDE DEF h, n
<1> DEFINE t == h \o n  f == t \o <<Nul>>
<1>6. /\ t \in Seq(Tokens) /\ Len(t) = 2 + Len(n)
      /\ \A q \in 1..(2 + Len(n)) : t[q] = IF q <= 2 THEN h[q] ELSE n[q - 2]
  <2>1. /\ h \o n \in Seq(Tokens) /\ Len(h \o n) = Len(h) + Len(n)
        /\ \A q \in 1..(Len(h) + Len(n)) : (h \o n)[q] = IF q <= Len(h) THEN h[q] ELSE n[q - Len(h)]
    BY <1>2, <1>3, ConcatProperties, Zenon
  <2> QED  BY <1>3, <2>1
<1>7. /\ f \in Seq(Tokens) /\ Len(f) = 2 + Len(n) + 1
      /\ \A q \in 1..(2 + Len(n) + 1) : f[q] = IF q <= 2 + Len(n) THEN t[q] ELSE <<Nul>>[q - (2 + Len(n))]
  <2> HIDE DEF t
  <2> QED  BY <1>4, <1>6, ConcatProperties DEF t
<1> HIDE DEF t, f
<1>8. f[1] = h[1] /\ f[2] = h[2]
  BY <1>2, <1>6, <1>7
<1>9. \A q \in 1..Len(n) : f[2 + q] = n[q]
  BY <1>2, <1>6, <1>7
<1>10. f[Len(n) + 3] = Nul
  BY <1>2, <1>4, <1>7
<1>11. OtherFields(i) = f
  BY <1>5 DEF f, t
<1> QED  BY <1>2, <1>3, <1>7, <1>8, <1>9, <1>10, <1>11 DEF n, Texts

-----------------------------------------------------------------------------
(* What is where.                                                          *)

\* b is in s, from p on.
At(s, p, b) == p + Len(b) - 1 <= Len(s) /\ \A q \in 1..Len(b) : s[p + q - 1] = b[q]

LEMMA AtConcat ==
  ASSUME NEW S, NEW s \in Seq(S), NEW t \in Seq(S), NEW b \in Seq(S), NEW p \in Nat, p > 0
  PROVE  /\ At(s, p, b) => At(s \o t, p, b)
         /\ At(t, p, b) => At(s \o t, Len(s) + p, b)
<1>1. /\ s \o t \in Seq(S) /\ Len(s \o t) = Len(s) + Len(t)
      /\ \A i \in 1..(Len(s) + Len(t)) : (s \o t)[i] = IF i <= Len(s) THEN s[i] ELSE t[i - Len(s)]
  BY ConcatProperties
<1>2. Len(s) \in Nat /\ Len(t) \in Nat /\ Len(b) \in Nat
  BY LenProperties
<1> DEFINE u == s \o t
<1> HIDE DEF u
<1>3. ASSUME At(s, p, b) PROVE At(u, p, b)
  BY <1>1, <1>2, <1>3 DEF At, u
<1>4. ASSUME At(t, p, b) PROVE At(u, Len(s) + p, b)
  <2>1. Len(s) + p + Len(b) - 1 <= Len(s) + Len(t)
    BY <1>2, <1>4 DEF At
  <2>2. \A q \in 1..Len(b) : u[Len(s) + p + q - 1] = b[q]
    <3> TAKE q \in 1..Len(b)
    <3>1. /\ Len(s) + p + q - 1 \in 1..(Len(s) + Len(t)) /\ ~(Len(s) + p + q - 1 <= Len(s))
          /\ Len(s) + p + q - 1 - Len(s) = p + q - 1
      BY <1>2, <1>4, <2>1
    <3>2. u[Len(s) + p + q - 1] = t[p + q - 1]
      BY <1>1, <3>1 DEF u
    <3> QED  BY <3>2, <1>4 DEF At
  <2> QED  BY <1>1, <2>1, <2>2 DEF At, u
<1> QED  BY <1>3, <1>4 DEF u

LEMMA AtFrom ==
  ASSUME NEW S, NEW s \in Seq(S), NEW b \in Seq(S), NEW c \in 1..(Len(s) + 1), NEW p \in c..Len(s)
  PROVE  At(s, p, b) <=> At(From(s, c), p - c + 1, b)
<1> DEFINE t == From(s, c)
<1>1. /\ t \in Seq(S) /\ Len(t) = Len(s) - c + 1
      /\ \A q \in 1..(Len(s) - c + 1) : t[q] = s[c + q - 1]
  BY FromType
<1> HIDE DEF t
<1>2. Len(s) \in Nat /\ Len(b) \in Nat
  BY LenProperties
<1>3. p + Len(b) - 1 <= Len(s) <=> (p - c + 1) + Len(b) - 1 <= Len(t)
  BY <1>1, <1>2
<1>4. ASSUME p + Len(b) - 1 <= Len(s)
      PROVE  \A q \in 1..Len(b) : s[p + q - 1] = t[(p - c + 1) + q - 1]
  <2> TAKE q \in 1..Len(b)
  <2>1. /\ (p - c + 1) + q - 1 \in 1..(Len(s) - c + 1)
        /\ c + ((p - c + 1) + q - 1) - 1 = p + q - 1
    BY <1>2, <1>4
  <2> QED  BY <1>1, <2>1
<1>5. At(s, p, b) <=> At(t, p - c + 1, b)
  BY <1>3, <1>4 DEF At
<1> QED  BY <1>5 DEF t

\* The texts in which a block of B starts wherever one of the tokens M is.
Blocks(M, B) == {s \in Texts : \A p \in 1..Len(s) : s[p] \in M => \E b \in B : At(s, p, b)}

LEMMA BlocksConcat ==
  ASSUME NEW M, NEW B, B \subseteq Texts, NEW s \in Blocks(M, B), NEW t \in Blocks(M, B)
  PROVE  s \o t \in Blocks(M, B)
<1>1. s \in Texts /\ t \in Texts
  BY DEF Blocks
<1>2. /\ s \o t \in Texts /\ Len(s \o t) = Len(s) + Len(t)
      /\ \A i \in 1..(Len(s) + Len(t)) : (s \o t)[i] = IF i <= Len(s) THEN s[i] ELSE t[i - Len(s)]
  BY <1>1, ConcatProperties DEF Texts
<1>3. Len(s) \in Nat /\ Len(t) \in Nat
  BY <1>1, LenProperties DEF Texts
<1>4. ASSUME NEW p \in 1..(Len(s) + Len(t)), (s \o t)[p] \in M
      PROVE  \E b \in B : At(s \o t, p, b)
  <2>1. CASE p <= Len(s)
    <3>1. p \in 1..Len(s) /\ s[p] \in M /\ p \in Nat /\ p > 0
      BY <1>2, <1>3, <1>4, <2>1
    <3>2. PICK b \in B : At(s, p, b)
      BY <3>1 DEF Blocks
    <3>3. b \in Texts
      OBVIOUS
    <3>4. At(s \o t, p, b)
      BY <1>1, <3>1, <3>2, <3>3, AtConcat DEF Texts
    <3> QED  BY <3>4
  <2>2. CASE ~(p <= Len(s))
    <3> DEFINE r == p - Len(s)
    <3>1. r \in 1..Len(t) /\ t[r] \in M /\ r \in Nat /\ r > 0 /\ Len(s) + r = p
      BY <1>2, <1>3, <1>4, <2>2
    <3> HIDE DEF r
    <3>2. PICK b \in B : At(t, r, b)
      BY <3>1 DEF Blocks
    <3>3. b \in Texts
      OBVIOUS
    <3>4. At(s \o t, Len(s) + r, b)
      BY <1>1, <3>1, <3>2, <3>3, AtConcat DEF Texts
    <3> QED  BY <3>1, <3>4
  <2> QED  BY <2>1, <2>2
<1> DEFINE u == s \o t
<1>5. u \in Texts /\ \A p \in 1..Len(u) : u[p] \in M => \E b \in B : At(u, p, b)
  BY <1>2, <1>4
<1> HIDE DEF u
<1>6. u \in Blocks(M, B)
  BY <1>5 DEF Blocks
<1> QED  BY <1>6 DEF u

LEMMA BlocksRest ==
  ASSUME NEW M, NEW B, B \subseteq Texts, NEW s \in Blocks(M, B), NEW t, Rest(s, t)
  PROVE  t \in Blocks(M, B)
<1>1. s \in Texts
  BY DEF Blocks
<1>2. PICK c \in 1..(Len(s) + 1) : t = From(s, c)
  BY DEF Rest
<1>3. /\ t \in Texts /\ Len(t) = Len(s) - c + 1
      /\ \A q \in 1..(Len(s) - c + 1) : t[q] = s[c + q - 1]
  BY <1>1, <1>2, FromType DEF Texts
<1>4. ASSUME NEW q \in 1..Len(t), t[q] \in M PROVE \E b \in B : At(t, q, b)
  <2> DEFINE p == c + q - 1
  <2>1. p \in 1..Len(s) /\ p \in c..Len(s) /\ s[p] \in M /\ p - c + 1 = q
    BY <1>1, <1>3, <1>4, LenProperties DEF Texts
  <2> HIDE DEF p
  <2>2. PICK b \in B : At(s, p, b)
    BY <2>1 DEF Blocks
  <2>3. b \in Texts
    OBVIOUS
  <2>4. At(From(s, c), p - c + 1, b)
    BY <1>1, <2>1, <2>2, <2>3, AtFrom DEF Texts
  <2> QED  BY <1>2, <2>1, <2>4
<1> QED  BY <1>3, <1>4 DEF Blocks

\* Without lookalikes the mode of a file starts an entry of the index in what is
\* left of the output, and the tag of an untracked file that file, wherever the
\* reader may be.
EntryBlocks == {Fields(i) : i \in DOMAIN tracked}
OtherBlocks == {OtherFields(i) : i \in DOMAIN others}
Genuine == Blocks({Mode("file")}, EntryBlocks) \cap Blocks({Tag("?")}, OtherBlocks)

LEMMA BlockTypes ==
  ASSUME Listed
  PROVE  EntryBlocks \subseteq Texts /\ OtherBlocks \subseteq Texts
BY FieldsAre, OtherFieldsAre DEF EntryBlocks, OtherBlocks

LEMMA GenuineConcat ==
  ASSUME Listed
  PROVE  \A s, t \in Genuine : s \o t \in Genuine
BY BlockTypes, BlocksConcat DEF Genuine

LEMMA GenuineRest ==
  ASSUME Listed, NEW s \in Genuine, NEW t, Rest(s, t)
  PROVE  t \in Genuine
BY BlockTypes, BlocksRest DEF Genuine

\* A block is where it starts.
LEMMA AtStart ==
  ASSUME NEW S, NEW b \in Seq(S)
  PROVE  At(b, 1, b)
BY LenProperties DEF At

LEMMA FieldsGenuine ==
  ASSUME Listed, NoLookalikes, NEW i \in DOMAIN tracked
  PROVE  Fields(i) \in Genuine
<1> DEFINE f == Fields(i)  n == tracked[i].name
<1>1. /\ f \in Texts /\ Len(f) = Len(n) + 7
      /\ f[1] = Mode(tracked[i].kind) /\ f[2] = Blank /\ f[3] = Id(i)
      /\ f[4] = Blank /\ f[5] = Stage /\ f[6] = Blank
      /\ \A q \in 1..Len(n) : f[6 + q] = n[q]
      /\ f[Len(n) + 7] = Nul
  BY FieldsAre
<1>2. /\ n \in Names /\ Len(n) \in Nat
      /\ \A q \in 1..Len(n) : n[q] # Mode("file") /\ n[q] # Tag("?")
  <2>1. n \in Names /\ Range(n) \cap {Mode("file"), Tag("?")} = {}
    BY EntryType, NamesListed DEF NoLookalikes
  <2> HIDE DEF n
  <2> QED  BY <2>1, NameTokens
<1>3. At(f, 1, f) /\ f \in EntryBlocks
  <2>1. f \in EntryBlocks
    BY DEF EntryBlocks
  <2> QED  BY <1>1, <2>1, AtStart DEF Texts
<1> HIDE DEF f, n
<1>4. \A p \in 1..Len(f) : p = 1 \/ p = 2 \/ p = 3 \/ p = 4 \/ p = 5 \/ p = 6 \/ p = Len(n) + 7
                           \/ (p - 6 \in 1..Len(n) /\ p = 6 + (p - 6))
  BY <1>1, <1>2
<1>5. \A p \in 1..Len(f) : (p = 1 \/ f[p] # Mode("file")) /\ f[p] # Tag("?")
  <2> TAKE p \in 1..Len(f)
  <2>1. CASE p - 6 \in 1..Len(n) /\ p = 6 + (p - 6)
    <3>1. f[p] = n[p - 6]
      BY <1>1, <2>1
    <3> QED  BY <1>2, <2>1, <3>1
  <2>2. CASE p = 1 \/ p = 2 \/ p = 3 \/ p = 4 \/ p = 5 \/ p = 6 \/ p = Len(n) + 7
    BY <1>1, <2>2, Distinct
  <2> QED  BY <1>4, <2>1, <2>2
<1>6. f \in Blocks({Mode("file")}, EntryBlocks)
  BY <1>1, <1>3, <1>5 DEF Blocks
<1>7. f \in Blocks({Tag("?")}, OtherBlocks)
  BY <1>1, <1>5 DEF Blocks
<1> QED  BY <1>6, <1>7 DEF Genuine, f

LEMMA OtherFieldsGenuine ==
  ASSUME Listed, NoLookalikes, NEW i \in DOMAIN others
  PROVE  OtherFields(i) \in Genuine
<1> DEFINE f == OtherFields(i)  n == others[i]
<1>1. /\ f \in Texts /\ Len(f) = Len(n) + 3 /\ f[1] = Tag("?") /\ f[2] = Blank
      /\ \A q \in 1..Len(n) : f[2 + q] = n[q]
      /\ f[Len(n) + 3] = Nul
  BY OtherFieldsAre
<1>2. /\ n \in Names /\ Len(n) \in Nat
      /\ \A q \in 1..Len(n) : n[q] # Mode("file") /\ n[q] # Tag("?")
  <2>1. n \in Names /\ Range(n) \cap {Mode("file"), Tag("?")} = {}
    BY EntryType, NamesListed DEF NoLookalikes
  <2> HIDE DEF n
  <2> QED  BY <2>1, NameTokens
<1>3. At(f, 1, f) /\ f \in OtherBlocks
  <2>1. f \in OtherBlocks
    BY DEF OtherBlocks
  <2> QED  BY <1>1, <2>1, AtStart DEF Texts
<1> HIDE DEF f, n
<1>4. \A p \in 1..Len(f) : p = 1 \/ p = 2 \/ p = Len(n) + 3
                           \/ (p - 2 \in 1..Len(n) /\ p = 2 + (p - 2))
  BY <1>1, <1>2
<1>5. \A p \in 1..Len(f) : (p = 1 \/ f[p] # Tag("?")) /\ f[p] # Mode("file")
  <2> TAKE p \in 1..Len(f)
  <2>1. CASE p - 2 \in 1..Len(n) /\ p = 2 + (p - 2)
    <3>1. f[p] = n[p - 2]
      BY <1>1, <2>1
    <3> QED  BY <1>2, <2>1, <3>1
  <2>2. CASE p = 1 \/ p = 2 \/ p = Len(n) + 3
    BY <1>1, <2>2, Distinct
  <2> QED  BY <1>4, <2>1, <2>2
<1>6. f \in Blocks({Tag("?")}, OtherBlocks)
  BY <1>1, <1>3, <1>5 DEF Blocks
<1>7. f \in Blocks({Mode("file")}, EntryBlocks)
  BY <1>1, <1>5 DEF Blocks
<1> QED  BY <1>6, <1>7 DEF Genuine, f

\* A text without modes and tags of untracked files.
LEMMA NothingGenuine ==
  ASSUME NEW s \in Texts, \A p \in 1..Len(s) : s[p] \notin {Mode("file"), Tag("?")}
  PROVE  s \in Genuine
BY DEF Genuine, Blocks

\* The tag git ls-files -t gives an entry of the index.
TagH == <<Tag("H"), Blank>>

LEMMA TagHGenuine == TagH \in Genuine /\ TagH \in Texts
<1>1. TagH \in Texts /\ Len(TagH) = 2 /\ TagH[1] = Tag("H") /\ TagH[2] = Blank
  BY DEF TagH, Texts, Tokens, Tags
<1>2. \A p \in 1..Len(TagH) : TagH[p] \notin {Mode("file"), Tag("?")}
  <2>1. \A p \in 1..Len(TagH) : TagH[p] = Tag("H") \/ TagH[p] = Blank
    BY <1>1
  <2>2. Tag("H") # Tag("?")
    BY Distinct
  <2> QED  BY <2>1, <2>2, Distinct
<1> HIDE DEF TagH
<1> QED  BY <1>1, <1>2, NothingGenuine

\* The parts of the two listings.
Entries == [i \in DOMAIN tracked |-> Fields(i)]
TaggedEntries == [i \in DOMAIN tracked |-> TagH \o Fields(i)]
OtherEntries == [i \in DOMAIN others |-> OtherFields(i)]

LEMMA ListingsAre ==
  /\ Listing = FlattenSeq(Entries)
  /\ TaggedListing = FlattenSeq(OtherEntries) \o FlattenSeq(TaggedEntries)
BY DEF Listing, TaggedListing, Entries, TaggedEntries, OtherEntries, OtherFields, TagH

\* What is in one set of texts by parts, and concatenation keeps, is in it.
LEMMA FlatIn ==
  ASSUME NEW G, <<>> \in G, \A s, t \in G : s \o t \in G, NEW bs \in Seq(G)
  PROVE  FlattenSeq(bs) \in G
BY FlattenIn

LEMMA EmptyText == <<>> \in Texts /\ Len(<<>>) = 0 /\ <<>> \in Genuine
<1>1. <<>> \in Texts /\ Len(<<>>) = 0
  BY EmptySeq DEF Texts
<1> QED  BY <1>1, NothingGenuine

PartsTyped == Entries \in Seq(Texts) /\ TaggedEntries \in Seq(Texts) /\ OtherEntries \in Seq(Texts)

LEMMA PartsAreTyped ==
  ASSUME Listed
  PROVE  PartsTyped
<1>1. /\ \A i \in DOMAIN tracked : Fields(i) \in Texts /\ TagH \o Fields(i) \in Texts
      /\ \A i \in DOMAIN others : OtherFields(i) \in Texts
  BY FieldsAre, OtherFieldsAre, TagHGenuine, ConcatProperties DEF Texts
<1>2. /\ DOMAIN tracked = 1..Len(tracked) /\ Len(tracked) \in Nat
      /\ DOMAIN others = 1..Len(others) /\ Len(others) \in Nat
  BY LenProperties DEF Listed
<1> QED  BY <1>1, <1>2, IsASeq DEF PartsTyped, Entries, TaggedEntries, OtherEntries

LEMMA ListingTyped ==
  ASSUME Listed
  PROVE  Listing \in Texts /\ TaggedListing \in Texts
<1>1. <<>> \in Texts /\ \A s, t \in Texts : s \o t \in Texts
  BY EmptyText, ConcatProperties DEF Texts
<1>2. PartsTyped
  BY PartsAreTyped
<1>3. /\ FlattenSeq(Entries) \in Texts /\ FlattenSeq(TaggedEntries) \in Texts
      /\ FlattenSeq(OtherEntries) \in Texts
  BY <1>1, <1>2, FlatIn DEF PartsTyped
<1> QED  BY <1>1, <1>3, ListingsAre

LEMMA ListingGenuine ==
  ASSUME Listed, NoLookalikes
  PROVE  Listing \in Genuine /\ TaggedListing \in Genuine
<1>1. <<>> \in Genuine /\ \A s, t \in Genuine : s \o t \in Genuine
  BY EmptyText, GenuineConcat
<1>2. /\ \A i \in DOMAIN tracked : Fields(i) \in Genuine /\ TagH \o Fields(i) \in Genuine
      /\ \A i \in DOMAIN others : OtherFields(i) \in Genuine
  BY <1>1, FieldsGenuine, OtherFieldsGenuine, TagHGenuine
<1>3. /\ DOMAIN tracked = 1..Len(tracked) /\ Len(tracked) \in Nat
      /\ DOMAIN others = 1..Len(others) /\ Len(others) \in Nat
  BY LenProperties DEF Listed
<1>4. Entries \in Seq(Genuine) /\ TaggedEntries \in Seq(Genuine) /\ OtherEntries \in Seq(Genuine)
  BY <1>2, <1>3, IsASeq DEF Entries, TaggedEntries, OtherEntries
<1>5. /\ FlattenSeq(Entries) \in Genuine /\ FlattenSeq(TaggedEntries) \in Genuine
      /\ FlattenSeq(OtherEntries) \in Genuine
  BY <1>1, <1>4, FlatIn
<1> QED  BY <1>1, <1>5, ListingsAre

-----------------------------------------------------------------------------
(* What the loops read where an entry starts.                              *)

\* A part of one element, and the next.
LEMMA OneElement ==
  ASSUME NEW S, NEW s \in Seq(S), NEW a \in 1..Len(s)
  PROVE  SubSeq(s, a, a) = <<s[a]>>
<1>1. a \in Int /\ \A i \in a..a : s[i] \in S
  BY LenProperties
<1>2. /\ SubSeq(s, a, a) \in Seq(S) /\ Len(SubSeq(s, a, a)) = 1
      /\ SubSeq(s, a, a)[1] = s[a]
  BY <1>1, SubSeqProperties
<1>3. <<s[a]>> \in Seq(S) /\ Len(<<s[a]>>) = 1 /\ <<s[a]>>[1] = s[a]
  BY <1>1
<1> DEFINE t == SubSeq(s, a, a)  e == <<s[a]>>
<1>4. \A q \in 1..Len(t) : t[q] = e[q]
  BY <1>2, <1>3
<1>5. t \in Seq(S) /\ e \in Seq(S) /\ Len(t) = Len(e)
  BY <1>2, <1>3
<1> HIDE DEF t, e
<1>6. t = e
  BY <1>4, <1>5, SeqEqual
<1> QED  BY <1>6 DEF t, e

\* What the name that is read has to do with the name of the file.
NameTaken(w, n) == w \in Texts /\ Range(w) \subseteq Range(n) /\ (Plain(n) => w = n)

LEMMA ParseName ==
  ASSUME NEW n \in Names, NEW u \in Texts, NEW c \in 1..Len(u), u[c] = Blank,
         \A q \in 1..Len(n) : u[c + q] = n[q],
         c + Len(n) + 1 <= Len(u), u[c + Len(n) + 1] = Nul
  PROVE  /\ NameTaken(Line(Ws(From(u, c))).word, n)
         /\ Line(Ws(From(u, c))).rest = From(u, c + Len(n) + 2)
<1> DEFINE b == c + Len(n) + 1
<1>1. /\ n \in Seq(Tokens) /\ Len(n) \in Nat /\ Len(n) > 0
      /\ \A q \in 1..Len(n) : n[q] \in Range(n) /\ n[q] # Nul
  BY NameTokens
<1>2. Len(u) \in Nat /\ b \in c..Len(u) /\ u[b] # Blank /\ b \in Nat /\ c \in Nat
  BY <1>1, LenProperties, Distinct DEF Texts
<1>3. PICK a \in c..b : u[a] # Blank /\ \A q \in c..(a - 1) : u[q] = Blank
  <2> DEFINE T == {q \in c..b : u[q] # Blank}
  <2>1. b \in T /\ T \subseteq Nat
    BY <1>2
  <2>2. PICK a \in T : \A q \in T : a <= q
    <3> HIDE DEF T
    <3> QED  BY <2>1, LeastNat
  <2>3. a \in c..b /\ u[a] # Blank /\ \A q \in c..(a - 1) : q \in c..b /\ q \notin T
    BY <1>2, <2>2
  <2> QED  BY <2>3
<1>4. a > c
  BY <1>2, <1>3
<1>5. \A q \in a..(b - 1) : q - c \in 1..Len(n) /\ u[q] = n[q - c]
  <2> TAKE q \in a..(b - 1)
  <2>1. q - c \in 1..Len(n) /\ c + (q - c) = q
    BY <1>1, <1>2, <1>3, <1>4
  <2> QED  BY <2>1
<1> DEFINE l == Line(Ws(From(u, c)))
<1>6. l = [word |-> SubSeq(u, a, b - 1), rest |-> From(u, b + 1)]
  <2>1. c \in 1..(Len(u) + 1) /\ a \in c..Len(u) /\ b \in a..Len(u) /\ u[b] = Nul
    BY <1>1, <1>2, <1>3
  <2>2. \A q \in a..(b - 1) : u[q] # Nul
    BY <1>1, <1>5
  <2> HIDE DEF b
  <2> QED  BY <1>3, <2>1, <2>2, LineFrom DEF Texts
<1>7. b + 1 = c + Len(n) + 2
  BY <1>1, <1>2
<1> DEFINE w == SubSeq(u, a, b - 1)
<1> HIDE DEF b
<1>8. /\ w \in Texts /\ Len(w) = b - a /\ \A q \in 1..(b - a) : w[q] = u[a + q - 1]
  <2>1. \A q \in a..(b - 1) : u[q] \in Tokens
    BY <1>2, <1>3 DEF Texts
  <2> QED  BY <1>2, <1>3, <2>1, SubSeqProperties DEF Texts
<1> HIDE DEF w
<1>9. \A q \in 1..Len(w) : w[q] = n[a + q - 1 - c] /\ a + q - 1 - c \in 1..Len(n)
  <2> TAKE q \in 1..Len(w)
  <2>1. a + q - 1 \in a..(b - 1) /\ q \in 1..(b - a)
    BY <1>2, <1>3, <1>8
  <2> QED  BY <1>5, <1>8, <2>1
<1>10. Range(w) \subseteq Range(n)
  <2>1. \A q \in DOMAIN w : q \in 1..Len(w)
    BY <1>8, LenProperties DEF Texts
  <2>2. \A q \in 1..Len(w) : \E p \in DOMAIN n : n[p] = w[q]
    <3> TAKE q \in 1..Len(w)
    <3>1. a + q - 1 - c \in DOMAIN n /\ w[q] = n[a + q - 1 - c]
      BY <1>1, <1>9, LenProperties
    <3> QED  BY <3>1
  <2> QED  BY <2>1, <2>2 DEF Range
<1>11. ASSUME Plain(n) PROVE w = n
  <2>1. n[1] # Blank
    BY <1>1, <1>11 DEF Plain
  <2>2. u[c + 1] = n[1] /\ c + 1 \in c..b
    BY <1>1, <1>2 DEF b
  <2>3. a = c + 1
    BY <1>2, <1>3, <1>4, <2>1, <2>2, SMTT(30)
  <2>4. Len(w) = Len(n) /\ \A q \in 1..Len(w) : w[q] = n[q]
    <3>1. b = c + Len(n) + 1 /\ Len(w) = b - a /\ Len(n) \in Nat /\ c \in Nat
      BY <1>1, <1>8 DEF b
    <3> HIDE DEF b
    <3>2. Len(w) = Len(n)
      BY <2>3, <3>1
    <3>3. ASSUME NEW q \in 1..Len(w) PROVE w[q] = n[q]
      <4>1. a + q - 1 - c = q
        BY <2>3, <3>1
      <4> QED  BY <1>9, <4>1
    <3> QED  BY <3>2, <3>3
  <2>5. w \in Seq(Tokens) /\ n \in Seq(Tokens)
    BY <1>1, <1>8 DEF Texts
  <2> QED  BY <2>4, <2>5, SeqEqual
<1> HIDE DEF l
<1>12. l.word = w /\ l.rest = From(u, b + 1)
  <2>1. l = [word |-> w, rest |-> From(u, b + 1)]
    BY <1>6 DEF w
  <2> QED  BY <2>1
<1>13. NameTaken(l.word, n) /\ l.rest = From(u, c + Len(n) + 2)
  BY <1>7, <1>8, <1>10, <1>11, <1>12 DEF NameTaken
<1> QED  BY <1>13 DEF l

\* A word that is one token.
LEMMA OneWordFrom ==
  ASSUME NEW u \in Texts, NEW c \in 1..Len(u), NEW a \in c..(Len(u) - 1),
         \A q \in c..(a - 1) : u[q] = Blank, u[a] # Blank, u[a + 1] = Blank
  PROVE  NextWord(From(u, c)) = [word |-> <<u[a]>>, rest |-> From(u, a + 1)]
<1>1. Len(u) \in Nat
  BY LenProperties DEF Texts
<1>2. /\ c \in 1..(Len(u) + 1) /\ a \in c..Len(u) /\ a + 1 \in (a + 1)..Len(u) /\ a \in 1..Len(u)
      /\ \A q \in a..((a + 1) - 1) : q = a
      /\ (a + 1) - 1 = a
  BY <1>1
<1> DEFINE b == a + 1
<1>3. b \in (a + 1)..Len(u) /\ u[b] = Blank /\ \A q \in a..(b - 1) : u[q] # Blank
  BY <1>2
<1> HIDE DEF b
<1>4. NextWord(From(u, c)) = [word |-> SubSeq(u, a, b - 1), rest |-> From(u, b)]
  BY <1>2, <1>3, WordFrom DEF Texts
<1>5. SubSeq(u, a, a) = <<u[a]>>
  BY <1>2, OneElement DEF Texts
<1>6. b - 1 = a
  BY <1>2 DEF b
<1> QED  BY <1>4, <1>5, <1>6 DEF b

LEMMA EntryAt ==
  ASSUME Listed, NEW i \in DOMAIN tracked, NEW u \in Texts, NEW a \in 1..Len(u), At(u, a, Fields(i))
  PROVE  /\ u[a] = Mode(tracked[i].kind) /\ u[a + 1] = Blank /\ u[a + 2] = Id(i)
         /\ u[a + 3] = Blank /\ u[a + 4] = Stage /\ u[a + 5] = Blank
         /\ \A q \in 1..Len(tracked[i].name) : u[(a + 5) + q] = tracked[i].name[q]
         /\ u[(a + 5) + Len(tracked[i].name) + 1] = Nul
         /\ (a + 5) + Len(tracked[i].name) + 1 <= Len(u)
         /\ Len(tracked[i].name) \in Nat
<1> DEFINE f == Fields(i)  n == tracked[i].name
<1>1. /\ f \in Texts /\ Len(f) = Len(n) + 7
      /\ f[1] = Mode(tracked[i].kind) /\ f[2] = Blank /\ f[3] = Id(i)
      /\ f[4] = Blank /\ f[5] = Stage /\ f[6] = Blank
      /\ \A q \in 1..Len(n) : f[6 + q] = n[q]
      /\ f[Len(n) + 7] = Nul
  BY FieldsAre
<1>2. Len(n) \in Nat
  <2>1. n \in Names
    BY EntryType
  <2> HIDE DEF n
  <2> QED  BY <2>1, NameTokens
<1>3. a + Len(f) - 1 <= Len(u) /\ \A q \in 1..Len(f) : u[a + q - 1] = f[q]
  BY DEF At
<1> HIDE DEF f, n
<1>4. u[a] = f[1] /\ u[a + 1] = f[2] /\ u[a + 2] = f[3] /\ u[a + 3] = f[4] /\ u[a + 4] = f[5]
      /\ u[a + 5] = f[6]
  <2>1. \A q \in {1, 2, 3, 4, 5, 6} : q \in 1..Len(f)
    BY <1>1, <1>2
  <2>2. /\ a + 1 - 1 = a /\ a + 2 - 1 = a + 1 /\ a + 3 - 1 = a + 2 /\ a + 4 - 1 = a + 3
        /\ a + 5 - 1 = a + 4 /\ a + 6 - 1 = a + 5
    OBVIOUS
  <2> QED  BY <1>3, <2>1, <2>2
<1>5. \A q \in 1..Len(n) : u[(a + 5) + q] = n[q]
  <2> TAKE q \in 1..Len(n)
  <2>1. 6 + q \in 1..Len(f) /\ a + (6 + q) - 1 = (a + 5) + q
    BY <1>1, <1>2
  <2> QED  BY <1>1, <1>3, <2>1
<1>6. u[(a + 5) + Len(n) + 1] = Nul /\ (a + 5) + Len(n) + 1 <= Len(u)
  <2>1. /\ Len(n) + 7 \in 1..Len(f) /\ a + (Len(n) + 7) - 1 = (a + 5) + Len(n) + 1
        /\ a + Len(f) - 1 = (a + 5) + Len(n) + 1
    BY <1>1, <1>2
  <2> QED  BY <1>1, <1>3, <2>1
<1> QED  BY <1>1, <1>2, <1>4, <1>5, <1>6 DEF n

\* The four reads of both loops, after blanks and before an entry.
LEMMA ParseFields ==
  ASSUME Listed, NEW i \in DOMAIN tracked, NEW u \in Texts, NEW a \in 1..Len(u),
         At(u, a, Fields(i)), \A q \in 1..(a - 1) : u[q] = Blank
  PROVE  /\ NextWord(u) = [word |-> <<Mode(tracked[i].kind)>>, rest |-> From(u, a + 1)]
         /\ NextWord(From(u, a + 1)) = [word |-> <<Id(i)>>, rest |-> From(u, a + 3)]
         /\ NextWord(From(u, a + 3)) = [word |-> <<Stage>>, rest |-> From(u, a + 5)]
         /\ NameTaken(Line(Ws(From(u, a + 5))).word, tracked[i].name)
         /\ Line(Ws(From(u, a + 5))).rest = From(u, a + Len(tracked[i].name) + 7)
<1> DEFINE n == tracked[i].name
<1>1. /\ u[a] = Mode(tracked[i].kind) /\ u[a + 1] = Blank /\ u[a + 2] = Id(i)
      /\ u[a + 3] = Blank /\ u[a + 4] = Stage /\ u[a + 5] = Blank
      /\ \A q \in 1..Len(n) : u[(a + 5) + q] = n[q]
      /\ u[(a + 5) + Len(n) + 1] = Nul
      /\ (a + 5) + Len(n) + 1 <= Len(u)
      /\ Len(n) \in Nat
  BY EntryAt
<1>2. n \in Names
  BY EntryType
<1> HIDE DEF n
<1>3. Len(u) \in Nat /\ a \in Nat /\ a >= 1
  BY LenProperties DEF Texts
<1>4. u[a] # Blank /\ u[a + 2] # Blank /\ u[a + 4] # Blank
  BY <1>1, Distinct
<1>5. /\ Len(u) \in Nat /\ a \in Nat /\ a >= 1 /\ Len(n) \in Nat
      /\ (a + 5) + Len(n) + 1 <= Len(u)
  BY <1>1, <1>3
<1>6. NextWord(u) = [word |-> <<Mode(tracked[i].kind)>>, rest |-> From(u, a + 1)]
  <2>1. From(u, 1) = u
    BY SubSeqFull DEF From, Texts
  <2>2. 1 \in 1..Len(u) /\ a \in 1..(Len(u) - 1)
    BY <1>1, <1>3
  <2>3. NextWord(From(u, 1)) = [word |-> <<u[a]>>, rest |-> From(u, a + 1)]
    BY <1>1, <1>4, <2>2, OneWordFrom
  <2> QED  BY <1>1, <2>1, <2>3
<1>7. NextWord(From(u, a + 1)) = [word |-> <<Id(i)>>, rest |-> From(u, a + 3)]
  <2> DEFINE c == a + 1  d == a + 2
  <2>1. c \in 1..Len(u) /\ d \in c..(Len(u) - 1) /\ (\A q \in c..(d - 1) : q = a + 1) /\ d + 1 = a + 3
    BY <1>5
  <2>2. (\A q \in c..(d - 1) : u[q] = Blank) /\ u[d] # Blank /\ u[d + 1] = Blank
    BY <1>1, <1>4, <2>1
  <2> HIDE DEF c, d
  <2>3. NextWord(From(u, c)) = [word |-> <<u[d]>>, rest |-> From(u, d + 1)]
    BY <2>1, <2>2, OneWordFrom
  <2> QED  BY <1>1, <2>1, <2>3 DEF c, d
<1>8. NextWord(From(u, a + 3)) = [word |-> <<Stage>>, rest |-> From(u, a + 5)]
  <2> DEFINE c == a + 3  d == a + 4
  <2>1. c \in 1..Len(u) /\ d \in c..(Len(u) - 1) /\ (\A q \in c..(d - 1) : q = a + 3) /\ d + 1 = a + 5
    BY <1>5
  <2>2. (\A q \in c..(d - 1) : u[q] = Blank) /\ u[d] # Blank /\ u[d + 1] = Blank
    BY <1>1, <1>4, <2>1
  <2> HIDE DEF c, d
  <2>3. NextWord(From(u, c)) = [word |-> <<u[d]>>, rest |-> From(u, d + 1)]
    BY <2>1, <2>2, OneWordFrom
  <2> QED  BY <1>1, <2>1, <2>3 DEF c, d
<1>9. /\ NameTaken(Line(Ws(From(u, a + 5))).word, n)
      /\ Line(Ws(From(u, a + 5))).rest = From(u, a + Len(n) + 7)
  <2> DEFINE c == a + 5
  <2>1. c \in 1..Len(u) /\ c + Len(n) + 2 = a + Len(n) + 7
    BY <1>5
  <2>2. /\ u[c] = Blank /\ \A q \in 1..Len(n) : u[c + q] = n[q]
        /\ c + Len(n) + 1 <= Len(u) /\ u[c + Len(n) + 1] = Nul
    BY <1>1
  <2> HIDE DEF c
  <2>3. /\ NameTaken(Line(Ws(From(u, c))).word, n)
        /\ Line(Ws(From(u, c))).rest = From(u, c + Len(n) + 2)
    BY <1>2, <2>1, <2>2, ParseName
  <2> QED  BY <2>1, <2>3 DEF c
<1> QED  BY <1>6, <1>7, <1>8, <1>9 DEF n

LEMMA OtherAt ==
  ASSUME Listed, NEW i \in DOMAIN others, NEW u \in Texts, NEW a \in 1..Len(u),
         At(u, a, OtherFields(i))
  PROVE  /\ u[a] = Tag("?") /\ u[a + 1] = Blank
         /\ \A q \in 1..Len(others[i]) : u[(a + 1) + q] = others[i][q]
         /\ u[(a + 1) + Len(others[i]) + 1] = Nul
         /\ (a + 1) + Len(others[i]) + 1 <= Len(u)
         /\ Len(others[i]) \in Nat
<1> DEFINE f == OtherFields(i)  n == others[i]
<1>1. /\ f \in Texts /\ Len(f) = Len(n) + 3 /\ f[1] = Tag("?") /\ f[2] = Blank
      /\ \A q \in 1..Len(n) : f[2 + q] = n[q]
      /\ f[Len(n) + 3] = Nul
  BY OtherFieldsAre
<1>2. Len(n) \in Nat
  <2>1. n \in Names
    BY EntryType
  <2> HIDE DEF n
  <2> QED  BY <2>1, NameTokens
<1>3. a + Len(f) - 1 <= Len(u) /\ \A q \in 1..Len(f) : u[a + q - 1] = f[q]
  BY DEF At
<1> HIDE DEF f, n
<1>4. u[a] = f[1] /\ u[a + 1] = f[2]
  <2>1. 1 \in 1..Len(f) /\ 2 \in 1..Len(f) /\ a + 1 - 1 = a /\ a + 2 - 1 = a + 1
    BY <1>1, <1>2
  <2> QED  BY <1>3, <2>1
<1>5. \A q \in 1..Len(n) : u[(a + 1) + q] = n[q]
  <2> TAKE q \in 1..Len(n)
  <2>1. 2 + q \in 1..Len(f) /\ a + (2 + q) - 1 = (a + 1) + q
    BY <1>1, <1>2
  <2> QED  BY <1>1, <1>3, <2>1
<1>6. u[(a + 1) + Len(n) + 1] = Nul /\ (a + 1) + Len(n) + 1 <= Len(u)
  <2>1. /\ Len(n) + 3 \in 1..Len(f) /\ a + (Len(n) + 3) - 1 = (a + 1) + Len(n) + 1
        /\ a + Len(f) - 1 = (a + 1) + Len(n) + 1
    BY <1>1, <1>2
  <2> QED  BY <1>1, <1>3, <2>1
<1> QED  BY <1>1, <1>2, <1>4, <1>5, <1>6 DEF n

\* The two reads of status where an untracked file starts.
LEMMA ParseOther ==
  ASSUME Listed, NEW i \in DOMAIN others, NEW u \in Texts, NEW a \in 1..Len(u),
         At(u, a, OtherFields(i)), \A q \in 1..(a - 1) : u[q] = Blank
  PROVE  /\ NextWord(u) = [word |-> <<Tag("?")>>, rest |-> From(u, a + 1)]
         /\ NameTaken(Line(Ws(From(u, a + 1))).word, others[i])
         /\ Line(Ws(From(u, a + 1))).rest = From(u, a + Len(others[i]) + 3)
<1> DEFINE n == others[i]
<1>1. /\ u[a] = Tag("?") /\ u[a + 1] = Blank
      /\ \A q \in 1..Len(n) : u[(a + 1) + q] = n[q]
      /\ u[(a + 1) + Len(n) + 1] = Nul
      /\ (a + 1) + Len(n) + 1 <= Len(u) /\ Len(n) \in Nat
  BY OtherAt
<1>2. n \in Names
  BY EntryType
<1> HIDE DEF n
<1>3. Len(u) \in Nat /\ a \in Nat /\ a >= 1
  BY LenProperties DEF Texts
<1>4. NextWord(u) = [word |-> <<Tag("?")>>, rest |-> From(u, a + 1)]
  <2>1. From(u, 1) = u
    BY SubSeqFull DEF From, Texts
  <2>2. 1 \in 1..Len(u) /\ a \in 1..(Len(u) - 1) /\ u[a] # Blank
    BY <1>1, <1>3, Distinct
  <2>3. NextWord(From(u, 1)) = [word |-> <<u[a]>>, rest |-> From(u, a + 1)]
    BY <1>1, <2>2, OneWordFrom
  <2> QED  BY <1>1, <2>1, <2>3
<1>5. /\ NameTaken(Line(Ws(From(u, a + 1))).word, n)
      /\ Line(Ws(From(u, a + 1))).rest = From(u, a + Len(n) + 3)
  <2> DEFINE c == a + 1
  <2>1. c \in 1..Len(u) /\ c + Len(n) + 2 = a + Len(n) + 3
    BY <1>1, <1>3
  <2>2. /\ u[c] = Blank /\ \A q \in 1..Len(n) : u[c + q] = n[q]
        /\ c + Len(n) + 1 <= Len(u) /\ u[c + Len(n) + 1] = Nul
    BY <1>1
  <2> HIDE DEF c
  <2>3. /\ NameTaken(Line(Ws(From(u, c))).word, n)
        /\ Line(Ws(From(u, c))).rest = From(u, c + Len(n) + 2)
    BY <1>2, <2>1, <2>2, ParseName
  <2> QED  BY <2>1, <2>3 DEF c
<1> QED  BY <1>4, <1>5 DEF n

-----------------------------------------------------------------------------
(* No file is taken for another, wherever the reader is.                   *)

\* What is read leaves a genuine rest.
LEMMA ReadGenuine ==
  ASSUME Listed, NEW u \in Genuine
  PROVE  /\ u \in Texts
         /\ NextWord(u).rest \in Genuine /\ NextWord(u).word \in Texts
         /\ Line(Ws(u)).rest \in Genuine /\ Line(Ws(u)).word \in Texts
<1>1. u \in Texts
  BY DEF Genuine, Blocks
<1>2. Rest(u, NextWord(u).rest) /\ NextWord(u).word \in Texts
  BY <1>1, WordRest DEF Texts
<1>3. Rest(u, Ws(u)) /\ Ws(u) \in Texts
  BY <1>1, WsRest DEF Texts
<1>4. Ws(u) \in Genuine
  BY <1>3, GenuineRest
<1>5. Rest(Ws(u), Line(Ws(u)).rest) /\ Line(Ws(u)).word \in Texts
  BY <1>3, LineRest DEF Texts
<1> QED  BY <1>1, <1>2, <1>4, <1>5, GenuineRest

\* A file's mode starts the entry of a file, and the rest is that file's.
LEMMA FileFound ==
  ASSUME Listed, NEW u \in Genuine, IsFileMode(NextWord(u).word)
  PROVE  \E i \in Files, a \in 1..Len(u) :
           At(u, a, Fields(i)) /\ \A q \in 1..(a - 1) : u[q] = Blank
<1>1. u \in Texts /\ NextWord(u).word # <<>> /\ Head(NextWord(u).word) = Mode("file")
  BY ReadGenuine DEF IsFileMode
<1>2. PICK a \in 1..Len(u) : (\A q \in 1..(a - 1) : u[q] = Blank) /\ Head(NextWord(u).word) = u[a]
  BY <1>1, WordRest DEF Texts
<1>3. u[a] = Mode("file")
  BY <1>1, <1>2
<1>4. PICK b \in EntryBlocks : At(u, a, b)
  BY <1>3 DEF Genuine, Blocks
<1>5. PICK i \in DOMAIN tracked : b = Fields(i)
  BY DEF EntryBlocks
<1>6. tracked[i].kind = "file"
  <2>1. u[a] = Mode(tracked[i].kind)
    BY <1>1, <1>4, <1>5, EntryAt
  <2> QED  BY <1>3, <2>1, Distinct
<1> QED  BY <1>2, <1>4, <1>5, <1>6 DEF Files

\* The tag of an untracked file starts one.
LEMMA OtherFound ==
  ASSUME Listed, NEW u \in Genuine, NextWord(u).word = <<Tag("?")>>
  PROVE  \E i \in DOMAIN others, a \in 1..Len(u) :
           At(u, a, OtherFields(i)) /\ \A q \in 1..(a - 1) : u[q] = Blank
<1>1. u \in Texts /\ NextWord(u).word # <<>> /\ Head(NextWord(u).word) = Tag("?")
  BY ReadGenuine
<1>2. PICK a \in 1..Len(u) : (\A q \in 1..(a - 1) : u[q] = Blank) /\ Head(NextWord(u).word) = u[a]
  BY <1>1, WordRest DEF Texts
<1>3. PICK b \in OtherBlocks : At(u, a, b)
  BY <1>1, <1>2 DEF Genuine, Blocks
<1> QED  BY <1>2, <1>3 DEF OtherBlocks

\* The rows: of whom they are.
NameTexts == Seq(Tokens \ {Nul})
Row == [name : NameTexts, id : Texts]
OfFile(r) == \E i \in Files : r.id = <<Id(i)>> /\ NameTaken(r.name, tracked[i].name)
OfOther(r) == /\ reader = "status" /\ r.id = <<>>
              /\ \E i \in DOMAIN others : NameTaken(r.name, others[i])
RowsGenuine == \A j \in DOMAIN rows : OfFile(rows[j]) \/ OfOther(rows[j])

\* The types of the listing and of what is read of it.
ListInv ==
  /\ Listed /\ reader \in {"get_encrypted_files", "status"}
  /\ output \in Texts /\ rows \in Seq(Row)

\* Without lookalikes every row is of a file of the listing, wherever the reader is.
GenuineInv == NoLookalikes => output \in Genuine /\ RowsGenuine

LEMMA AddRow ==
  ASSUME rows \in Seq(Row), RowsGenuine, NEW r \in Row, OfFile(r) \/ OfOther(r),
         rows' = Append(rows, r), UNCHANGED <<others, tracked, reader>>
  PROVE  RowsGenuine'
<1>1. \A j \in DOMAIN rows' : IF j = Len(rows) + 1 THEN rows'[j] = r
                              ELSE j \in DOMAIN rows /\ rows'[j] = rows[j]
  BY AppendProperties, LenProperties
<1>2. \A j \in DOMAIN rows' : OfFile(rows'[j]) \/ OfOther(rows'[j])
  BY <1>1 DEF RowsGenuine
<1>3. \A x : (OfFile(x) \/ OfOther(x)) => (\/ \E i \in Files' : x.id = <<Id(i)>> /\ NameTaken(x.name, tracked'[i].name)
                                           \/ /\ reader' = "status" /\ x.id = <<>>
                                              /\ \E i \in DOMAIN others' : NameTaken(x.name, others'[i]))
  BY DEF OfFile, OfOther, Files
<1> QED  BY <1>2, <1>3, Zenon DEF RowsGenuine, OfFile, OfOther

\* The reads after a tag, in the words of the loops.
IdAt(u) == NextWord(NextWord(u).rest)
StageAt(u) == NextWord(IdAt(u).rest)
NameAt(u) == Line(Ws(StageAt(u).rest))

\* What is read of a text are texts, and names have no NUL.
LEMMA ReadTyped ==
  ASSUME NEW u \in Texts
  PROVE  /\ NextWord(u).rest \in Texts /\ NextWord(u).word \in Texts
         /\ Line(Ws(u)).rest \in Texts /\ Line(Ws(u)).word \in NameTexts
<1>1. Rest(u, NextWord(u).rest) /\ NextWord(u).word \in Texts
  BY WordRest DEF Texts
<1>2. Ws(u) \in Texts
  BY WsRest DEF Texts
<1>3. Rest(Ws(u), Line(Ws(u)).rest) /\ Line(Ws(u)).word \in NameTexts
  BY <1>2, LineRest, LineNoNul DEF Texts, NameTexts
<1>4. \A s \in Texts : \A t : Rest(s, t) => t \in Texts
  BY FromType DEF Rest, Texts
<1> QED  BY <1>1, <1>2, <1>3, <1>4

LEMMA ReadsTyped ==
  ASSUME NEW u \in Texts
  PROVE  /\ IdAt(u).rest \in Texts /\ IdAt(u).word \in Texts
         /\ StageAt(u).rest \in Texts
         /\ NameAt(u).rest \in Texts /\ NameAt(u).word \in NameTexts
<1>1. NextWord(u).rest \in Texts
  BY ReadTyped
<1>2. IdAt(u).rest \in Texts /\ IdAt(u).word \in Texts
  BY <1>1, ReadTyped DEF IdAt
<1>3. StageAt(u).rest \in Texts
  BY <1>2, ReadTyped DEF StageAt
<1>4. NameAt(u).rest \in Texts /\ NameAt(u).word \in NameTexts
  BY <1>3, ReadTyped DEF NameAt
<1> QED  BY <1>2, <1>3, <1>4

LEMMA ReadsGenuine ==
  ASSUME Listed, NEW u \in Genuine
  PROVE  StageAt(u).rest \in Genuine /\ NameAt(u).rest \in Genuine
<1>1. NextWord(u).rest \in Genuine
  BY ReadGenuine
<1>2. IdAt(u).rest \in Genuine
  BY <1>1, ReadGenuine DEF IdAt
<1>3. StageAt(u).rest \in Genuine
  BY <1>2, ReadGenuine DEF StageAt
<1>4. NameAt(u).rest \in Genuine
  BY <1>3, ReadGenuine DEF NameAt
<1> QED  BY <1>3, <1>4

\* What the reads give where an entry starts.
LEMMA ReadFields ==
  ASSUME Listed, NEW i \in DOMAIN tracked, NEW u \in Texts, NEW a \in 1..Len(u),
         At(u, a, Fields(i)), \A q \in 1..(a - 1) : u[q] = Blank
  PROVE  /\ NextWord(u).word = <<Mode(tracked[i].kind)>>
         /\ IdAt(u).word = <<Id(i)>>
         /\ StageAt(u).rest = From(u, a + 5)
         /\ NameTaken(NameAt(u).word, tracked[i].name)
         /\ NameAt(u).rest = From(u, a + Len(tracked[i].name) + 7)
<1>1. /\ NextWord(u) = [word |-> <<Mode(tracked[i].kind)>>, rest |-> From(u, a + 1)]
      /\ NextWord(From(u, a + 1)) = [word |-> <<Id(i)>>, rest |-> From(u, a + 3)]
      /\ NextWord(From(u, a + 3)) = [word |-> <<Stage>>, rest |-> From(u, a + 5)]
      /\ NameTaken(Line(Ws(From(u, a + 5))).word, tracked[i].name)
      /\ Line(Ws(From(u, a + 5))).rest = From(u, a + Len(tracked[i].name) + 7)
  BY ParseFields
<1>2. NextWord(u).word = <<Mode(tracked[i].kind)>> /\ NextWord(u).rest = From(u, a + 1)
  BY <1>1
<1>3. IdAt(u) = [word |-> <<Id(i)>>, rest |-> From(u, a + 3)]
  BY <1>1, <1>2 DEF IdAt
<1>4. StageAt(u) = [word |-> <<Stage>>, rest |-> From(u, a + 5)]
  BY <1>1, <1>3 DEF StageAt
<1>5. StageAt(u).rest = From(u, a + 5)
  BY <1>4
<1> QED  BY <1>1, <1>2, <1>3, <1>5 DEF NameAt

\* The row of a file.
LEMMA FileRow ==
  ASSUME Listed, NEW u \in Genuine, IsFileMode(NextWord(u).word)
  PROVE  OfFile([name |-> NameAt(u).word, id |-> IdAt(u).word])
<1>1. u \in Texts
  BY ReadGenuine
<1>2. PICK i \in Files, a \in 1..Len(u) :
        At(u, a, Fields(i)) /\ \A q \in 1..(a - 1) : u[q] = Blank
  BY FileFound
<1>3. i \in DOMAIN tracked
  BY DEF Files
<1>4. IdAt(u).word = <<Id(i)>> /\ NameTaken(NameAt(u).word, tracked[i].name)
  BY <1>1, <1>2, <1>3, ReadFields
<1> QED  BY <1>4 DEF OfFile

\* The steps in these words.
LEMMA TakeListedIs ==
  TakeListed <=>
    /\ reader = "get_encrypted_files" /\ output # <<>>
    /\ IF IsFileMode(NextWord(output).word)
       THEN rows' = Append(rows, [name |-> NameAt(output).word, id |-> IdAt(output).word])
       ELSE UNCHANGED rows
    /\ output' = NameAt(output).rest
    /\ UNCHANGED <<others, tracked, reader>>
BY Zenon DEF TakeListed, Found, NameAt, StageAt, IdAt

LEMMA TakeOtherIs ==
  TakeOther <=>
    /\ reader = "status" /\ output # <<>>
    /\ NextWord(output).word = <<Tag("?")>>
    /\ rows' = Append(rows, [name |-> Line(Ws(NextWord(output).rest)).word, id |-> <<>>])
    /\ output' = Line(Ws(NextWord(output).rest)).rest
    /\ UNCHANGED <<others, tracked, reader>>
BY Zenon DEF TakeOther, Found

\* What is left of the output behind the tag.
Untagged == NextWord(output).rest

LEMMA TakeTrackedIs ==
  TakeTracked <=>
    /\ reader = "status" /\ output # <<>>
    /\ NextWord(output).word # <<Tag("?")>> /\ IsFileMode(NextWord(Untagged).word)
    /\ rows' = Append(rows, [name |-> NameAt(Untagged).word, id |-> IdAt(Untagged).word])
    /\ output' = NameAt(Untagged).rest
    /\ UNCHANGED <<others, tracked, reader>>
BY Zenon DEF TakeTracked, Found, NameAt, StageAt, IdAt, Untagged

LEMMA PassLinkIs ==
  PassLink <=>
    /\ reader = "status" /\ output # <<>>
    /\ NextWord(output).word # <<Tag("?")>> /\ ~IsFileMode(NextWord(Untagged).word)
    /\ output' = StageAt(Untagged).rest
    /\ UNCHANGED <<others, tracked, reader, rows>>
BY Zenon DEF PassLink, StageAt, IdAt, Untagged

\* The untracked files and the index stay as they were, and what depends on them.
LEMMA Fixed ==
  ASSUME UNCHANGED <<others, tracked>>
  PROVE  /\ Genuine' = Genuine /\ Files' = Files /\ (Listed' <=> Listed)
         /\ (AllPlain' <=> AllPlain) /\ (OneWords' <=> OneWords)
         /\ (NoLookalikes' <=> NoLookalikes)
BY DEF Genuine, EntryBlocks, OtherBlocks, Fields, OtherFields, Files, Listed, Blocks,
       AllPlain, OneWords, NoLookalikes, NamesOf

LEMMA InitListInv == Init => ListInv /\ GenuineInv
<1> SUFFICES ASSUME Init PROVE ListInv /\ GenuineInv
  OBVIOUS
<1>1. \A S, n : SeqsUpTo(S, n) \subseteq Seq(S)
  BY DEF SeqsUpTo
<1>2. \A S : \A s \in SeqsUpTo(S, MaxTracked) : Len(s) <= MaxTracked
  BY BoundAssumption DEF SeqsUpTo
<1>3. Listed
  BY <1>1, <1>2 DEF Init, Listed
<1>4. output \in Texts
  BY <1>3, ListingTyped DEF Init
<1>5. rows \in Seq(Row) /\ RowsGenuine
  BY DEF Init, RowsGenuine
<1>6. NoLookalikes => output \in Genuine
  BY <1>3, ListingGenuine DEF Init
<1> QED  BY <1>3, <1>4, <1>5, <1>6 DEF Init, ListInv, GenuineInv

LEMMA NextListInv == ListInv /\ [Next]_vars => ListInv'
<1> SUFFICES ASSUME ListInv, [Next]_vars PROVE ListInv'
  OBVIOUS
<1> USE DEF ListInv
<1>1. \A x \in NameTexts, y \in Texts : Append(rows, [name |-> x, id |-> y]) \in Seq(Row)
  BY DEF Row
<1>2. Untagged \in Texts
  BY ReadTyped DEF Untagged
<1>3. CASE UNCHANGED vars
  BY <1>3 DEF vars, Listed
<1>4. CASE TakeListed
  <2>1. NameAt(output).rest \in Texts /\ NameAt(output).word \in NameTexts /\ IdAt(output).word \in Texts
    BY ReadsTyped
  <2> QED  BY <1>1, <1>4, <2>1, TakeListedIs DEF Listed
<1>5. CASE TakeOther
  <2>1. NextWord(output).rest \in Texts
    BY ReadTyped
  <2>2. /\ Line(Ws(NextWord(output).rest)).rest \in Texts
        /\ Line(Ws(NextWord(output).rest)).word \in NameTexts
    BY <2>1, ReadTyped
  <2> QED  BY <1>1, <1>5, <2>2, TakeOtherIs, EmptyText DEF Listed
<1>6. CASE TakeTracked
  <2>1. /\ NameAt(Untagged).rest \in Texts /\ NameAt(Untagged).word \in NameTexts
        /\ IdAt(Untagged).word \in Texts
    BY <1>2, ReadsTyped
  <2> QED  BY <1>1, <1>6, <2>1, TakeTrackedIs DEF Listed
<1>7. CASE PassLink
  <2>1. StageAt(Untagged).rest \in Texts
    BY <1>2, ReadsTyped
  <2> QED  BY <1>7, <2>1, PassLinkIs DEF Listed
<1> QED  BY <1>3, <1>4, <1>5, <1>6, <1>7 DEF Next

LEMMA NextGenuineInv == ListInv /\ GenuineInv /\ [Next]_vars => GenuineInv'
<1> SUFFICES ASSUME ListInv, GenuineInv, [Next]_vars, NoLookalikes'
             PROVE  output' \in Genuine' /\ RowsGenuine'
  BY DEF GenuineInv
<1>1. UNCHANGED <<others, tracked, reader>>
  BY TakeListedIs, TakeOtherIs, TakeTrackedIs, PassLinkIs DEF Next, vars
<1>2. Listed /\ output \in Genuine /\ RowsGenuine /\ Genuine' = Genuine /\ rows \in Seq(Row)
  BY <1>1, Fixed DEF GenuineInv, ListInv
<1>3. UNCHANGED rows => RowsGenuine'
  BY <1>1, <1>2 DEF RowsGenuine, OfFile, OfOther, Files
<1>4. Untagged \in Genuine
  BY <1>2, ReadGenuine DEF Untagged
<1>5. CASE UNCHANGED vars
  BY <1>2, <1>3, <1>5 DEF vars
<1>6. CASE TakeListed
  <2>1. output' \in Genuine
    BY <1>2, <1>6, TakeListedIs, ReadsGenuine
  <2>2. CASE ~IsFileMode(NextWord(output).word)
    BY <1>2, <1>3, <1>6, <2>1, <2>2, TakeListedIs
  <2>3. CASE IsFileMode(NextWord(output).word)
    <3> DEFINE r == [name |-> NameAt(output).word, id |-> IdAt(output).word]
    <3>1. r \in Row
      BY ReadsTyped DEF Row, ListInv
    <3>2. OfFile(r)
      BY <1>2, <2>3, FileRow
    <3>3. rows' = Append(rows, r)
      BY <1>6, <2>3, TakeListedIs
    <3> HIDE DEF r
    <3> QED  BY <1>1, <1>2, <2>1, <3>1, <3>2, <3>3, AddRow
  <2> QED  BY <2>2, <2>3
<1>7. CASE TakeTracked
  <2> DEFINE r == [name |-> NameAt(Untagged).word, id |-> IdAt(Untagged).word]
  <2>1. /\ output' = NameAt(Untagged).rest /\ IsFileMode(NextWord(Untagged).word)
        /\ rows' = Append(rows, r)
    BY <1>7, TakeTrackedIs
  <2>2. output' \in Genuine
    BY <1>2, <1>4, <2>1, ReadsGenuine
  <2>3. r \in Row
    <3>1. Untagged \in Texts
      BY <1>2, <1>4, ReadGenuine
    <3> QED  BY <3>1, ReadsTyped DEF Row
  <2>4. OfFile(r)
    BY <1>2, <1>4, <2>1, FileRow
  <2> HIDE DEF r
  <2> QED  BY <1>1, <1>2, <2>1, <2>2, <2>3, <2>4, AddRow
<1>8. CASE PassLink
  BY <1>2, <1>3, <1>4, <1>8, PassLinkIs, ReadsGenuine
<1>9. CASE TakeOther
  <2> DEFINE l == Line(Ws(NextWord(output).rest))  r == [name |-> l.word, id |-> <<>>]
  <2>1. /\ output' = l.rest /\ reader = "status" /\ NextWord(output).word = <<Tag("?")>>
        /\ rows' = Append(rows, r)
    BY <1>9, TakeOtherIs
  <2>2. NextWord(output).rest \in Genuine /\ output \in Texts /\ NextWord(output).rest \in Texts
    BY <1>2, ReadGenuine
  <2>3. l.rest \in Genuine /\ r \in Row
    <3>1. l.rest \in Genuine
      BY <1>2, <2>2, ReadGenuine
    <3>2. l.word \in NameTexts
      BY <2>2, ReadTyped
    <3> QED  BY <3>1, <3>2, EmptyText DEF Row
  <2>4. PICK i \in DOMAIN others, a \in 1..Len(output) :
          At(output, a, OtherFields(i)) /\ \A q \in 1..(a - 1) : output[q] = Blank
    BY <1>2, <2>1, OtherFound
  <2>5. NameTaken(l.word, others[i])
    <3>1. /\ NextWord(output) = [word |-> <<Tag("?")>>, rest |-> From(output, a + 1)]
          /\ NameTaken(Line(Ws(From(output, a + 1))).word, others[i])
      BY <1>2, <2>2, <2>4, ParseOther
    <3>2. NextWord(output).rest = From(output, a + 1)
      BY <3>1
    <3> QED  BY <3>1, <3>2
  <2>6. OfOther(r)
    BY <2>1, <2>5 DEF OfOther
  <2> HIDE DEF l, r
  <2> QED  BY <1>1, <1>2, <2>1, <2>3, <2>6, AddRow
<1> QED  BY <1>5, <1>6, <1>7, <1>8, <1>9 DEF Next

\* To the listing, the steps that read attributes are none.
LEMMA ScanIsList == [ScanNext]_allvars => [Next]_vars
BY Zenon DEF ScanNext, Ask, ReadLine, Status, ListFor, ListedForAll, allvars

LEMMA ListInvAlways == ScanSpec => [](ListInv /\ GenuineInv)
<1>1. ScanInit => ListInv /\ GenuineInv
  BY InitListInv DEF ScanInit
<1> QED  BY <1>1, NextListInv, NextGenuineInv, ScanIsList, PTL DEF ScanSpec

-----------------------------------------------------------------------------
(* What is left of the output, entry by entry.                             *)

\* What comes behind the first m parts.
Behind(bs, m) == FlattenSeq([i \in 1..(Len(bs) - m) |-> bs[m + i]])

LEMMA JoinedAlike ==
  ASSUME NEW S, NEW a \in Seq(S), NEW b \in Seq(S), NEW c \in Seq(S)
  PROVE  (a \o b) \o c = a \o (b \o c)
BY ConcatAssociative

\* A text is its first part and what comes behind it.
LEMMA FlattenFirst ==
  ASSUME NEW S, NEW bs \in Seq(Seq(S)), Len(bs) # 0
  PROVE  FlattenSeq(bs) = bs[1] \o FlattenSeq([i \in 1..(Len(bs) - 1) |-> bs[1 + i]])
<1>0. \A a, b, c \in Seq(S) : (a \o b) \o c = a \o (b \o c)
  BY SMTT(30), JoinedAlike
<1> DEFINE n == Len(bs)  cs == [i \in 1..(n - 1) |-> bs[1 + i]]
<1>1. n \in Nat /\ n # 0 /\ \A i \in 1..n : bs[i] \in Seq(S)
  BY LenProperties
<1>2. cs \in Seq(Seq(S)) /\ Len(cs) = n - 1 /\ \A i \in 1..(n - 1) : cs[i] = bs[1 + i]
  <2>1. \A i \in 1..(n - 1) : bs[1 + i] \in Seq(S)
    BY <1>1
  <2> HIDE DEF n
  <2> QED  BY <1>1, <2>1, IsASeq
<1>3. \A s, t \in Seq(S) : s \o t \in Seq(S)
  BY ConcatProperties
<1>4. PICK f \in [1..n -> Seq(S)] : Flat(bs, f, n) /\ FlattenSeq(bs) = f[n]
  BY <1>1, <1>3, FlattenIs
<1> HIDE DEF n, cs
<1>5. \A i \in 1..n : f[i] = IF i = 1 THEN bs[i] ELSE f[i - 1] \o bs[i]
  BY <1>4 DEF Flat
<1>6. CASE n = 1
  <2>1. FlattenSeq(cs) = <<>>
    <3>1. Len(cs) = 0
      BY <1>2, <1>6
    <3> QED  BY <1>2, <3>1, EmptySeq DEF FlattenSeq
  <2>2. f[n] = bs[1] /\ bs[1] \in Seq(S)
    BY <1>1, <1>5, <1>6
  <2>3. bs[1] \o <<>> = bs[1]
    BY <2>2, ConcatEmptySeq
  <2> QED  BY <1>4, <2>1, <2>2, <2>3 DEF n, cs
<1>7. CASE n # 1
  <2>1. Len(cs) # 0
    BY <1>1, <1>2, <1>7
  <2>2. PICK g \in [1..Len(cs) -> Seq(S)] : Flat(cs, g, Len(cs)) /\ FlattenSeq(cs) = g[Len(cs)]
    BY <1>2, <1>3, <2>1, FlattenIs
  <2>3. \A i \in 1..(n - 1) : g[i] = IF i = 1 THEN cs[i] ELSE g[i - 1] \o cs[i]
    BY <1>2, <2>2 DEF Flat
  <2>4. \A i \in 1..(n - 1) : g[i] \in Seq(S) /\ cs[i] \in Seq(S) /\ cs[i] = bs[1 + i]
    <3>1. \A i \in 1..(n - 1) : 1 + i \in 1..n /\ i \in 1..Len(cs)
      BY <1>1, <1>2
    <3> QED  BY <1>1, <1>2, <2>2, <3>1
  <2>5. \A i \in 1..(n - 1) : f[1 + i] = bs[1] \o g[i]
    <3> DEFINE Bad == {i \in 1..(n - 1) : f[1 + i] # bs[1] \o g[i]}
    <3> SUFFICES ASSUME Bad # {} PROVE FALSE
      OBVIOUS
    <3>1. PICK i \in Bad : \A j \in Bad : i <= j
      <4>1. 1..(n - 1) \subseteq Nat
        BY <1>1
      <4>2. Bad \subseteq Nat
        BY <4>1
      <4> HIDE DEF Bad
      <4> QED  BY <4>2, LeastNat
    <3>2. i \in 1..(n - 1) /\ 1 + i \in 1..n /\ 1 + i # 1 /\ (1 + i) - 1 = i /\ i \in 1..n
      BY <1>1
    <3>3. f[1 + i] = f[i] \o bs[1 + i]
      BY <1>5, <3>2
    <3>4. CASE i = 1
      <4>1. f[i] = bs[1] /\ g[i] = cs[i]
        BY <1>5, <2>3, <3>2, <3>4
      <4> QED  BY <2>4, <3>2, <3>3, <4>1
    <3>5. CASE i # 1
      <4>1. i - 1 \in 1..(n - 1) /\ 1 + (i - 1) = i /\ i - 1 \notin Bad
        <5>1. i \in Int /\ i - 1 \in 1..(n - 1) /\ 1 + (i - 1) = i /\ ~(i <= i - 1)
          BY <1>1, <3>2, <3>5
        <5> HIDE DEF Bad
        <5> QED  BY <3>1, <5>1
      <4>2. f[i] = bs[1] \o g[i - 1] /\ g[i] = g[i - 1] \o cs[i]
        BY <2>3, <3>2, <3>5, <4>1
      <4>3. bs[1] \in Seq(S) /\ g[i - 1] \in Seq(S) /\ cs[i] \in Seq(S)
        BY SMTT(30), <1>1, <2>4, <3>2, <4>1
      <4>4. (bs[1] \o g[i - 1]) \o cs[i] = bs[1] \o (g[i - 1] \o cs[i])
        BY <1>0, <4>3
      <4>5. f[1 + i] = bs[1] \o g[i]
        BY <2>4, <3>2, <3>3, <4>2, <4>4
      <4> QED  BY <3>2, <4>5
    <3> QED  BY <3>4, <3>5
  <2>6. n - 1 \in 1..(n - 1) /\ 1 + (n - 1) = n
    BY <1>1, <1>7
  <2>7. f[n] = bs[1] \o g[n - 1]
    BY <2>5, <2>6
  <2> QED  BY <1>2, <1>4, <2>2, <2>7 DEF n, cs
<1> QED  BY <1>6, <1>7

LEMMA BehindIs ==
  ASSUME NEW bs \in Seq(Texts)
  PROVE  /\ Behind(bs, 0) = FlattenSeq(bs) /\ Behind(bs, Len(bs)) = <<>>
         /\ \A m \in 0..Len(bs) : Behind(bs, m) \in Texts
         /\ \A m \in 0..(Len(bs) - 1) : Behind(bs, m) = bs[m + 1] \o Behind(bs, m + 1)
<1>1. Len(bs) \in Nat /\ \A i \in 1..Len(bs) : bs[i] \in Texts
  BY LenProperties
<1> DEFINE P(m) == [i \in 1..(Len(bs) - m) |-> bs[m + i]]
<1>2. \A m \in 0..Len(bs) : P(m) \in Seq(Texts) /\ Len(P(m)) = Len(bs) - m
  <2> TAKE m \in 0..Len(bs)
  <2>1. \A i \in 1..(Len(bs) - m) : bs[m + i] \in Texts
    BY <1>1
  <2> QED  BY <1>1, <2>1, IsASeq
<1>3. Behind(bs, 0) = FlattenSeq(bs)
  <2>1. P(0) \in Seq(Texts) /\ Len(P(0)) = Len(bs) /\ \A i \in 1..Len(bs) : P(0)[i] = bs[i]
    BY <1>1, <1>2
  <2> DEFINE p == P(0)
  <2>2. p \in Seq(Texts) /\ Len(p) = Len(bs) /\ \A i \in 1..Len(p) : p[i] = bs[i]
    BY <2>1
  <2> HIDE DEF p
  <2>3. p = bs
    BY <2>2, SeqEqual
  <2> QED  BY <2>3 DEF Behind, p
<1>4. \A s, t \in Texts : s \o t \in Texts
  BY ConcatProperties DEF Texts
<1>5. \A m \in 0..Len(bs) : Behind(bs, m) \in Texts
  <2> TAKE m \in 0..Len(bs)
  <2> DEFINE p == P(m)
  <2>1. p \in Seq(Texts)
    BY <1>2
  <2>2. Behind(bs, m) = FlattenSeq(p)
    BY DEF Behind
  <2> HIDE DEF p
  <2> QED  BY <1>4, <2>1, <2>2, FlatIn, EmptyText
<1>6. Behind(bs, Len(bs)) = <<>>
  <2> DEFINE p == P(Len(bs))
  <2>1. p \in Seq(Texts) /\ Len(p) = 0
    BY <1>1, <1>2
  <2>2. Behind(bs, Len(bs)) = FlattenSeq(p)
    BY DEF Behind
  <2> HIDE DEF p
  <2> QED  BY <2>1, <2>2, EmptySeq DEF FlattenSeq
<1>7. ASSUME NEW m \in 0..(Len(bs) - 1)
      PROVE  Behind(bs, m) = bs[m + 1] \o Behind(bs, m + 1)
  <2> DEFINE p == P(m)  r == [i \in 1..(Len(p) - 1) |-> p[1 + i]]
  <2>1. m \in 0..Len(bs) /\ m + 1 \in 0..Len(bs)
    BY <1>1
  <2>2. /\ p \in Seq(Texts) /\ Len(p) = Len(bs) - m /\ Len(p) # 0
        /\ \A i \in 1..Len(p) : p[i] = bs[m + i]
    BY <1>1, <1>2, <2>1
  <2>3. r = P(m + 1)
    <3>1. 1..(Len(p) - 1) = 1..(Len(bs) - (m + 1))
      BY <1>1, <2>2
    <3>2. \A i \in 1..(Len(p) - 1) : p[1 + i] = bs[(m + 1) + i]
      <4> TAKE i \in 1..(Len(p) - 1)
      <4>1. 1 + i \in 1..Len(p) /\ m + (1 + i) = (m + 1) + i
        BY <1>1, <2>2
      <4> QED  BY <2>2, <4>1
    <3> HIDE DEF p
    <3> QED  BY <3>1, <3>2
  <2>4. p[1] = bs[m + 1]
    <3>1. 1 \in 1..Len(p)
      BY <1>1, <2>2
    <3> QED  BY <2>2, <3>1
  <2>5. Behind(bs, m) = FlattenSeq(p) /\ Behind(bs, m + 1) = FlattenSeq(r)
    BY <2>3 DEF Behind
  <2> HIDE DEF p
  <2>6. FlattenSeq(p) = p[1] \o FlattenSeq(r)
    BY <2>2, FlattenFirst DEF Texts
  <2> QED  BY <2>4, <2>5, <2>6
<1> QED  BY <1>3, <1>5, <1>6, <1>7

\* Behind the first of two parts is the second.
LEMMA FromConcat ==
  ASSUME NEW s \in Texts, NEW t \in Texts
  PROVE  /\ s \o t \in Texts /\ Len(s \o t) = Len(s) + Len(t)
         /\ At(s \o t, 1, s) /\ From(s \o t, Len(s) + 1) = t
<1> DEFINE u == s \o t
<1>1. /\ u \in Texts /\ Len(u) = Len(s) + Len(t)
      /\ \A i \in 1..(Len(s) + Len(t)) : u[i] = IF i <= Len(s) THEN s[i] ELSE t[i - Len(s)]
  BY ConcatProperties DEF Texts
<1>2. Len(s) \in Nat /\ Len(t) \in Nat
  BY LenProperties DEF Texts
<1> HIDE DEF u
<1>3. At(u, 1, s)
  BY <1>1, <1>2 DEF At
<1>4. From(u, Len(s) + 1) = t
  <2> DEFINE c == Len(s) + 1
  <2>1. c \in 1..(Len(u) + 1) /\ Len(u) - c + 1 = Len(t)
    BY <1>1, <1>2
  <2>2. /\ From(u, c) \in Texts /\ Len(From(u, c)) = Len(t)
        /\ \A q \in 1..Len(t) : From(u, c)[q] = u[c + q - 1]
    BY <1>1, <2>1, FromType, ZenonT(60) DEF Texts
  <2>3. \A q \in 1..Len(t) : u[c + q - 1] = t[q]
    <3> TAKE q \in 1..Len(t)
    <3>1. c + q - 1 \in 1..(Len(s) + Len(t)) /\ ~(c + q - 1 <= Len(s)) /\ c + q - 1 - Len(s) = q
      BY <1>2
    <3> QED  BY <1>1, <3>1
  <2> HIDE DEF c
  <2>4. From(u, c) = t
    BY <2>2, <2>3, SeqEqual DEF Texts
  <2> QED  BY <2>4 DEF c
<1> QED  BY <1>1, <1>3, <1>4 DEF u

\* The rows with one more.
LEMMA RangeAppend ==
  ASSUME NEW S, NEW s \in Seq(S), NEW r \in S
  PROVE  Range(Append(s, r)) = Range(s) \cup {r}
<1>1. /\ Len(s) \in Nat /\ DOMAIN s = 1..Len(s)
      /\ DOMAIN Append(s, r) = 1..(Len(s) + 1)
      /\ \A j \in 1..Len(s) : Append(s, r)[j] = s[j]
      /\ Append(s, r)[Len(s) + 1] = r
  BY AppendProperties, LenProperties
<1> DEFINE t == Append(s, r)
<1> HIDE DEF t
<1>2. \A j \in 1..(Len(s) + 1) : j = Len(s) + 1 \/ j \in 1..Len(s)
  BY <1>1
<1>3. Len(s) + 1 \in 1..(Len(s) + 1) /\ \A j \in 1..Len(s) : j \in 1..(Len(s) + 1)
  BY <1>1
<1>4. Range(t) = Range(s) \cup {r}
  BY <1>1, <1>2, <1>3 DEF Range, t
<1> QED  BY <1>4 DEF t

\* The rows of the files among the first m entries.
RowsTo(m) == {RowOf(i) : i \in Files \cap 1..m}

LEMMA RowsToIs ==
  ASSUME Listed
  PROVE  /\ RowsTo(0) = {} /\ RowsTo(Len(tracked)) = {RowOf(i) : i \in Files}
         /\ \A m \in Nat : RowsTo(m) \subseteq {RowOf(i) : i \in Files}
         /\ \A m \in 0..(Len(tracked) - 1) :
              RowsTo(m + 1) = RowsTo(m) \cup IF tracked[m + 1].kind = "file" THEN {RowOf(m + 1)} ELSE {}
<1>1. Len(tracked) \in Nat /\ DOMAIN tracked = 1..Len(tracked)
  BY LenProperties DEF Listed
<1>2. Files \cap 1..0 = {} /\ Files \cap 1..Len(tracked) = Files
  BY <1>1 DEF Files
<1>3. ASSUME NEW m \in 0..(Len(tracked) - 1)
      PROVE  Files \cap 1..(m + 1) = (Files \cap 1..m) \cup IF tracked[m + 1].kind = "file" THEN {m + 1} ELSE {}
  <2>1. m + 1 \in DOMAIN tracked /\ \A i \in 1..(m + 1) : i = m + 1 \/ i \in 1..m
    BY <1>1
  <2>2. m + 1 \in 1..(m + 1) /\ \A i \in 1..m : i \in 1..(m + 1)
    BY <1>1
  <2>3. m + 1 \in Files <=> tracked[m + 1].kind = "file"
    BY <2>1 DEF Files
  <2> QED  BY <2>1, <2>2, <2>3
<1>4. \A m \in 0..(Len(tracked) - 1) :
        RowsTo(m + 1) = RowsTo(m) \cup IF tracked[m + 1].kind = "file" THEN {RowOf(m + 1)} ELSE {}
  BY <1>3, Zenon DEF RowsTo
<1> QED  BY <1>2, <1>4, Zenon DEF RowsTo

\* What the reads give at the start of an entry with a plain name.
LEMMA ReadEntry ==
  ASSUME Listed, AllPlain, NEW i \in DOMAIN tracked, NEW u \in Texts, NEW a \in 1..Len(u),
         At(u, a, Fields(i)), \A q \in 1..(a - 1) : u[q] = Blank
  PROVE  /\ IsFileMode(NextWord(u).word) <=> tracked[i].kind = "file"
         /\ [name |-> NameAt(u).word, id |-> IdAt(u).word] = RowOf(i)
         /\ StageAt(u).rest = From(u, a + 5)
         /\ NameAt(u).rest = From(u, a + Len(tracked[i].name) + 7)
<1>1. /\ NextWord(u).word = <<Mode(tracked[i].kind)>> /\ IdAt(u).word = <<Id(i)>>
      /\ StageAt(u).rest = From(u, a + 5)
      /\ NameTaken(NameAt(u).word, tracked[i].name)
      /\ NameAt(u).rest = From(u, a + Len(tracked[i].name) + 7)
  BY ReadFields
<1>2. NameAt(u).word = tracked[i].name
  BY <1>1, PlainNames DEF NameTaken
<1>3. \A k : IsFileMode(<<Mode(k)>>) <=> k = "file"
  BY Distinct DEF IsFileMode
<1> QED  BY <1>1, <1>2, <1>3 DEF RowOf

-----------------------------------------------------------------------------
(* lock and unlock read entry after entry.                                 *)

ListAt(m) == output = Behind(Entries, m) /\ Range(rows) = RowsTo(m)
ListExact ==
  reader = "get_encrypted_files" /\ AllPlain => \E m \in 0..Len(tracked) : ListAt(m)

LEMMA EntriesAre ==
  ASSUME Listed
  PROVE  /\ Entries \in Seq(Texts) /\ TaggedEntries \in Seq(Texts) /\ OtherEntries \in Seq(Texts)
         /\ Len(tracked) \in Nat /\ DOMAIN tracked = 1..Len(tracked)
         /\ Len(others) \in Nat /\ DOMAIN others = 1..Len(others)
         /\ Len(Entries) = Len(tracked) /\ Len(TaggedEntries) = Len(tracked)
         /\ Len(OtherEntries) = Len(others)
<1>1. PartsTyped
  BY PartsAreTyped
<1>2. /\ DOMAIN tracked = 1..Len(tracked) /\ Len(tracked) \in Nat
      /\ DOMAIN others = 1..Len(others) /\ Len(others) \in Nat
  BY LenProperties DEF Listed
<1>3. DOMAIN Entries = DOMAIN tracked /\ DOMAIN TaggedEntries = DOMAIN tracked
      /\ DOMAIN OtherEntries = DOMAIN others
  BY DEF Entries, TaggedEntries, OtherEntries
<1> QED  BY <1>1, <1>2, <1>3, LenProperties DEF PartsTyped

LEMMA TakeListedMoves ==
  ASSUME ListInv, AllPlain, NEW m \in 0..Len(tracked), ListAt(m), TakeListed
  PROVE  m + 1 \in 0..Len(tracked) /\ output' = Behind(Entries, m + 1) /\ Range(rows') = RowsTo(m + 1)
<1>1. Listed /\ rows \in Seq(Row)
  BY DEF ListInv
<1>2. /\ Entries \in Seq(Texts) /\ Len(Entries) = Len(tracked) /\ Len(tracked) \in Nat
      /\ DOMAIN tracked = 1..Len(tracked)
  BY <1>1, EntriesAre
<1>3. /\ output # <<>> /\ output' = NameAt(output).rest
      /\ \/ /\ IsFileMode(NextWord(output).word)
            /\ rows' = Append(rows, [name |-> NameAt(output).word, id |-> IdAt(output).word])
         \/ ~IsFileMode(NextWord(output).word) /\ UNCHANGED rows
  BY TakeListedIs
<1>4. m # Len(tracked)
  BY <1>2, <1>3, BehindIs DEF ListAt
<1> DEFINE i == m + 1  t == Behind(Entries, i)
<1>5. m \in 0..(Len(tracked) - 1) /\ i \in DOMAIN tracked /\ i \in 0..Len(tracked)
  BY <1>2, <1>4
<1>6. t \in Texts /\ output = Fields(i) \o t
  <2>1. Behind(Entries, m) = Entries[i] \o t /\ t \in Texts
    BY <1>2, <1>5, BehindIs
  <2>2. Entries[i] = Fields(i)
    BY <1>5 DEF Entries
  <2> QED  BY <2>1, <2>2 DEF ListAt
<1>7. Fields(i) \in Texts /\ Len(Fields(i)) = Len(tracked[i].name) + 7 /\ Len(tracked[i].name) \in Nat
  BY <1>1, <1>5, FieldsAre, EntryType, NameTokens
<1> HIDE DEF t, i
<1>8. /\ output \in Texts /\ At(output, 1, Fields(i)) /\ From(output, Len(Fields(i)) + 1) = t
      /\ 1 \in 1..Len(output)
  <2>1. /\ output \in Texts /\ Len(output) = Len(Fields(i)) + Len(t)
        /\ At(output, 1, Fields(i)) /\ From(output, Len(Fields(i)) + 1) = t
    BY <1>6, <1>7, FromConcat
  <2>2. Len(t) \in Nat
    BY <1>6, LenProperties DEF Texts
  <2> QED  BY <1>7, <2>1, <2>2
<1>9. /\ IsFileMode(NextWord(output).word) <=> tracked[i].kind = "file"
      /\ [name |-> NameAt(output).word, id |-> IdAt(output).word] = RowOf(i)
      /\ NameAt(output).rest = From(output, 1 + Len(tracked[i].name) + 7)
  BY <1>1, <1>5, <1>8, ReadEntry
<1>10. NameAt(output).rest = t
  <2>1. 1 + Len(tracked[i].name) + 7 = Len(Fields(i)) + 1
    BY <1>7
  <2> QED  BY <1>8, <1>9, <2>1
<1>11. Range(rows') = RowsTo(m) \cup IF tracked[i].kind = "file" THEN {RowOf(i)} ELSE {}
  <2>1. CASE tracked[i].kind = "file"
    <3>1. rows' = Append(rows, RowOf(i))
      BY <1>3, <1>9, <2>1
    <3>2. RowOf(i) \in Row
      <4>1. NameAt(output).word \in NameTexts /\ IdAt(output).word \in Texts
        BY <1>8, ReadsTyped
      <4> QED  BY <1>9, <4>1 DEF Row
    <3> QED  BY <1>1, <2>1, <3>1, <3>2, RangeAppend DEF ListAt
  <2>2. CASE tracked[i].kind # "file"
    BY <1>3, <1>9, <2>2 DEF ListAt
  <2> QED  BY <2>1, <2>2
<1>12. RowsTo(m + 1) = RowsTo(m) \cup IF tracked[i].kind = "file" THEN {RowOf(i)} ELSE {}
  BY <1>1, <1>5, RowsToIs DEF i
<1> QED  BY <1>3, <1>5, <1>10, <1>11, <1>12 DEF t, i

\* Only behind the last entry is there nothing.
LEMMA ListEnds ==
  ASSUME Listed, NEW m \in 0..Len(tracked)
  PROVE  /\ Behind(Entries, m) = <<>> => m = Len(tracked)
         /\ Behind(TaggedEntries, m) = <<>> => m = Len(tracked)
<1>1. /\ Entries \in Seq(Texts) /\ Len(Entries) = Len(tracked) /\ Len(tracked) \in Nat
      /\ TaggedEntries \in Seq(Texts) /\ Len(TaggedEntries) = Len(tracked)
      /\ DOMAIN tracked = 1..Len(tracked)
  BY EntriesAre
<1> SUFFICES ASSUME m # Len(tracked)
             PROVE  Behind(Entries, m) # <<>> /\ Behind(TaggedEntries, m) # <<>>
  OBVIOUS
<1>2. m \in 0..(Len(tracked) - 1) /\ m + 1 \in DOMAIN tracked /\ m + 1 \in 0..Len(tracked)
  BY <1>1
<1>3. \A s \in Texts, t \in Texts : Len(s) > 0 => s \o t # <<>>
  <2> TAKE s \in Texts, t \in Texts
  <2> HAVE Len(s) > 0
  <2>1. Len(s \o t) = Len(s) + Len(t) /\ Len(s) \in Nat /\ Len(t) \in Nat
    BY ConcatProperties, LenProperties DEF Texts
  <2>2. Len(s \o t) # 0
    BY <2>1
  <2> QED  BY <2>2, EmptySeq
<1>4. Fields(m + 1) \in Texts /\ Len(Fields(m + 1)) > 0
  BY <1>2, FieldsAre, EntryType, NameTokens
<1>5. TagH \o Fields(m + 1) \in Texts /\ Len(TagH \o Fields(m + 1)) > 0
  <2>1. TagH \in Texts /\ Len(TagH) = 2
    BY TagHGenuine DEF TagH
  <2> QED  BY <1>4, <2>1, FromConcat
<1>6. Entries[m + 1] = Fields(m + 1) /\ TaggedEntries[m + 1] = TagH \o Fields(m + 1)
  BY <1>2 DEF Entries, TaggedEntries
<1> QED  BY <1>1, <1>2, <1>3, <1>4, <1>5, <1>6, BehindIs

\* What is behind the entries stays, and so do the rows to be.
LEMMA PartsFixed ==
  ASSUME UNCHANGED <<others, tracked>>
  PROVE  /\ Entries' = Entries /\ TaggedEntries' = TaggedEntries /\ OtherEntries' = OtherEntries
         /\ \A m : RowsTo(m)' = RowsTo(m)
         /\ \A bs, m : Behind(bs, m)' = Behind(bs, m)
BY DEF Entries, TaggedEntries, OtherEntries, Fields, OtherFields, RowsTo, RowOf, Files, Behind

LEMMA NextListExact == ListInv /\ ListExact /\ [Next]_vars => ListExact'
<1> SUFFICES ASSUME ListInv, ListExact, [Next]_vars, reader' = "get_encrypted_files", AllPlain'
             PROVE  \E m \in 0..Len(tracked') : ListAt(m)'
  BY DEF ListExact
<1>1. UNCHANGED <<others, tracked, reader>>
  BY TakeListedIs, TakeOtherIs, TakeTrackedIs, PassLinkIs DEF Next, vars
<1>2. AllPlain /\ reader = "get_encrypted_files"
  BY <1>1, Fixed
<1>3. PICK m \in 0..Len(tracked) : ListAt(m)
  BY <1>2 DEF ListExact
<1>4. CASE UNCHANGED vars
  BY <1>1, <1>3, <1>4, PartsFixed DEF vars, ListAt
<1>5. CASE TakeListed
  BY <1>1, <1>2, <1>3, <1>5, TakeListedMoves, PartsFixed DEF ListAt
<1>6. ~(TakeOther \/ TakeTracked \/ PassLink)
  BY <1>2 DEF TakeOther, TakeTracked, PassLink
<1> QED  BY <1>4, <1>5, <1>6 DEF Next

LEMMA InitListExact == Init => ListExact
<1> SUFFICES ASSUME Init, reader = "get_encrypted_files" PROVE \E m \in 0..Len(tracked) : ListAt(m)
  BY DEF ListExact
<1>1. Listed
  BY InitListInv DEF ListInv
<1>2. 0 \in 0..Len(tracked) /\ Behind(Entries, 0) = FlattenSeq(Entries)
  <2>1. Entries \in Seq(Texts) /\ Len(tracked) \in Nat
    BY <1>1, EntriesAre
  <2>2. Behind(Entries, 0) = FlattenSeq(Entries)
    BY <2>1, BehindIs, Zenon
  <2> QED  BY <2>1, <2>2
<1>3. output = Behind(Entries, 0)
  BY <1>2, ListingsAre DEF Init
<1>4. Range(rows) = RowsTo(0)
  BY <1>1, RowsToIs DEF Init, Range
<1> QED  BY <1>2, <1>3, <1>4 DEF ListAt

-----------------------------------------------------------------------------
(* status reads the untracked files, and then entry after entry; behind a  *)
(* link with a name of one word it is back in step with the tag that       *)
(* follows.                                                                *)

OtherRow(i) == [name |-> others[i], id |-> <<>>]
OthersTo(m) == {OtherRow(i) : i \in 1..m}

OthersAt(m) ==
  /\ output = Behind(OtherEntries, m) \o Behind(TaggedEntries, 0)
  /\ Range(rows) = OthersTo(m)

\* Behind entry m, or in it and behind the stage of a link.
Passed(m) == m > 0 /\ m \notin Files /\ output = From(Behind(TaggedEntries, m - 1), 8)
StatusAt(m) ==
  /\ output = Behind(TaggedEntries, m) \/ Passed(m)
  /\ Range(rows) = OthersTo(Len(others)) \cup RowsTo(m)

StatusExact ==
  reader = "status" /\ AllPlain /\ OneWords =>
    \/ \E m \in 0..Len(others) : OthersAt(m)
    \/ \E m \in 0..Len(tracked) : StatusAt(m)

\* An entry with its tag, by places.
LEMMA TaggedAre ==
  ASSUME Listed, NEW m \in 0..(Len(tracked) - 1)
  PROVE  /\ Behind(TaggedEntries, m) \in Texts /\ Behind(TaggedEntries, m + 1) \in Texts
         /\ Behind(TaggedEntries, m)[1] = Tag("H") /\ Behind(TaggedEntries, m)[2] = Blank
         /\ At(Behind(TaggedEntries, m), 3, Fields(m + 1))
         /\ Len(tracked[m + 1].name) \in Nat /\ Len(tracked[m + 1].name) > 0
         /\ Len(Behind(TaggedEntries, m)) = Len(tracked[m + 1].name) + 9 + Len(Behind(TaggedEntries, m + 1))
         /\ Len(Behind(TaggedEntries, m + 1)) \in Nat
         /\ From(Behind(TaggedEntries, m), Len(tracked[m + 1].name) + 10) = Behind(TaggedEntries, m + 1)
<1> DEFINE f == Fields(m + 1)  t == Behind(TaggedEntries, m + 1)  n == tracked[m + 1].name
           h == TagH \o f  u == h \o t
<1>1. /\ TaggedEntries \in Seq(Texts) /\ Len(TaggedEntries) = Len(tracked)
      /\ Len(tracked) \in Nat /\ DOMAIN tracked = 1..Len(tracked)
  BY EntriesAre
<1>2. m + 1 \in DOMAIN tracked /\ m + 1 \in 0..Len(tracked) /\ TaggedEntries[m + 1] = h
  <2>1. m + 1 \in DOMAIN tracked /\ m + 1 \in 0..Len(tracked)
    BY <1>1
  <2> QED  BY <2>1 DEF TaggedEntries
<1>3. Behind(TaggedEntries, m) = u /\ t \in Texts
  BY <1>1, <1>2, BehindIs
<1>4. f \in Texts /\ Len(f) = Len(n) + 7 /\ Len(n) \in Nat /\ Len(n) > 0
  BY <1>2, FieldsAre, EntryType, NameTokens
<1>5. TagH \in Texts /\ Len(TagH) = 2 /\ TagH[1] = Tag("H") /\ TagH[2] = Blank
  BY TagHGenuine DEF TagH
<1> HIDE DEF f, t, n
<1>6. /\ h \in Texts /\ Len(h) = Len(n) + 9 /\ At(h, 1, TagH)
      /\ At(h, 3, f)
  <2>1. h \in Texts /\ Len(h) = Len(TagH) + Len(f) /\ At(h, 1, TagH)
    BY <1>4, <1>5, FromConcat, Zenon
  <2>2. At(f, 1, f)
    BY <1>4, AtStart DEF Texts
  <2>3. At(h, Len(TagH) + 1, f)
    <3>1. TagH \in Seq(Tokens) /\ f \in Seq(Tokens) /\ 1 \in Nat /\ 1 > 0
      BY <1>4, <1>5 DEF Texts
    <3> QED  BY <2>2, <3>1, AtConcat, Zenon
  <2>4. Len(TagH) + 1 = 3 /\ Len(TagH) + Len(f) = Len(n) + 9
    BY <1>4, <1>5
  <2> QED  BY <2>1, <2>3, <2>4
<1> HIDE DEF h
<1>7. /\ u \in Texts /\ Len(u) = Len(n) + 9 + Len(t) /\ At(u, 1, h)
      /\ From(u, Len(n) + 10) = t /\ Len(t) \in Nat
  <2>1. /\ u \in Texts /\ Len(u) = Len(h) + Len(t) /\ At(u, 1, h)
        /\ From(u, Len(h) + 1) = t
    BY <1>3, <1>6, FromConcat
  <2>2. Len(t) \in Nat /\ Len(h) + 1 = Len(n) + 10
    BY <1>3, <1>4, <1>6, LenProperties DEF Texts
  <2> QED  BY <1>6, <2>1, <2>2
<1>8. At(u, 3, f)
  BY <1>3, <1>4, <1>6, AtConcat DEF Texts
<1> HIDE DEF u
<1>9. u[1] = Tag("H") /\ u[2] = Blank
  <2>1. h[1] = TagH[1] /\ h[2] = TagH[2]
    BY <1>5, <1>6 DEF At
  <2>2. u[1] = h[1] /\ u[2] = h[2]
    BY <1>4, <1>6, <1>7 DEF At
  <2> QED  BY <1>5, <2>1, <2>2
<1> QED  BY <1>3, <1>4, <1>7, <1>8, <1>9 DEF f, t, n

\* The tag where the reader is in step: what follows is the entry.
LEMMA TagRead ==
  ASSUME Listed, NEW m \in 0..(Len(tracked) - 1)
  PROVE  /\ NextWord(Behind(TaggedEntries, m)).word = <<Tag("H")>>
         /\ NextWord(Behind(TaggedEntries, m)).rest = From(Behind(TaggedEntries, m), 2)
<1> DEFINE u == Behind(TaggedEntries, m)
<1>1. u \in Texts /\ Len(u) \in Nat /\ Len(u) >= 10 /\ u[1] = Tag("H") /\ u[2] = Blank
  <2>1. /\ u \in Texts /\ u[1] = Tag("H") /\ u[2] = Blank
        /\ Len(u) = Len(tracked[m + 1].name) + 9 + Len(Behind(TaggedEntries, m + 1))
        /\ Len(tracked[m + 1].name) \in Nat /\ Len(tracked[m + 1].name) > 0
        /\ Len(Behind(TaggedEntries, m + 1)) \in Nat
    BY TaggedAre
  <2> DEFINE N == Len(tracked[m + 1].name)  T == Len(Behind(TaggedEntries, m + 1))
  <2>2. Len(u) = N + 9 + T /\ N \in Nat /\ N > 0 /\ T \in Nat
    BY <2>1
  <2> HIDE DEF u, N, T
  <2>3. Len(u) \in Nat /\ Len(u) >= 10
    BY <2>2
  <2> QED  BY <2>1, <2>3
<1> HIDE DEF u
<1>2. 1 \in 1..Len(u) /\ 1 \in 1..(Len(u) - 1) /\ u[1] # Blank /\ u[1 + 1] = Blank
  BY <1>1, Distinct
<1>3. From(u, 1) = u
  BY <1>1, SubSeqFull DEF From, Texts
<1>4. NextWord(From(u, 1)) = [word |-> <<u[1]>>, rest |-> From(u, 1 + 1)]
  BY <1>1, <1>2, OneWordFrom
<1> QED  BY <1>1, <1>3, <1>4 DEF u

\* The tag behind a link that was passed: it ends a word that starts with the name,
\* and again what follows is the entry, or nothing.
LEMMA LinkRead ==
  ASSUME Listed, AllPlain, OneWords, NEW m \in 1..Len(tracked), Passed(m)
  PROVE  /\ output # <<>> /\ NextWord(output).word # <<Tag("?")>>
         /\ Untagged = IF m = Len(tracked) THEN <<>> ELSE From(Behind(TaggedEntries, m), 2)
<1>0. m # Len(tracked) => m \in 0..(Len(tracked) - 1)
  <2>1. Len(tracked) \in Nat
    BY EntriesAre
  <2> QED  BY <2>1
<1> DEFINE u == Behind(TaggedEntries, m - 1)  t == Behind(TaggedEntries, m)
           n == tracked[m].name  N == Len(n)
<1>1. /\ Len(tracked) \in Nat /\ DOMAIN tracked = 1..Len(tracked)
      /\ TaggedEntries \in Seq(Texts) /\ Len(TaggedEntries) = Len(tracked)
  BY EntriesAre
<1>2. m - 1 \in 0..(Len(tracked) - 1) /\ (m - 1) + 1 = m /\ m \in DOMAIN tracked
  BY <1>1
<1>3. /\ u \in Texts /\ t \in Texts /\ At(u, 3, Fields(m)) /\ N \in Nat /\ N > 0
      /\ Len(u) = N + 9 + Len(t) /\ Len(t) \in Nat /\ From(u, N + 10) = t
  BY <1>2, TaggedAre
<1>4. n \in Names /\ Plain(n) /\ OneWord(n)
  <2>1. m \in DOMAIN tracked \ Files
    BY <1>2 DEF Passed
  <2> QED  BY <2>1, EntryType, PlainNames DEF OneWords
<1>5. \A q \in 1..N : n[q] # Blank
  <2> HIDE DEF n
  <2> QED  BY <1>4, NameTokens DEF OneWord, N
<1>6. /\ u[8] = Blank /\ \A q \in 1..N : u[8 + q] = n[q]
      /\ u[8 + N + 1] = Nul
  <2>1. 3 \in 1..Len(u)
    BY <1>3
  <2>2. /\ u[3 + 5] = Blank /\ \A q \in 1..N : u[(3 + 5) + q] = n[q]
        /\ u[(3 + 5) + N + 1] = Nul
    BY <1>2, <1>3, <2>1, EntryAt
  <2> QED  BY <2>2
<1>7. output = From(u, 8)
  BY DEF Passed
<1>8. m # Len(tracked) => /\ t[1] = Tag("H") /\ t[2] = Blank /\ Len(t) >= 10
  <2> SUFFICES ASSUME m # Len(tracked)
               PROVE  t[1] = Tag("H") /\ t[2] = Blank /\ Len(t) >= 10
    OBVIOUS
  <2>1. m \in 0..(Len(tracked) - 1)
    BY <1>0
  <2>2. /\ t[1] = Tag("H") /\ t[2] = Blank
        /\ Len(t) = Len(tracked[m + 1].name) + 9 + Len(Behind(TaggedEntries, m + 1))
        /\ Len(tracked[m + 1].name) \in Nat /\ Len(tracked[m + 1].name) > 0
        /\ Len(Behind(TaggedEntries, m + 1)) \in Nat
    BY <2>1, TaggedAre
  <2> DEFINE M == Len(tracked[m + 1].name)  T == Len(Behind(TaggedEntries, m + 1))
  <2>3. Len(t) = M + 9 + T /\ M \in Nat /\ M > 0 /\ T \in Nat
    BY <2>2
  <2> HIDE DEF t, M, T
  <2>4. Len(t) >= 10
    BY <2>3
  <2> QED  BY <2>2, <2>4
<1>9. m = Len(tracked) => Len(t) = 0
  BY <1>1, BehindIs, EmptySeq
<1> HIDE DEF u, t, n, N
<1>10. \A q \in 1..Len(t) : t[q] = u[(N + 10) + q - 1]
  <2> DEFINE c == N + 10
  <2>1. c \in 1..(Len(u) + 1) /\ Len(u) - c + 1 = Len(t)
    BY <1>3
  <2>2. \A q \in 1..(Len(u) - c + 1) : From(u, c)[q] = u[c + q - 1]
    BY <1>3, <2>1, FromType, ZenonT(60) DEF Texts
  <2> QED  BY <1>3, <2>1, <2>2
<1>11. \A q \in 9..(N + 9) : u[q] # Blank
  <2> TAKE q \in 9..(N + 9)
  <2>1. CASE q = N + 9
    <3>1. q = 8 + N + 1
      BY <1>3, <2>1
    <3> QED  BY <1>6, <3>1, Distinct
  <2>2. CASE q # N + 9
    <3>1. q - 8 \in 1..N /\ 8 + (q - 8) = q
      BY <1>3, <2>2
    <3> QED  BY <1>5, <1>6, <3>1
  <2> QED  BY <2>1, <2>2
<1>12. 8 \in 1..(Len(u) + 1) /\ 9 \in 8..Len(u) /\ (\A q \in 8..(9 - 1) : u[q] = Blank) /\ u[9] # Blank
  <2>1. \A q \in 8..(9 - 1) : q = 8
    OBVIOUS
  <2> QED  BY <1>3, <1>6, <1>11, <2>1
<1>13. output # <<>>
  <2>1. Len(From(u, 8)) = Len(u) - 8 + 1
    BY <1>3, <1>12, FromType DEF Texts
  <2>2. Len(From(u, 8)) # 0
    BY <1>3, <2>1
  <2> QED  BY <1>7, <2>2, EmptySeq
<1>14. CASE m = Len(tracked)
  <2>1. \A q \in 9..Len(u) : u[q] # Blank
    BY <1>3, <1>9, <1>11, <1>14
  <2>2. NextWord(output) = [word |-> From(u, 9), rest |-> <<>>]
    BY <1>3, <1>7, <1>12, <2>1, LastWordFrom DEF Texts
  <2>3. From(u, 9) # <<Tag("?")>>
    <3>1. 9 \in 1..(Len(u) + 1)
      BY <1>12
    <3>2. Len(From(u, 9)) = Len(u) - 9 + 1
      BY <1>3, <3>1, FromType DEF Texts
    <3>3. Len(From(u, 9)) # 1
      <4> DEFINE L == Len(From(u, 9))  M == Len(t)
      <4>1. L = Len(u) - 9 + 1 /\ Len(u) = N + 9 + M /\ M \in Nat /\ N \in Nat /\ N > 0
        BY <1>3, <3>2
      <4> HIDE DEF L, M
      <4>2. L # 1
        BY <4>1
      <4> QED  BY <4>2 DEF L
    <3>4. Len(<<Tag("?")>>) = 1
      OBVIOUS
    <3> QED  BY <3>3, <3>4
  <2>4. NextWord(output).word = From(u, 9) /\ NextWord(output).rest = <<>>
    BY <2>2
  <2> QED  BY <1>13, <1>14, <2>3, <2>4 DEF Untagged
<1>15. CASE m # Len(tracked)
  <2> DEFINE b == N + 11
  <2>1. u[N + 10] # Blank /\ u[b] = Blank
    <3>1. 1 \in 1..Len(t) /\ 2 \in 1..Len(t) /\ (N + 10) + 1 - 1 = N + 10 /\ (N + 10) + 2 - 1 = b
      BY <1>3, <1>8, <1>15
    <3>2. u[N + 10] = t[1] /\ u[b] = t[2]
      <4> HIDE DEF b
      <4> QED  BY <1>10, <3>1
    <3> QED  BY <1>8, <1>15, <3>2, Distinct
  <2>2. b \in (9 + 1)..Len(u) /\ \A q \in 9..(b - 1) : u[q] # Blank
    <3>1. \A q \in 9..(b - 1) : q \in 9..(N + 9) \/ q = N + 10
      BY <1>3
    <3>2. b \in (9 + 1)..Len(u)
      BY <1>3, <1>8, <1>15
    <3> QED  BY <1>11, <2>1, <3>1, <3>2
  <2>3. b - 1 = N + 10 /\ N + 10 \in Nat
    BY <1>3
  <2> HIDE DEF b
  <2>4. NextWord(output) = [word |-> SubSeq(u, 9, b - 1), rest |-> From(u, b)]
    BY <1>3, <1>7, <1>12, <2>1, <2>2, WordFrom DEF Texts
  <2>5. SubSeq(u, 9, b - 1) # <<Tag("?")>>
    <3>1. \A i \in 9..(b - 1) : u[i] \in Tokens
      BY <1>3, <2>2 DEF Texts
    <3>2. Len(SubSeq(u, 9, b - 1)) = (b - 1) - 9 + 1
      BY <1>3, <2>3, <3>1, SubSeqProperties
    <3>3. Len(SubSeq(u, 9, b - 1)) # 1
      BY <1>3, <2>3, <3>2
    <3>4. Len(<<Tag("?")>>) = 1
      OBVIOUS
    <3> QED  BY <3>3, <3>4
  <2>6. From(u, b) = From(t, 2)
    <3>1. (N + 10) \in 1..(Len(u) + 1) /\ b \in (N + 10)..(Len(u) + 1) /\ b - (N + 10) + 1 = 2
      BY <1>3, <1>8, <1>15 DEF b
    <3> DEFINE c == N + 10
    <3>2. c \in 1..(Len(u) + 1) /\ b \in c..(Len(u) + 1) /\ b - c + 1 = 2 /\ From(u, c) = t
      BY <1>3, <3>1
    <3> HIDE DEF c
    <3>3. From(From(u, c), b - c + 1) = From(u, b)
      BY <1>3, <3>2, FromFrom DEF Texts
    <3> QED  BY <3>2, <3>3
  <2>7. NextWord(output).word = SubSeq(u, 9, b - 1) /\ NextWord(output).rest = From(u, b)
    <3> DEFINE w == SubSeq(u, 9, b - 1)  r == From(u, b)
    <3>1. NextWord(output) = [word |-> w, rest |-> r]
      BY <2>4
    <3> HIDE DEF w, r
    <3>2. NextWord(output).word = w /\ NextWord(output).rest = r
      BY <3>1
    <3> QED  BY <3>2 DEF w, r
  <2> QED  BY <1>13, <1>15, <2>5, <2>6, <2>7 DEF Untagged, t
<1> QED  BY <1>14, <1>15


\* Untracked files come before the entries.
LEMMA OthersToIs ==
  ASSUME Listed
  PROVE  /\ OthersTo(0) = {}
         /\ OthersTo(Len(others)) = {[name |-> n, id |-> <<>>] : n \in Range(others)}
         /\ \A m \in Nat : OthersTo(m + 1) = OthersTo(m) \cup {OtherRow(m + 1)}
<1>1. Len(others) \in Nat /\ DOMAIN others = 1..Len(others)
  BY EntriesAre
<1>2. OthersTo(Len(others)) = {[name |-> n, id |-> <<>>] : n \in Range(others)}
  BY <1>1 DEF OthersTo, OtherRow, Range
<1>3. ASSUME NEW m \in Nat PROVE OthersTo(m + 1) = OthersTo(m) \cup {OtherRow(m + 1)}
  <2>1. 1..(m + 1) = (1..m) \cup {m + 1}
    OBVIOUS
  <2> QED  BY <2>1, Zenon DEF OthersTo
<1>4. OthersTo(0) = {}
  <2>1. 1..0 = {}
    OBVIOUS
  <2> QED  BY <2>1, Zenon DEF OthersTo
<1> QED  BY <1>2, <1>3, <1>4

LEMMA OthersDone ==
  ASSUME Listed, OthersAt(Len(others))
  PROVE  0 \in 0..Len(tracked) /\ StatusAt(0)
<1>1. /\ OtherEntries \in Seq(Texts) /\ TaggedEntries \in Seq(Texts)
      /\ Len(OtherEntries) = Len(others) /\ Len(tracked) \in Nat
  BY EntriesAre
<1> DEFINE t == Behind(TaggedEntries, 0)
<1>2. t \in Texts
  <2>1. Len(TaggedEntries) \in Nat
    BY <1>1, LenProperties
  <2>2. 0 \in 0..Len(TaggedEntries)
    BY <2>1
  <2> QED  BY <1>1, <2>2, BehindIs
<1>3. Behind(OtherEntries, Len(others)) = <<>>
  BY <1>1, BehindIs
<1>4. output = <<>> \o t
  BY <1>3 DEF OthersAt
<1> HIDE DEF t
<1>5. output = t
  BY <1>2, <1>4, ConcatEmptySeq DEF Texts
<1>6. Range(rows) = OthersTo(Len(others)) \cup RowsTo(0)
  <2>1. RowsTo(0) = {} /\ Range(rows) = OthersTo(Len(others))
    BY RowsToIs DEF OthersAt
  <2> QED  BY <2>1
<1>7. 0 \in 0..Len(tracked)
  BY <1>1
<1> QED  BY <1>5, <1>6, <1>7 DEF StatusAt, t

\* Where an untracked file is next, it is read, and nothing else.
LEMMA OthersMove ==
  ASSUME ListInv, AllPlain, NEW m \in 0..Len(others), m # Len(others), OthersAt(m)
  PROVE  /\ output # <<>> /\ NextWord(output).word = <<Tag("?")>> /\ m + 1 \in 0..Len(others)
         /\ Line(Ws(NextWord(output).rest)).rest
              = Behind(OtherEntries, m + 1) \o Behind(TaggedEntries, 0)
         /\ Range(Append(rows, [name |-> Line(Ws(NextWord(output).rest)).word, id |-> <<>>]))
              = OthersTo(m + 1)
<1>1. Listed /\ rows \in Seq(Row)
  BY DEF ListInv
<1>2. /\ OtherEntries \in Seq(Texts) /\ TaggedEntries \in Seq(Texts)
      /\ Len(OtherEntries) = Len(others) /\ Len(others) \in Nat /\ DOMAIN others = 1..Len(others)
  BY <1>1, EntriesAre
<1> DEFINE i == m + 1  t == Behind(TaggedEntries, 0)  b == Behind(OtherEntries, i)
           f == OtherFields(i)  n == others[i]  v == b \o t
<1>3. m \in 0..(Len(others) - 1) /\ i \in DOMAIN others /\ i \in 0..Len(others) /\ m \in Nat
  BY <1>2
<1>4. t \in Texts
  <2>1. Len(TaggedEntries) \in Nat
    BY <1>2, LenProperties
  <2>2. 0 \in 0..Len(TaggedEntries)
    BY <2>1
  <2> QED  BY <1>2, <2>2, BehindIs
<1>5. b \in Texts /\ Behind(OtherEntries, m) = f \o b
  <2>1. b \in Texts /\ Behind(OtherEntries, m) = OtherEntries[i] \o b
    BY <1>2, <1>3, BehindIs
  <2>2. OtherEntries[i] = f
    BY <1>3 DEF OtherEntries
  <2> QED  BY <2>1, <2>2
<1>6. f \in Texts /\ Len(f) = Len(n) + 3 /\ Len(n) \in Nat /\ Plain(n)
  <2>1. n \in Names /\ Plain(n)
    BY <1>1, <1>3, EntryType, PlainNames
  <2>2. f \in Texts /\ Len(f) = Len(n) + 3
    BY <1>1, <1>3, OtherFieldsAre
  <2> HIDE DEF n
  <2> QED  BY <2>1, <2>2, NameTokens
<1>7. output = (f \o b) \o t
  BY <1>5 DEF OthersAt
<1> HIDE DEF t, b, f, n
<1>8. (f \o b) \o t = f \o v /\ v \in Texts
  BY SMTT(30), <1>4, <1>5, <1>6, JoinedAlike, ConcatProperties DEF Texts
<1> HIDE DEF v
<1>9. /\ output \in Texts /\ Len(output) = Len(f) + Len(v) /\ At(output, 1, f)
      /\ From(output, Len(f) + 1) = v
  BY <1>6, <1>7, <1>8, FromConcat
<1>10. 1 \in 1..Len(output)
  <2>1. Len(v) \in Nat
    BY <1>8, LenProperties DEF Texts
  <2> QED  BY <1>6, <1>9, <2>1
<1>11. /\ NextWord(output) = [word |-> <<Tag("?")>>, rest |-> From(output, 1 + 1)]
       /\ NameTaken(Line(Ws(From(output, 1 + 1))).word, n)
       /\ Line(Ws(From(output, 1 + 1))).rest = From(output, 1 + Len(n) + 3)
  BY <1>1, <1>3, <1>9, <1>10, ParseOther DEF f, n
<1>12. NextWord(output).word = <<Tag("?")>> /\ NextWord(output).rest = From(output, 1 + 1)
  <2> DEFINE r == From(output, 1 + 1)
  <2>1. NextWord(output) = [word |-> <<Tag("?")>>, rest |-> r]
    BY <1>11
  <2> HIDE DEF r
  <2>2. NextWord(output).word = <<Tag("?")>> /\ NextWord(output).rest = r
    BY <2>1
  <2> QED  BY <2>2 DEF r
<1>13. Line(Ws(NextWord(output).rest)).rest = v
  <2>1. 1 + Len(n) + 3 = Len(f) + 1
    BY <1>6
  <2> QED  BY <1>9, <1>11, <1>12, <2>1
<1>14. Line(Ws(NextWord(output).rest)).word = n
  BY <1>6, <1>11, <1>12 DEF NameTaken
<1>15. output # <<>>
  BY <1>10, EmptySeq
<1> DEFINE r == [name |-> Line(Ws(NextWord(output).rest)).word, id |-> <<>>]
<1>16. r = OtherRow(i)
  BY <1>14 DEF OtherRow, n
<1>17. r \in Row
  <2>1. NextWord(output).rest \in Texts
    BY <1>9, ReadTyped
  <2>2. Line(Ws(NextWord(output).rest)).word \in NameTexts
    BY <2>1, ReadTyped
  <2> QED  BY <2>2, EmptyText DEF Row
<1> HIDE DEF r
<1>18. Range(Append(rows, r)) = OthersTo(m) \cup {OtherRow(i)}
  <2>1. Range(rows) = OthersTo(m)
    BY DEF OthersAt
  <2> QED  BY <1>1, <1>16, <1>17, <2>1, RangeAppend
<1>19. Range(Append(rows, r)) = OthersTo(m + 1)
  BY <1>1, <1>3, <1>18, OthersToIs DEF i
<1> QED  BY <1>3, <1>12, <1>13, <1>15, <1>19 DEF v, b, t, i, r

\* Where an entry is next, its tag is read.
LEMMA TagPassed ==
  ASSUME Listed, AllPlain, OneWords, NEW m \in 0..Len(tracked), StatusAt(m), output # <<>>
  PROVE  /\ NextWord(output).word # <<Tag("?")>>
         /\ Untagged = IF m = Len(tracked) THEN <<>> ELSE From(Behind(TaggedEntries, m), 2)
<1>1. Len(tracked) \in Nat /\ TaggedEntries \in Seq(Texts) /\ Len(TaggedEntries) = Len(tracked)
  BY EntriesAre
<1>2. CASE Passed(m)
  <2>1. m \in 1..Len(tracked)
    BY <1>1, <1>2 DEF Passed
  <2> QED  BY <1>2, <2>1, LinkRead
<1>3. CASE output = Behind(TaggedEntries, m)
  <2>1. m # Len(tracked)
    BY <1>1, <1>3, BehindIs
  <2>2. m \in 0..(Len(tracked) - 1)
    BY <1>1, <2>1
  <2>3. NextWord(output).word = <<Tag("H")>> /\ NextWord(output).rest = From(output, 2)
    BY <1>3, <2>2, TagRead
  <2>4. <<Tag("H")>> # <<Tag("?")>>
    BY DEF Tag
  <2> QED  BY <1>3, <2>1, <2>3, <2>4 DEF Untagged
<1> QED  BY <1>2, <1>3 DEF StatusAt

\* And then the entry.
LEMMA UntaggedRead ==
  ASSUME Listed, AllPlain, NEW m \in 0..(Len(tracked) - 1),
         Untagged = From(Behind(TaggedEntries, m), 2)
  PROVE  /\ IsFileMode(NextWord(Untagged).word) <=> tracked[m + 1].kind = "file"
         /\ [name |-> NameAt(Untagged).word, id |-> IdAt(Untagged).word] = RowOf(m + 1)
         /\ StageAt(Untagged).rest = From(Behind(TaggedEntries, m), 8)
         /\ NameAt(Untagged).rest = Behind(TaggedEntries, m + 1)
         /\ Untagged \in Texts
<1> DEFINE u == Behind(TaggedEntries, m)  t == Behind(TaggedEntries, m + 1)
           f == Fields(m + 1)  N == Len(tracked[m + 1].name)  v == Untagged  i == m + 1
<1>1. Len(tracked) \in Nat /\ DOMAIN tracked = 1..Len(tracked)
  BY EntriesAre
<1>2. i \in DOMAIN tracked /\ f \in Texts
  <2>1. i \in DOMAIN tracked
    BY <1>1
  <2> QED  BY <2>1, FieldsAre
<1>3. /\ u \in Texts /\ u[2] = Blank /\ At(u, 3, f) /\ N \in Nat
      /\ Len(u) = N + 9 + Len(t) /\ Len(t) \in Nat /\ From(u, N + 10) = t
  BY TaggedAre
<1>4. v = From(u, 2)
  OBVIOUS
<1> HIDE DEF u, t, f, N, v, i
<1> DEFINE M == Len(t)
<1>5. Len(u) = N + 9 + M /\ M \in Nat
  BY <1>3
<1> HIDE DEF M
<1>6. 2 \in 1..(Len(u) + 1) /\ 3 \in 2..Len(u) /\ 8 \in 2..(Len(u) + 1) /\ N + 10 \in 2..(Len(u) + 1)
      /\ Len(u) \in Nat /\ 1 \in 1..(Len(u) - 2 + 1)
  BY <1>3, <1>5
<1>7. v \in Texts /\ Len(v) = Len(u) - 2 + 1 /\ v[1] = u[2]
  <2>1. /\ From(u, 2) \in Seq(Tokens) /\ Len(From(u, 2)) = Len(u) - 2 + 1
        /\ \A q \in 1..(Len(u) - 2 + 1) : From(u, 2)[q] = u[2 + q - 1]
    BY <1>3, <1>6, FromType DEF Texts
  <2>2. From(u, 2)[1] = u[2 + 1 - 1] /\ 2 + 1 - 1 = 2
    BY <1>6, <2>1
  <2> QED  BY <1>4, <2>1, <2>2 DEF Texts
<1>8. At(v, 2, f)
  <2>1. At(u, 3, f) <=> At(From(u, 2), 3 - 2 + 1, f)
    BY <1>2, <1>3, <1>6, AtFrom DEF Texts
  <2>2. 3 - 2 + 1 = 2
    OBVIOUS
  <2> QED  BY <1>3, <1>4, <2>1, <2>2
<1>9. 2 \in 1..Len(v) /\ \A q \in 1..(2 - 1) : v[q] = Blank
  <2>1. 2 \in 1..Len(v) /\ \A q \in 1..(2 - 1) : q = 1
    BY <1>3, <1>5, <1>7
  <2> QED  BY <1>3, <1>7, <2>1
<1>10. /\ IsFileMode(NextWord(v).word) <=> tracked[i].kind = "file"
       /\ [name |-> NameAt(v).word, id |-> IdAt(v).word] = RowOf(i)
       /\ StageAt(v).rest = From(v, 2 + 5)
       /\ NameAt(v).rest = From(v, 2 + Len(tracked[i].name) + 7)
  BY <1>2, <1>7, <1>8, <1>9, ReadEntry DEF f, i
<1>11. From(v, 7) = From(u, 8)
  <2>1. From(From(u, 2), 8 - 2 + 1) = From(u, 8)
    BY <1>3, <1>6, FromFrom DEF Texts
  <2>2. 8 - 2 + 1 = 7
    OBVIOUS
  <2> QED  BY <1>4, <2>1, <2>2
<1>12. From(v, N + 9) = t
  <2>1. From(From(u, 2), (N + 10) - 2 + 1) = From(u, N + 10)
    BY <1>3, <1>6, FromFrom DEF Texts
  <2>2. (N + 10) - 2 + 1 = N + 9
    BY <1>3
  <2> QED  BY <1>3, <1>4, <2>1, <2>2
<1>13. StageAt(v).rest = From(u, 8) /\ NameAt(v).rest = t
  <2>1. 2 + 5 = 7 /\ 2 + N + 7 = N + 9
    BY <1>3
  <2> QED  BY <1>10, <1>11, <1>12, <2>1 DEF N, i
<1> QED  BY <1>7, <1>10, <1>13 DEF u, t, v, i

\* At the end of the output all reads are empty.
LEMMA NothingRead == StageAt(<<>>).rest = <<>> /\ ~IsFileMode(NextWord(<<>>).word)
<1>1. NextWord(<<>>).word = <<>> /\ NextWord(<<>>).rest = <<>>
  BY NoWord
<1>2. IdAt(<<>>).rest = <<>>
  BY <1>1 DEF IdAt
<1>3. StageAt(<<>>).rest = <<>>
  BY <1>1, <1>2 DEF StageAt
<1> QED  BY <1>1, <1>3 DEF IsFileMode

LEMMA TakeTrackedMoves ==
  ASSUME ListInv, AllPlain, OneWords, NEW m \in 0..Len(tracked), StatusAt(m), TakeTracked
  PROVE  /\ m + 1 \in 0..Len(tracked) /\ output' = Behind(TaggedEntries, m + 1)
         /\ Range(rows') = OthersTo(Len(others)) \cup RowsTo(m + 1)
<1>1. Listed /\ rows \in Seq(Row) /\ Len(tracked) \in Nat
  BY EntriesAre DEF ListInv
<1>2. /\ output # <<>> /\ IsFileMode(NextWord(Untagged).word)
      /\ rows' = Append(rows, [name |-> NameAt(Untagged).word, id |-> IdAt(Untagged).word])
      /\ output' = NameAt(Untagged).rest
  BY TakeTrackedIs
<1>3. m # Len(tracked) /\ Untagged = From(Behind(TaggedEntries, m), 2)
  BY <1>1, <1>2, TagPassed, NothingRead
<1>4. m \in 0..(Len(tracked) - 1) /\ m + 1 \in 0..Len(tracked)
  BY <1>1, <1>3
<1>5. /\ tracked[m + 1].kind = "file" /\ Untagged \in Texts
      /\ [name |-> NameAt(Untagged).word, id |-> IdAt(Untagged).word] = RowOf(m + 1)
      /\ NameAt(Untagged).rest = Behind(TaggedEntries, m + 1)
  BY <1>1, <1>2, <1>3, <1>4, UntaggedRead
<1>6. RowOf(m + 1) \in Row
  <2>1. NameAt(Untagged).word \in NameTexts /\ IdAt(Untagged).word \in Texts
    BY <1>5, ReadsTyped
  <2> QED  BY <1>5, <2>1 DEF Row
<1>7. RowsTo(m + 1) = RowsTo(m) \cup {RowOf(m + 1)}
  BY <1>1, <1>4, <1>5, RowsToIs
<1>8. Range(rows') = Range(rows) \cup {RowOf(m + 1)}
  BY <1>1, <1>2, <1>5, <1>6, RangeAppend
<1>9. Range(rows) = OthersTo(Len(others)) \cup RowsTo(m)
  BY DEF StatusAt
<1> QED  BY <1>2, <1>4, <1>5, <1>7, <1>8, <1>9

LEMMA PassLinkMoves ==
  ASSUME ListInv, AllPlain, OneWords, NEW m \in 0..Len(tracked), StatusAt(m), PassLink
  PROVE  \/ output' = Behind(TaggedEntries, m) /\ rows' = rows
         \/ /\ m + 1 \in 0..Len(tracked) /\ m + 1 > 0 /\ m + 1 \notin Files
            /\ output' = From(Behind(TaggedEntries, m), 8)
            /\ Range(rows') = OthersTo(Len(others)) \cup RowsTo(m + 1)
<1>1. /\ Listed /\ Len(tracked) \in Nat /\ TaggedEntries \in Seq(Texts)
      /\ Len(TaggedEntries) = Len(tracked)
  BY EntriesAre DEF ListInv
<1>2. /\ output # <<>> /\ ~IsFileMode(NextWord(Untagged).word)
      /\ output' = StageAt(Untagged).rest /\ rows' = rows
  BY PassLinkIs
<1>3. Untagged = IF m = Len(tracked) THEN <<>> ELSE From(Behind(TaggedEntries, m), 2)
  BY <1>1, <1>2, TagPassed
<1>4. CASE m = Len(tracked)
  <2>1. Behind(TaggedEntries, m) = <<>>
    BY <1>1, <1>4, BehindIs
  <2> QED  BY <1>2, <1>3, <1>4, <2>1, NothingRead
<1>5. CASE m # Len(tracked)
  <2>1. m \in 0..(Len(tracked) - 1) /\ m + 1 \in 0..Len(tracked) /\ m + 1 > 0
    BY <1>1, <1>5
  <2>2. /\ IsFileMode(NextWord(Untagged).word) <=> tracked[m + 1].kind = "file"
        /\ StageAt(Untagged).rest = From(Behind(TaggedEntries, m), 8)
    BY <1>1, <1>3, <1>5, <2>1, UntaggedRead
  <2>3. m + 1 \notin Files /\ RowsTo(m + 1) = RowsTo(m) \cup {}
    BY <1>1, <1>2, <2>1, <2>2, RowsToIs DEF Files
  <2>4. Range(rows) = OthersTo(Len(others)) \cup RowsTo(m)
    BY DEF StatusAt
  <2> QED  BY <1>2, <2>1, <2>2, <2>3, <2>4
<1> QED  BY <1>4, <1>5

LEMMA StatusFixed ==
  ASSUME UNCHANGED <<others, tracked>>
  PROVE  /\ \A m : OthersAt(m)' <=> /\ output' = Behind(OtherEntries, m) \o Behind(TaggedEntries, 0)
                                   /\ Range(rows') = OthersTo(m)
         /\ \A m : StatusAt(m)' <=> /\ \/ output' = Behind(TaggedEntries, m)
                                      \/ /\ m > 0 /\ m \notin Files
                                         /\ output' = From(Behind(TaggedEntries, m - 1), 8)
                                   /\ Range(rows') = OthersTo(Len(others)) \cup RowsTo(m)
<1>1. /\ Entries' = Entries /\ TaggedEntries' = TaggedEntries /\ OtherEntries' = OtherEntries
      /\ \A m : RowsTo(m)' = RowsTo(m)
      /\ \A bs, m : Behind(bs, m)' = Behind(bs, m)
  BY PartsFixed
<1>2. Files' = Files /\ Len(others)' = Len(others) /\ \A m : OthersTo(m)' = OthersTo(m)
  BY Fixed DEF OthersTo, OtherRow
<1> QED  BY <1>1, <1>2 DEF OthersAt, StatusAt, Passed

LEMMA NextStatusExact == ListInv /\ StatusExact /\ [Next]_vars => StatusExact'
<1> SUFFICES ASSUME ListInv, StatusExact, [Next]_vars, reader' = "status", AllPlain', OneWords'
             PROVE  \/ \E m \in 0..Len(others') : OthersAt(m)'
                    \/ \E m \in 0..Len(tracked') : StatusAt(m)'
  BY DEF StatusExact
<1>1. UNCHANGED <<others, tracked, reader>>
  BY TakeListedIs, TakeOtherIs, TakeTrackedIs, PassLinkIs DEF Next, vars
<1>2. AllPlain /\ OneWords /\ reader = "status" /\ Listed
  BY <1>1, Fixed DEF ListInv
<1>3. CASE UNCHANGED vars
  BY <1>1, <1>2, <1>3, StatusFixed DEF vars, StatusExact, OthersAt, StatusAt, Passed
<1>4. ASSUME Next, NEW m \in 0..Len(others), m # Len(others), OthersAt(m)
      PROVE  m + 1 \in 0..Len(others) /\ OthersAt(m + 1)'
  <2>1. /\ output # <<>> /\ NextWord(output).word = <<Tag("?")>> /\ m + 1 \in 0..Len(others)
        /\ Line(Ws(NextWord(output).rest)).rest
             = Behind(OtherEntries, m + 1) \o Behind(TaggedEntries, 0)
        /\ Range(Append(rows, [name |-> Line(Ws(NextWord(output).rest)).word, id |-> <<>>]))
             = OthersTo(m + 1)
    BY <1>2, <1>4, OthersMove
  <2>2. TakeOther
    BY <1>2, <1>4, <2>1, TakeListedIs, TakeTrackedIs, PassLinkIs DEF Next, TakeListed
  <2>3. /\ rows' = Append(rows, [name |-> Line(Ws(NextWord(output).rest)).word, id |-> <<>>])
        /\ output' = Line(Ws(NextWord(output).rest)).rest
    BY <2>2, TakeOtherIs
  <2> QED  BY <1>1, <2>1, <2>3, StatusFixed
<1>5. ASSUME Next, NEW m \in 0..Len(tracked), StatusAt(m)
      PROVE  \E k \in 0..Len(tracked) : StatusAt(k)'
  <2>1. TakeTracked \/ PassLink
    <3>1. output # <<>>
      BY <1>5 DEF Next, TakeListed, TakeOther, TakeTracked, PassLink
    <3>2. NextWord(output).word # <<Tag("?")>>
      BY <1>2, <1>5, <3>1, TagPassed
    <3> QED  BY <1>2, <1>5, <3>2, TakeOtherIs DEF Next, TakeListed
  <2>2. CASE TakeTracked
    <3>1. /\ m + 1 \in 0..Len(tracked) /\ output' = Behind(TaggedEntries, m + 1)
          /\ Range(rows') = OthersTo(Len(others)) \cup RowsTo(m + 1)
      BY <1>2, <1>5, <2>2, TakeTrackedMoves
    <3> QED  BY <1>1, <3>1, StatusFixed
  <2>3. CASE PassLink
    <3>1. CASE output' = Behind(TaggedEntries, m) /\ rows' = rows
      <4>1. Range(rows') = OthersTo(Len(others)) \cup RowsTo(m)
        BY <1>5, <3>1 DEF StatusAt
      <4> QED  BY <1>1, <3>1, <4>1, StatusFixed
    <3>2. CASE /\ m + 1 \in 0..Len(tracked) /\ m + 1 > 0 /\ m + 1 \notin Files
               /\ output' = From(Behind(TaggedEntries, m), 8)
               /\ Range(rows') = OthersTo(Len(others)) \cup RowsTo(m + 1)
      <4>1. (m + 1) - 1 = m
        OBVIOUS
      <4> QED  BY <1>1, <3>2, <4>1, StatusFixed
    <3> QED  BY <1>2, <1>5, <2>3, <3>1, <3>2, PassLinkMoves
  <2> QED  BY <2>1, <2>2, <2>3
<1>6. CASE Next
  <2>1. CASE \E m \in 0..Len(others) : OthersAt(m)
    <3>1. PICK m \in 0..Len(others) : OthersAt(m)
      BY <2>1
    <3>2. CASE m = Len(others)
      <4>1. 0 \in 0..Len(tracked) /\ StatusAt(0)
        BY <1>2, <3>1, <3>2, OthersDone
      <4> QED  BY <1>1, <1>5, <1>6, <4>1
    <3>3. CASE m # Len(others)
      BY <1>1, <1>4, <1>6, <3>1, <3>3
    <3> QED  BY <3>2, <3>3
  <2>2. CASE \E m \in 0..Len(tracked) : StatusAt(m)
    BY <1>1, <1>5, <1>6, <2>2
  <2> QED  BY <1>2, <2>1, <2>2 DEF StatusExact
<1> QED  BY <1>3, <1>6

LEMMA InitStatusExact == Init => StatusExact
<1> SUFFICES ASSUME Init, reader = "status" PROVE \E m \in 0..Len(others) : OthersAt(m)
  BY DEF StatusExact
<1>1. Listed
  BY InitListInv DEF ListInv
<1>2. /\ OtherEntries \in Seq(Texts) /\ TaggedEntries \in Seq(Texts) /\ Len(others) \in Nat
  BY <1>1, EntriesAre
<1>3. Behind(OtherEntries, 0) = FlattenSeq(OtherEntries)
  BY <1>2, BehindIs, Zenon
<1>4. Behind(TaggedEntries, 0) = FlattenSeq(TaggedEntries)
  BY <1>2, BehindIs, Zenon
<1>5. output = Behind(OtherEntries, 0) \o Behind(TaggedEntries, 0)
  BY <1>3, <1>4, ListingsAre DEF Init
<1>6. Range(rows) = {}
  BY DEF Init, Range
<1>7. OthersTo(0) = {}
  BY <1>1, OthersToIs
<1>8. 0 \in 0..Len(others)
  BY <1>2
<1> QED  BY <1>5, <1>6, <1>7, <1>8 DEF OthersAt

\* At the end all entries are behind it.
LEMMA StatusEnds ==
  ASSUME ListInv, StatusExact, reader = "status", AllPlain, OneWords, output = <<>>
  PROVE  Range(rows) = Wanted
<1>1. Listed /\ Len(tracked) \in Nat
  BY EntriesAre DEF ListInv
<1>2. PICK m \in 0..Len(tracked) : StatusAt(m)
  <2>1. CASE \E m \in 0..Len(others) : OthersAt(m)
    <3>1. PICK m \in 0..Len(others) : OthersAt(m)
      BY <2>1
    <3>2. m = Len(others)
      BY <3>1, OthersMove
    <3> QED  BY <1>1, <3>1, <3>2, OthersDone
  <2> QED  BY <2>1 DEF StatusExact
<1>3. m = Len(tracked)
  <2>1. CASE Passed(m)
    <3>1. m \in 1..Len(tracked)
      BY <1>1, <2>1 DEF Passed
    <3> QED  BY <1>1, <2>1, <3>1, LinkRead
  <2>2. CASE output = Behind(TaggedEntries, m)
    BY <1>1, <2>2, ListEnds
  <2> QED  BY <1>2, <2>1, <2>2 DEF StatusAt
<1>4. Range(rows) = OthersTo(Len(others)) \cup RowsTo(Len(tracked))
  BY <1>2, <1>3 DEF StatusAt
<1>5. RowsTo(Len(tracked)) = {RowOf(i) : i \in Files}
  BY <1>1, RowsToIs
<1>6. OthersTo(Len(others)) = {[name |-> n, id |-> <<>>] : n \in Range(others)}
  BY <1>1, OthersToIs
<1> QED  BY <1>4, <1>5, <1>6 DEF Wanted

LEMMA ExactAlways == ScanSpec => [](ListInv /\ GenuineInv /\ ListExact /\ StatusExact)
<1>1. Init => ListExact
  BY InitListExact
<1>2. ScanInit => ListExact /\ StatusExact
  BY <1>1, InitStatusExact DEF ScanInit
<1> QED  BY <1>2, NextListExact, NextStatusExact, ScanIsList, ListInvAlways, PTL DEF ScanSpec

\* lock and unlock see every file of the index, whatever the links between them are
\* called (commands.cpp:561-590): for every index, if no name starts with a blank.
THEOREM ListsWhole == ScanSpec => []ListWhole
<1>1. ListInv /\ ListExact => ListWhole
  <2> SUFFICES ASSUME ListInv, ListExact, reader = "get_encrypted_files", output = <<>>, AllPlain
               PROVE  Range(rows) = Wanted
    BY DEF ListWhole
  <2>1. PICK m \in 0..Len(tracked) : ListAt(m)
    BY DEF ListExact
  <2>2. m = Len(tracked)
    BY <2>1, ListEnds DEF ListAt, ListInv
  <2>3. Range(rows) = {RowOf(i) : i \in Files}
    BY <2>1, <2>2, RowsToIs DEF ListAt, ListInv
  <2> QED  BY <2>3 DEF Wanted
<1> QED  BY <1>1, ExactAlways, PTL

\* status finds its place again behind every link whose name is a single word, and
\* sees every file (commands.cpp:1619-1659): for every index, if no name starts
\* with a blank and no link has one with a blank in it.
THEOREM StatusFindsPlace == ScanSpec => []StatusResumes
<1>1. ListInv /\ StatusExact => StatusResumes
  BY StatusEnds DEF StatusResumes
<1> QED  BY <1>1, ExactAlways, PTL

\* Where the files are of the listing, and have the names and blobs they have there.
LEMMA GenuineRowsTrue ==
  ASSUME ListInv, RowsGenuine, AllPlain
  PROVE  Range(rows) \subseteq Wanted
<1> SUFFICES ASSUME NEW r \in Range(rows) PROVE r \in Wanted
  OBVIOUS
<1>1. /\ \A i \in DOMAIN tracked : Plain(tracked[i].name)
      /\ \A i \in DOMAIN others : Plain(others[i])
  BY PlainNames DEF ListInv
<1>2. r \in Row /\ (OfFile(r) \/ OfOther(r))
  BY DEF ListInv, RowsGenuine, Range
<1>3. r = [name |-> r.name, id |-> r.id]
  BY <1>2 DEF Row
<1>4. CASE OfFile(r)
  <2>1. PICK i \in Files : r.id = <<Id(i)>> /\ NameTaken(r.name, tracked[i].name)
    BY <1>4 DEF OfFile
  <2>2. r = RowOf(i)
    BY <1>1, <1>3, <2>1 DEF RowOf, NameTaken, Files
  <2> QED  BY <2>2 DEF Wanted
<1>5. CASE OfOther(r)
  <2>1. PICK i \in DOMAIN others : NameTaken(r.name, others[i])
    BY <1>5 DEF OfOther
  <2>2. r.name = others[i] /\ r.id = <<>> /\ reader = "status"
    <3>1. r.name = others[i]
      BY <1>1, <2>1 DEF NameTaken
    <3> QED  BY <1>5, <3>1 DEF OfOther
  <2>3. r = [name |-> others[i], id |-> <<>>] /\ others[i] \in Range(others)
    BY <1>3, <2>2 DEF Range
  <2> QED  BY <2>2, <2>3 DEF Wanted
<1> QED  BY <1>2, <1>4, <1>5

\* In step, every row is of an entry that was passed.
LEMMA ExactRowsTrue ==
  ASSUME Listed
  PROVE  /\ \A m \in 0..Len(tracked) : ListAt(m) => Range(rows) \subseteq Wanted
         /\ reader = "status" =>
              /\ \A m \in 0..Len(others) : OthersAt(m) => Range(rows) \subseteq Wanted
              /\ \A m \in 0..Len(tracked) : StatusAt(m) => Range(rows) \subseteq Wanted
<1>1. Len(others) \in Nat /\ Len(tracked) \in Nat /\ DOMAIN others = 1..Len(others)
  BY EntriesAre
<1>2. \A m \in Nat : RowsTo(m) \subseteq Wanted
  BY RowsToIs DEF Wanted
<1>3. ASSUME reader = "status", NEW m \in 0..Len(others) PROVE OthersTo(m) \subseteq Wanted
  <2>1. 1..m \subseteq 1..Len(others) /\ Len(others) \in 0..Len(others)
    BY <1>1
  <2>2. OthersTo(m) \subseteq OthersTo(Len(others))
    BY <2>1 DEF OthersTo
  <2> QED  BY <1>3, <2>2, OthersToIs DEF Wanted
<1>4. \A m \in 0..Len(tracked) : m \in Nat
  BY <1>1
<1>5. Len(others) \in 0..Len(others)
  BY <1>1
<1> QED  BY <1>2, <1>3, <1>4, <1>5 DEF ListAt, OthersAt, StatusAt

\* No file is taken for another (commands.cpp:561 and 1619), for every index, if no
\* name starts with a blank: lock and unlock take none for another whatever the
\* names are; status takes none for another if the names of all links are single
\* words, or if no name has the digits of a file's mode or a question mark in it.
THEOREM NoFileMistaken == ScanSpec => []RowsTrue
<1>1. ListInv /\ GenuineInv /\ ListExact /\ StatusExact => RowsTrue
  <2> SUFFICES ASSUME ListInv, GenuineInv, ListExact, StatusExact, AllPlain,
                      reader = "status" => OneWords \/ NoLookalikes
               PROVE  Range(rows) \subseteq Wanted
    BY DEF RowsTrue
  <2>1. Listed /\ reader \in {"get_encrypted_files", "status"}
    BY DEF ListInv
  <2>2. CASE reader = "get_encrypted_files"
    BY <2>1, <2>2, ExactRowsTrue DEF ListExact
  <2>3. CASE reader = "status" /\ OneWords
    BY <2>1, <2>3, ExactRowsTrue DEF StatusExact
  <2>4. CASE NoLookalikes
    BY <2>4, GenuineRowsTrue DEF GenuineInv
  <2> QED  BY <2>1, <2>2, <2>3, <2>4
<1> QED  BY <1>1, ExactAlways, PTL

-----------------------------------------------------------------------------
(* What is read of an answer of git check-attr: the name, an attribute of   *)
(* one token x and its value, which has no blank.                           *)

Colon == Letter(":")
AnswerOf(w, x, v) == w \o Separator \o <<x>> \o Separator \o v

LEMMA AnswerAt ==
  ASSUME NEW S, Colon \in S, Blank \in S, NEW w \in Seq(S), NEW x \in S, NEW v \in Seq(S)
  PROVE  /\ AnswerOf(w, x, v) \in Seq(S) /\ Len(AnswerOf(w, x, v)) = Len(w) + 5 + Len(v)
         /\ Len(w) \in Nat /\ Len(v) \in Nat
         /\ SubSeq(AnswerOf(w, x, v), Len(w) + 1, Len(w) + 2) = Separator
         /\ AnswerOf(w, x, v)[Len(w) + 3] = x
         /\ AnswerOf(w, x, v)[Len(w) + 4] = Colon
         /\ SubSeq(AnswerOf(w, x, v), Len(w) + 4, Len(w) + 5) = Separator
         /\ \A q \in 1..Len(v) : AnswerOf(w, x, v)[Len(w) + 5 + q] = v[q]
<1> DEFINE e == Separator  y == <<x>>
           r1 == w \o e  r2 == r1 \o y  r3 == r2 \o e  t == r3 \o v  W == Len(w)
<1>1. e \in Seq(S) /\ Len(e) = 2 /\ e[1] = Colon /\ e[2] = Blank
  BY DEF Separator, Colon
<1>2. y \in Seq(S) /\ Len(y) = 1 /\ y[1] = x
  OBVIOUS
<1>3. AnswerOf(w, x, v) = t
  BY DEF AnswerOf
<1>4. W \in Nat /\ Len(v) \in Nat
  BY LenProperties
<1> HIDE DEF e, y
<1>5. /\ r1 \in Seq(S) /\ Len(r1) = W + 2
      /\ \A q \in 1..(W + 2) : r1[q] = IF q <= W THEN w[q] ELSE e[q - W]
  <2>1. /\ w \o e \in Seq(S) /\ Len(w \o e) = Len(w) + Len(e)
        /\ \A q \in 1..(Len(w) + Len(e)) : (w \o e)[q] = IF q <= Len(w) THEN w[q] ELSE e[q - Len(w)]
    BY <1>1, ConcatProperties, Zenon
  <2> QED  BY <1>1, <2>1
<1> HIDE DEF r1
<1>6. /\ r2 \in Seq(S) /\ Len(r2) = W + 2 + 1
      /\ \A q \in 1..(W + 2 + 1) : r2[q] = IF q <= W + 2 THEN r1[q] ELSE y[q - (W + 2)]
  <2>1. r1 \in Seq(S) /\ y \in Seq(S)
    BY <1>2, <1>5
  <2>2. /\ r1 \o y \in Seq(S) /\ Len(r1 \o y) = Len(r1) + Len(y)
        /\ \A q \in 1..(Len(r1) + Len(y)) : (r1 \o y)[q] = IF q <= Len(r1) THEN r1[q] ELSE y[q - Len(r1)]
    BY <2>1, ConcatProperties, Zenon
  <2> QED  BY <1>2, <1>5, <2>2
<1> HIDE DEF r2
<1>7. /\ r3 \in Seq(S) /\ Len(r3) = W + 3 + 2
      /\ \A q \in 1..(W + 3 + 2) : r3[q] = IF q <= W + 3 THEN r2[q] ELSE e[q - (W + 3)]
  <2>1. /\ r2 \o e \in Seq(S) /\ Len(r2 \o e) = Len(r2) + Len(e)
        /\ \A q \in 1..(Len(r2) + Len(e)) : (r2 \o e)[q] = IF q <= Len(r2) THEN r2[q] ELSE e[q - Len(r2)]
    BY <1>1, <1>6, ConcatProperties, Zenon
  <2>2. W + 2 + 1 = W + 3
    BY <1>4
  <2> QED  BY <1>1, <1>6, <2>1, <2>2
<1> HIDE DEF r3
<1>8. /\ t \in Seq(S) /\ Len(t) = W + 5 + Len(v)
      /\ \A q \in 1..(W + 5 + Len(v)) : t[q] = IF q <= W + 5 THEN r3[q] ELSE v[q - (W + 5)]
  <2>1. /\ r3 \o v \in Seq(S) /\ Len(r3 \o v) = Len(r3) + Len(v)
        /\ \A q \in 1..(Len(r3) + Len(v)) : (r3 \o v)[q] = IF q <= Len(r3) THEN r3[q] ELSE v[q - Len(r3)]
    BY <1>7, ConcatProperties, Zenon
  <2>2. W + 3 + 2 = W + 5
    BY <1>4
  <2> QED  BY <1>7, <2>1, <2>2
<1> HIDE DEF t, W
<1>9. /\ t[W + 1] = Colon /\ t[W + 2] = Blank /\ t[W + 3] = x
      /\ t[W + 4] = Colon /\ t[W + 5] = Blank
  <2>1. r1[W + 1] = Colon /\ r1[W + 2] = Blank
    BY <1>1, <1>4, <1>5
  <2>2. r2[W + 1] = Colon /\ r2[W + 2] = Blank /\ r2[W + 3] = x
    BY SMTT(30), <1>2, <1>4, <1>6, <2>1
  <2>3. r3[W + 1] = Colon /\ r3[W + 2] = Blank /\ r3[W + 3] = x
        /\ r3[W + 4] = Colon /\ r3[W + 5] = Blank
    BY <1>1, <1>4, <1>7, <2>2
  <2> QED  BY <1>4, <1>8, <2>3, SMTT(30)
<1>10. \A q \in 1..Len(v) : t[W + 5 + q] = v[q]
  BY <1>4, <1>8
<1>11. \A a \in 1..(Len(t) - 1) : t[a] = Colon /\ t[a + 1] = Blank => SubSeq(t, a, a + 1) = Separator
  <2> TAKE a \in 1..(Len(t) - 1)
  <2> HAVE t[a] = Colon /\ t[a + 1] = Blank
  <2>1. Len(t) \in Nat
    BY <1>8, LenProperties
  <2>2. a \in Int /\ a + 1 \in Int /\ \A i \in a..(a + 1) : t[i] \in S
    <3>1. \A i \in a..(a + 1) : i \in 1..Len(t)
      BY <2>1
    <3> QED  BY <1>8, <2>1, <3>1
  <2>3. /\ SubSeq(t, a, a + 1) \in Seq(S) /\ Len(SubSeq(t, a, a + 1)) = 2
        /\ \A i \in 1..2 : SubSeq(t, a, a + 1)[i] = t[a + i - 1]
    BY <2>1, <2>2, SubSeqProperties
  <2> DEFINE u == SubSeq(t, a, a + 1)
  <2>4. u[1] = e[1] /\ u[2] = e[2]
    BY <1>1, <2>3
  <2>5. u \in Seq(S) /\ Len(u) = Len(e) /\ \A i \in 1..Len(u) : u[i] = e[i]
    <3>1. \A i \in 1..2 : i = 1 \/ i = 2
      OBVIOUS
    <3> QED  BY <1>1, <2>3, <2>4, <3>1
  <2> HIDE DEF u
  <2>6. u = e
    BY <1>1, <2>5, SeqEqual
  <2> QED  BY <2>6 DEF u, e
<1>12. SubSeq(t, W + 1, W + 2) = Separator /\ SubSeq(t, W + 4, W + 5) = Separator
  <2>1. /\ W + 1 \in 1..(Len(t) - 1) /\ W + 4 \in 1..(Len(t) - 1)
        /\ (W + 1) + 1 = W + 2 /\ (W + 4) + 1 = W + 5
    BY <1>4, <1>8
  <2> QED  BY <1>9, <1>11, <2>1
<1> QED  BY <1>3, <1>4, <1>8, <1>9, <1>10, <1>12 DEF W

\* A separator ends in a blank.
LEMMA SeparatorAt ==
  ASSUME NEW S, NEW t \in Seq(S), NEW i \in 1..(Len(t) - 1), SubSeq(t, i, i + 1) = Separator
  PROVE  t[i + 1] = Blank
<1>1. Len(t) \in Nat
  BY LenProperties
<1>2. i \in Int /\ i + 1 \in Int /\ \A q \in i..(i + 1) : t[q] \in S
  <2>1. \A q \in i..(i + 1) : q \in 1..Len(t)
    BY <1>1
  <2> QED  BY <1>1, <2>1
<1>3. \A q \in 1..2 : SubSeq(t, i, i + 1)[q] = t[i + q - 1]
  BY <1>1, <1>2, SubSeqProperties
<1>4. SubSeq(t, i, i + 1)[2] = t[i + 1]
  <2>1. 2 \in 1..2 /\ i + 2 - 1 = i + 1
    BY <1>1
  <2> QED  BY <1>3, <2>1
<1>5. Separator[2] = Blank
  BY DEF Separator
<1> QED  BY <1>4, <1>5

LEMMA LastSeparatorIs ==
  ASSUME NEW S, NEW t \in Seq(S), NEW upto \in Nat, NEW p \in 1..(Len(t) - 1), p <= upto,
         SubSeq(t, p, p + 1) = Separator,
         \A i \in 1..(Len(t) - 1) : p < i /\ i <= upto => t[i + 1] # Blank
  PROVE  LastSeparator(t, upto) = p
<1> DEFINE found == {i \in 1..(Len(t) - 1) : i <= upto /\ SubSeq(t, i, i + 1) = Separator}
<1>1. p \in found /\ found \subseteq Nat
  BY LenProperties
<1>2. \A i \in found : p >= i
  <2> SUFFICES ASSUME NEW i \in found, ~(p >= i) PROVE FALSE
    OBVIOUS
  <2>1. i \in 1..(Len(t) - 1) /\ i <= upto /\ SubSeq(t, i, i + 1) = Separator
    OBVIOUS
  <2>2. t[i + 1] = Blank
    BY <2>1, SeparatorAt
  <2>3. p < i
    BY <1>1
  <2> QED  BY <2>1, <2>2, <2>3
<1>3. LastSeparator(t, upto) = IF found = {} THEN 0 ELSE Max(found)
  BY DEF LastSeparator
<1> HIDE DEF found
<1>4. Max(found) = p
  BY <1>1, <1>2, MaxIs
<1> QED  BY <1>1, <1>3, <1>4

\* The parts of a line in the words of get_file_attributes.
ValuePos(line) == LastSeparator(line, Len(line))
NamePos(line) == LastSeparator(line, ValuePos(line) - 1)
NamePart(line) == SubSeq(line, NamePos(line) + 2, ValuePos(line) - 1)
ValuePart(line) == From(line, ValuePos(line) + 2)

LEMMA AnswerRead ==
  ASSUME NEW S, Colon \in S, Blank \in S, NEW w \in Seq(S), NEW x \in S, NEW v \in Seq(S),
         x # Blank, Blank \notin Range(v)
  PROVE  /\ NamePos(AnswerOf(w, x, v)) # 0
         /\ NamePart(AnswerOf(w, x, v)) = <<x>>
         /\ ValuePart(AnswerOf(w, x, v)) = v
<1>0. /\ AnswerOf(w, x, v) \in Seq(S) /\ Len(AnswerOf(w, x, v)) = Len(w) + 5 + Len(v)
      /\ Len(w) \in Nat /\ Len(v) \in Nat
      /\ SubSeq(AnswerOf(w, x, v), Len(w) + 1, Len(w) + 2) = Separator
      /\ AnswerOf(w, x, v)[Len(w) + 3] = x
      /\ AnswerOf(w, x, v)[Len(w) + 4] = Colon
      /\ SubSeq(AnswerOf(w, x, v), Len(w) + 4, Len(w) + 5) = Separator
      /\ \A q \in 1..Len(v) : AnswerOf(w, x, v)[Len(w) + 5 + q] = v[q]
  <2>1. AnswerOf(w, x, v) \in Seq(S) /\ Len(AnswerOf(w, x, v)) = Len(w) + 5 + Len(v)
    BY AnswerAt
  <2>2. Len(w) \in Nat /\ Len(v) \in Nat
    BY LenProperties
  <2>3. SubSeq(AnswerOf(w, x, v), Len(w) + 1, Len(w) + 2) = Separator
    BY AnswerAt
  <2>4. AnswerOf(w, x, v)[Len(w) + 3] = x /\ AnswerOf(w, x, v)[Len(w) + 4] = Colon
    BY AnswerAt
  <2>5. SubSeq(AnswerOf(w, x, v), Len(w) + 4, Len(w) + 5) = Separator
    BY AnswerAt
  <2>6. \A q \in 1..Len(v) : AnswerOf(w, x, v)[Len(w) + 5 + q] = v[q]
    BY AnswerAt
  <2> QED  BY <2>1, <2>2, <2>3, <2>4, <2>5, <2>6, Zenon
<1> DEFINE t == AnswerOf(w, x, v)  W == Len(w)  V == Len(v)
<1>1. /\ t \in Seq(S) /\ Len(t) = W + 5 + V /\ W \in Nat /\ V \in Nat
      /\ SubSeq(t, W + 1, W + 2) = Separator
      /\ t[W + 3] = x /\ t[W + 4] = Colon
      /\ SubSeq(t, W + 4, W + 5) = Separator
      /\ \A q \in 1..V : t[W + 5 + q] = v[q]
  BY <1>0, Zenon
<1>2. \A q \in 1..V : v[q] # Blank
  BY LenProperties DEF Range
<1> HIDE DEF t, W, V
<1>3. Colon # Blank
  <2>1. Colon[1] = "letter" /\ Blank[1] = "blank"
    BY DEF Letter, Blank, Colon
  <2> QED  BY <2>1
<1>4. ValuePos(t) = W + 4
  <2> DEFINE p == W + 4
  <2>1. p \in 1..(Len(t) - 1) /\ Len(t) \in Nat /\ p <= Len(t) /\ p + 1 = W + 5
    BY <1>1
  <2>2. \A i \in 1..(Len(t) - 1) : p < i /\ i <= Len(t) => t[i + 1] # Blank
    <3> TAKE i \in 1..(Len(t) - 1)
    <3> HAVE p < i /\ i <= Len(t)
    <3> DEFINE q == i - (W + 4)
    <3>1. W \in Nat /\ V \in Nat /\ Len(t) = W + 5 + V
      BY <1>1
    <3>2. q \in 1..V /\ W + 5 + q = i + 1
      BY <3>1
    <3> HIDE DEF q
    <3>3. t[i + 1] = v[q]
      BY <1>1, <3>2
    <3> QED  BY <1>2, <3>2, <3>3
  <2>3. SubSeq(t, p, p + 1) = Separator
    BY <1>1, <2>1
  <2> HIDE DEF p
  <2>4. LastSeparator(t, Len(t)) = p
    BY <1>1, <2>1, <2>2, <2>3, LastSeparatorIs
  <2> QED  BY <2>4 DEF ValuePos, p
<1>5. NamePos(t) = W + 1
  <2> DEFINE p == W + 1  n == W + 3
  <2>1. p \in 1..(Len(t) - 1) /\ n \in Nat /\ p <= n /\ p + 1 = W + 2 /\ (W + 4) - 1 = n
    BY <1>1
  <2>2. \A i \in 1..(Len(t) - 1) : p < i /\ i <= n => t[i + 1] # Blank
    <3> TAKE i \in 1..(Len(t) - 1)
    <3> HAVE p < i /\ i <= n
    <3>1. W \in Nat
      BY <1>1
    <3>2. i + 1 = W + 3 \/ i + 1 = W + 4
      BY <3>1
    <3> QED  BY <1>1, <1>3, <3>2
  <2>3. SubSeq(t, p, p + 1) = Separator
    BY <1>1, <2>1
  <2> HIDE DEF p, n
  <2>4. LastSeparator(t, n) = p
    BY <1>1, <2>1, <2>2, <2>3, LastSeparatorIs
  <2> QED  BY <1>4, <2>1, <2>4 DEF NamePos, p
<1>6. NamePart(t) = <<x>>
  <2>1. (W + 1) + 2 = W + 3 /\ (W + 4) - 1 = W + 3 /\ W + 3 \in 1..Len(t)
    BY <1>1
  <2>2. SubSeq(t, W + 3, W + 3) = <<t[W + 3]>>
    BY <1>1, <2>1, OneElement
  <2> QED  BY <1>1, <1>4, <1>5, <2>1, <2>2 DEF NamePart
<1>7. ValuePart(t) = v
  <2> DEFINE c == W + 6
  <2>1. c \in 1..(Len(t) + 1) /\ (W + 4) + 2 = c /\ Len(t) - c + 1 = V
    BY <1>1
  <2>2. From(t, c) \in Seq(S) /\ Len(From(t, c)) = V /\ \A q \in 1..V : From(t, c)[q] = t[c + q - 1]
    BY <1>1, <2>1, FromType, ZenonT(60)
  <2>3. \A q \in 1..V : c + q - 1 = W + 5 + q
    BY <1>1
  <2> HIDE DEF c
  <2>4. \A q \in 1..V : From(t, c)[q] = v[q]
    BY <1>1, <2>2, <2>3
  <2>5. From(t, c) = v
    BY <2>2, <2>4, SeqEqual DEF V
  <2> QED  BY <1>4, <2>1, <2>5 DEF ValuePart
<1>8. W + 1 # 0
  BY <1>1
<1> QED  BY <1>5, <1>6, <1>7, <1>8 DEF t

-----------------------------------------------------------------------------
(* The attributes of a file, and who takes it.                             *)

AllKeys == KeyNames \cup {NoName}

LEMMA OwnRange ==
  ASSUME NEW S, NEW v \in Seq(S)
  PROVE  v \in Seq(Range(v)) /\ Range(v) \subseteq S
<1>1. Len(v) \in Nat /\ DOMAIN v = 1..Len(v) /\ \A q \in 1..Len(v) : v[q] \in S
  BY LenProperties
<1>2. \A q \in 1..Len(v) : v[q] \in Range(v)
  BY <1>1 DEF Range
<1>3. v \in Seq(Range(v))
  BY <1>1, <1>2
<1> QED  BY <1>1, <1>3 DEF Range

\* A rest is of what the whole is of.
LEMMA RestTyped ==
  ASSUME NEW v, v \in Seq(Range(v)), NEW i \in Nat, i > 0
  PROVE  From(v, i) \in Seq(Range(v))
<1> DEFINE S == Range(v)
<1>1. v \in Seq(S) /\ Len(v) \in Nat
  BY LenProperties
<1> HIDE DEF S
<1>2. \A q \in i..Len(v) : v[q] \in S
  BY <1>1
<1>3. SubSeq(v, i, Len(v)) \in Seq(S)
  BY <1>1, <1>2, SubSeqProperties
<1> QED  BY <1>3 DEF From, S

\* How git-crypt spells its attribute for a key, by places.
LEMMA NamedIs ==
  ASSUME NEW k \in KeyNames
  PROVE  /\ AttributeName(k) \in Seq(Range(k) \cup {Letter("git-crypt"), Letter("-")})
         /\ k \in Seq(Range(k)) /\ Len(k) \in Nat /\ Len(k) > 0
         /\ Len(AttributeName(k)) = Len(k) + 2
         /\ AttributeName(k)[1] = Letter("git-crypt") /\ AttributeName(k)[2] = Letter("-")
         /\ \A q \in 1..Len(k) : AttributeName(k)[2 + q] = k[q]
<1> DEFINE S == Range(k) \cup {Letter("git-crypt"), Letter("-")}  h == NamedPrefix
<1>1. k \in Seq(Range(k)) /\ k # NoName /\ k # <<>>
  <2>1. PICK v \in Written : k = From(v, 3)
    BY DEF KeyNames
  <2>2. k \in Seq(Range(v))
    BY <2>1, WrittenAssumption, RestTyped
  <2>3. k # <<>>
    BY DEF KeyNames, validate_key_name
  <2> QED  BY <2>2, <2>3, OwnRange DEF NoName
<1>2. h \in Seq(S) /\ Len(h) = 2 /\ h[1] = Letter("git-crypt") /\ h[2] = Letter("-")
  BY DEF NamedPrefix
<1>3. AttributeName(k) = h \o k
  BY <1>1 DEF AttributeName
<1>4. k \in Seq(S) /\ Len(k) \in Nat /\ Len(k) > 0
  BY <1>1, EmptySeq, LenProperties
<1> HIDE DEF h, S
<1>5. /\ h \o k \in Seq(S) /\ Len(h \o k) = Len(h) + Len(k)
      /\ \A q \in 1..(Len(h) + Len(k)) : (h \o k)[q] = IF q <= Len(h) THEN h[q] ELSE k[q - Len(h)]
  BY <1>2, <1>4, ConcatProperties, Zenon
<1> DEFINE t == h \o k
<1> HIDE DEF t
<1>6. /\ t \in Seq(S) /\ Len(t) = 2 + Len(k)
      /\ \A q \in 1..(2 + Len(k)) : t[q] = IF q <= 2 THEN h[q] ELSE k[q - 2]
  BY <1>2, <1>5 DEF t
<1>7. t[1] = Letter("git-crypt") /\ t[2] = Letter("-")
  BY <1>2, <1>4, <1>6
<1>8. \A q \in 1..Len(k) : t[2 + q] = k[q]
  BY <1>4, <1>6
<1>9. AttributeName(k) = t
  BY <1>3 DEF t
<1>10. Len(t) = Len(k) + 2
  BY <1>4, <1>6
<1> QED  BY <1>1, <1>4, <1>6, <1>7, <1>8, <1>9, <1>10 DEF S

LEMMA NoNameIs == AttributeName(NoName) = <<Letter("git-crypt")>>
BY DEF AttributeName

\* No value has a blank.
LEMMA ValueIs ==
  ASSUME NEW v \in Values
  PROVE  v \in Seq(Range(v)) /\ Blank \notin Range(v)
<1>1. \A x : Letter(x) # Blank
  <2>1. \A x : Letter(x)[1] = "letter"
    BY DEF Letter
  <2>2. Blank[1] = "blank"
    BY DEF Blank
  <2> QED  BY <2>1, <2>2
<1>2. \A x : <<Letter(x)>> \in Seq({Letter(x)})
  OBVIOUS
<1>3. \A x : Blank \notin {Letter(x)}
  BY <1>1
<1>4. \A x : <<Letter(x)>> \in Seq(Range(<<Letter(x)>>)) /\ Blank \notin Range(<<Letter(x)>>)
  BY <1>2, <1>3, OwnRange
<1>5. CASE v \in NotAValue
  BY <1>4, <1>5 DEF NotAValue
<1>6. CASE v \in Written
  BY <1>6, WrittenAssumption
<1> QED  BY <1>5, <1>6 DEF Values

\* What is read of the line for one attribute.
LEMMA AttributeRead ==
  ASSUME NEW w \in Texts, NEW v \in [{Filter, Diff} -> Values], NEW a \in {Filter, Diff}
  PROVE  /\ NamePos(AttributeLine(w, v, a)) # 0
         /\ NamePart(AttributeLine(w, v, a)) = a
         /\ ValuePart(AttributeLine(w, v, a)) = v[a]
<1>1. v[a] \in Values
  OBVIOUS
<1> DEFINE y == v[a]
           S == Tokens \cup Range(y) \cup {Colon, Letter("filter"), Letter("diff")}
<1>2. y \in Seq(Range(y)) /\ Blank \notin Range(y)
  <2> HIDE DEF y
  <2> QED  BY <1>1, ValueIs DEF y
<1>3. PICK x \in {Letter("filter"), Letter("diff")} : a = <<x>>
  BY DEF Filter, Diff
<1>4. x # Blank
  <2>1. x[1] = "letter" /\ Blank[1] = "blank"
    BY DEF Letter, Blank
  <2> QED  BY <2>1
<1>5. AttributeLine(w, v, a) = AnswerOf(w, x, y)
  BY <1>3 DEF AttributeLine, AnswerOf
<1> HIDE DEF y
<1>6. Colon \in S /\ Blank \in S /\ x \in S /\ w \in Seq(S) /\ y \in Seq(S)
  <2>1. Tokens \subseteq S /\ Range(y) \subseteq S /\ Blank \in Tokens /\ Colon \in S /\ x \in S
    BY DEF Tokens
  <2>2. w \in Seq(Tokens)
    BY DEF Texts
  <2> HIDE DEF S
  <2> QED  BY <1>2, <2>1, <2>2
<1> HIDE DEF S
<1>7. /\ NamePos(AnswerOf(w, x, y)) # 0 /\ NamePart(AnswerOf(w, x, y)) = <<x>>
      /\ ValuePart(AnswerOf(w, x, y)) = y
  BY <1>2, <1>4, <1>6, AnswerRead
<1> QED  BY <1>3, <1>5, <1>7 DEF y

\* What status takes for encrypted.
Spelled(attr) == \/ attr = <<Letter("git-crypt")>>
                 \/ IsPrefix(NamedPrefix, attr)

\* What is read so far, from the answer for a name w.
FilterRead == filter_attr = Meant(values[Filter])
Reading ==
  \E w \in Texts :
    \/ /\ lines = <<AttributeLine(w, values, Filter), AttributeLine(w, values, Diff)>>
       /\ filter_attr = <<>> /\ diff_attr = <<>>
    \/ /\ lines = <<AttributeLine(w, values, Diff)>>
       /\ FilterRead /\ diff_attr = <<>>
    \/ lines = <<>> /\ FilterRead /\ diff_attr = Meant(values[Diff])

ScanInv ==
  /\ values \in [{Filter, Diff} -> Values]
  /\ pc \in {"list", "read", "keys", "done"} /\ encrypted \in BOOLEAN
  /\ pc = "list" => lines = <<>> /\ filter_attr = <<>> /\ diff_attr = <<>>
  /\ pc = "read" => Reading
  /\ pc \in {"keys", "done"} => /\ lines = <<>> /\ FilterRead /\ diff_attr = Meant(values[Diff])
                                /\ encrypted = Spelled(filter_attr)
  /\ pc \in {"list", "read"} => listed = {}
  /\ \A k \in listed : k \in AllKeys /\ filter_attr = AttributeName(k)
  /\ pc = "done" => \A k \in AllKeys : filter_attr = AttributeName(k) => k \in listed

LEMMA InitScanInv == ScanInit => ScanInv
<1> SUFFICES ASSUME ScanInit PROVE ScanInv
  OBVIOUS
<1>1. values \in [{Filter, Diff} -> Values]
  BY DEF ScanInit, Unspecified, Values, NotAValue
<1> QED  BY <1>1 DEF ScanInit, ScanInv

\* One line read: the last step of its loop.
LEMMA ReadLineIs ==
  ReadLine <=>
    /\ pc = "read" /\ lines # <<>>
    /\ LET line == Head(lines)
           taken == NamePos(line) # 0 /\ ValuePart(line) \notin NotAValue
       IN /\ filter_attr' = IF taken /\ NamePart(line) = Filter THEN ValuePart(line) ELSE filter_attr
          /\ diff_attr' = IF taken /\ NamePart(line) = Diff THEN ValuePart(line) ELSE diff_attr
    /\ lines' = Tail(lines)
    /\ UNCHANGED <<vars, values, pc, encrypted, listed>>
BY Zenon DEF ReadLine, NamePos, ValuePos, NamePart, ValuePart

LEMMA ReadLineKeeps ==
  ASSUME ScanInv, ReadLine
  PROVE  ScanInv'
<1>1. /\ pc = "read" /\ lines # <<>> /\ lines' = Tail(lines)
      /\ UNCHANGED <<values, pc, encrypted, listed>>
      /\ filter_attr' = IF /\ NamePos(Head(lines)) # 0 /\ ValuePart(Head(lines)) \notin NotAValue
                           /\ NamePart(Head(lines)) = Filter
                        THEN ValuePart(Head(lines)) ELSE filter_attr
      /\ diff_attr' = IF /\ NamePos(Head(lines)) # 0 /\ ValuePart(Head(lines)) \notin NotAValue
                         /\ NamePart(Head(lines)) = Diff
                      THEN ValuePart(Head(lines)) ELSE diff_attr
  BY ReadLineIs, Zenon
<1>2. Reading /\ values \in [{Filter, Diff} -> Values] /\ listed = {}
  BY <1>1 DEF ScanInv
<1>3. Filter # Diff
  <2>1. Filter[1][2] = "filter" /\ Diff[1][2] = "diff"
    BY DEF Filter, Diff, Letter
  <2> QED  BY <2>1
<1>4. PICK w \in Texts :
        \/ /\ lines = <<AttributeLine(w, values, Filter), AttributeLine(w, values, Diff)>>
           /\ filter_attr = <<>> /\ diff_attr = <<>>
        \/ /\ lines = <<AttributeLine(w, values, Diff)>>
           /\ FilterRead /\ diff_attr = <<>>
        \/ lines = <<>> /\ FilterRead /\ diff_attr = Meant(values[Diff])
  BY <1>2 DEF Reading
<1> DEFINE f == AttributeLine(w, values, Filter)  d == AttributeLine(w, values, Diff)
<1>5. /\ NamePos(f) # 0 /\ NamePart(f) = Filter /\ ValuePart(f) = values[Filter]
      /\ NamePos(d) # 0 /\ NamePart(d) = Diff /\ ValuePart(d) = values[Diff]
  BY <1>2, AttributeRead
<1> HIDE DEF f, d
<1>6. CASE lines = <<f, d>> /\ filter_attr = <<>> /\ diff_attr = <<>>
  <2>1. Head(lines) = f /\ Tail(lines) = <<d>>
    BY <1>6
  <2>2. filter_attr' = Meant(values[Filter]) /\ diff_attr' = <<>>
    BY <1>1, <1>3, <1>5, <1>6, <2>1 DEF Meant
  <2>3. lines' = <<AttributeLine(w, values', Diff)>> /\ FilterRead'
    BY <1>1, <2>1, <2>2 DEF d, FilterRead
  <2> QED  BY <1>1, <1>2, <2>2, <2>3 DEF ScanInv, Reading
<1>7. CASE lines = <<d>> /\ FilterRead /\ diff_attr = <<>>
  <2>1. Head(lines) = d /\ Tail(lines) = <<>>
    BY <1>7
  <2>2. filter_attr' = filter_attr /\ diff_attr' = Meant(values[Diff])
    BY <1>1, <1>3, <1>5, <1>7, <2>1 DEF Meant
  <2>3. lines' = <<>> /\ FilterRead' /\ diff_attr' = Meant(values'[Diff])
    BY <1>1, <1>7, <2>1, <2>2 DEF FilterRead
  <2> QED  BY <1>1, <1>2, <2>3 DEF ScanInv, Reading
<1> QED  BY <1>1, <1>4, <1>6, <1>7 DEF f, d

LEMMA AskKeeps ==
  ASSUME ListInv, ScanInv, Ask
  PROVE  ScanInv'
<1>1. /\ pc = "list" /\ rows # <<>> /\ pc' = "read"
      /\ UNCHANGED <<vars, filter_attr, diff_attr, encrypted, listed>>
  BY DEF Ask
<1>2. PICK v \in [{Filter, Diff} -> Values] :
        /\ values' = v
        /\ lines' = [i \in 1..2 |-> AttributeLine(rows[1].name, v, IF i = 1 THEN Filter ELSE Diff)]
  BY DEF Ask
<1> DEFINE w == rows[1].name
<1>3. w \in Texts
  <2>1. 1 \in DOMAIN rows
    BY <1>1, EmptySeq, LenProperties DEF ListInv
  <2>2. rows[1] \in Row
    BY <2>1 DEF ListInv
  <2>3. rows[1].name \in Seq(Tokens \ {Nul})
    BY <2>2 DEF Row, NameTexts
  <2>4. \A S, T : S \subseteq T => Seq(S) \subseteq Seq(T)
    OBVIOUS
  <2> HIDE DEF w
  <2> QED  BY <2>3, <2>4 DEF Texts, w
<1>4. lines' = <<AttributeLine(w, v, Filter), AttributeLine(w, v, Diff)>>
  BY <1>2
<1> HIDE DEF w
<1>5. filter_attr = <<>> /\ diff_attr = <<>> /\ listed = {}
  BY <1>1 DEF ScanInv
<1>6. Reading'
  BY <1>1, <1>2, <1>3, <1>4, <1>5 DEF Reading
<1> QED  BY <1>1, <1>2, <1>5, <1>6 DEF ScanInv

LEMMA StatusKeeps ==
  ASSUME ScanInv, Status
  PROVE  ScanInv'
<1>1. /\ pc = "read" /\ lines = <<>> /\ pc' = "keys"
      /\ encrypted' = Spelled(filter_attr)
      /\ UNCHANGED <<values, lines, filter_attr, diff_attr, listed>>
  BY DEF Status, Spelled
<1>2. FilterRead /\ diff_attr = Meant(values[Diff])
  <2>1. PICK w \in Texts :
          \/ /\ lines = <<AttributeLine(w, values, Filter), AttributeLine(w, values, Diff)>>
             /\ filter_attr = <<>> /\ diff_attr = <<>>
          \/ /\ lines = <<AttributeLine(w, values, Diff)>>
             /\ FilterRead /\ diff_attr = <<>>
          \/ lines = <<>> /\ FilterRead /\ diff_attr = Meant(values[Diff])
    BY <1>1 DEF ScanInv, Reading
  <2> QED  BY <1>1, <2>1
<1>3. Spelled(filter_attr) \in BOOLEAN
  BY DEF Spelled, IsPrefix
<1>4. pc' = "keys" /\ encrypted' \in BOOLEAN /\ encrypted' = Spelled(filter_attr')
      /\ FilterRead' /\ diff_attr' = Meant(values'[Diff]) /\ lines' = <<>>
  BY <1>1, <1>2, <1>3 DEF FilterRead
<1>5. listed' = {} /\ values' \in [{Filter, Diff} -> Values]
  BY <1>1 DEF ScanInv
<1> QED  BY <1>4, <1>5, Zenon DEF ScanInv

LEMMA KeysKeep ==
  ASSUME ScanInv, ListedForAll \/ \E key \in AllKeys : ListFor(key)
  PROVE  ScanInv'
<1>1. CASE ListedForAll
  BY <1>1 DEF ScanInv, ListedForAll, AllKeys, FilterRead
<1>2. ASSUME NEW key \in AllKeys, ListFor(key) PROVE ScanInv'
  <2>1. /\ pc = "keys" /\ filter_attr = AttributeName(key) /\ listed' = listed \cup {key}
        /\ UNCHANGED <<values, lines, filter_attr, diff_attr, pc, encrypted>>
    BY <1>2 DEF ListFor
  <2> QED  BY <2>1 DEF ScanInv, FilterRead
<1> QED  BY <1>1, <1>2

LEMMA NextScanInv == ListInv /\ ScanInv /\ [ScanNext]_allvars => ScanInv'
<1> SUFFICES ASSUME ListInv, ScanInv, [ScanNext]_allvars PROVE ScanInv'
  OBVIOUS
<1>1. CASE UNCHANGED scan
  <2>1. UNCHANGED <<values, lines, filter_attr, diff_attr, pc, encrypted, listed>>
    BY <1>1 DEF scan
  <2> QED  BY <2>1 DEF ScanInv, Reading, FilterRead
<1> QED
  BY <1>1, AskKeeps, ReadLineKeeps, StatusKeeps, KeysKeep DEF ScanNext, AllKeys, allvars

LEMMA ScanInvAlways == ScanSpec => []ScanInv
BY InitScanInv, NextScanInv, ListInvAlways, PTL DEF ScanSpec

\* The types: no name that is read has a NUL, and what is read of the attributes is
\* a value of the file, or nothing.
THEOREM ScanTypes == ScanSpec => []ScanTypeOK
<1>1. ListInv /\ ScanInv => ScanTypeOK
  <2> SUFFICES ASSUME ListInv, ScanInv PROVE ScanTypeOK
    OBVIOUS
  <2>2. TypeOK
    BY DEF TypeOK, ListInv, Listed, Texts, Row, NameTexts
  <2>3. \A a \in {Filter, Diff} : Meant(values[a]) \in Values \cup {<<>>}
    BY DEF ScanInv, Meant
  <2>4. values \in [{Filter, Diff} -> Values] /\ Filter \in {Filter, Diff} /\ Diff \in {Filter, Diff}
    BY DEF ScanInv
  <2>5. Len(lines) <= 2 /\ filter_attr \in Values \cup {<<>>} /\ diff_attr \in Values \cup {<<>>}
    <3>1. CASE pc # "read"
      BY <2>3, <2>4, <3>1 DEF ScanInv, FilterRead
    <3>2. CASE pc = "read"
      BY <2>3, <2>4, <3>2 DEF ScanInv, Reading, FilterRead
    <3> QED  BY <3>1, <3>2
  <2> QED  BY <2>2, <2>4, <2>5 DEF ScanTypeOK, ScanInv, AllKeys
<1> QED  BY <1>1, ListInvAlways, ScanInvAlways, PTL

\* What is read is what git check-attr says of the file, for every name and every
\* value without blanks: the line is read from its end (commands.cpp:390).
THEOREM AttributesRead == ScanSpec => []AttributesTrue
<1>1. ScanInv => AttributesTrue
  BY DEF ScanInv, AttributesTrue, FilterRead
<1> QED  BY <1>1, ScanInvAlways, PTL

\* The attribute of a key is its own.
LEMMA OneKey ==
  ASSUME NEW k \in AllKeys, NEW l \in AllKeys, AttributeName(k) = AttributeName(l)
  PROVE  k = l
<1>1. \A m \in KeyNames : Len(AttributeName(m)) # 1
  <2> TAKE m \in KeyNames
  <2>1. Len(m) \in Nat /\ Len(m) > 0 /\ Len(AttributeName(m)) = Len(m) + 2
    BY NamedIs
  <2> QED  BY <2>1
<1>2. Len(AttributeName(NoName)) = 1
  BY NoNameIs
<1>3. CASE k \in KeyNames /\ l \in KeyNames
  <2>1. /\ k \in Seq(Range(k)) /\ Len(k) \in Nat /\ Len(AttributeName(k)) = Len(k) + 2
        /\ l \in Seq(Range(l)) /\ Len(l) \in Nat /\ Len(AttributeName(l)) = Len(l) + 2
        /\ \A q \in 1..Len(k) : AttributeName(k)[2 + q] = k[q]
        /\ \A q \in 1..Len(l) : AttributeName(l)[2 + q] = l[q]
    BY <1>3, NamedIs
  <2>2. Len(k) = Len(l)
    BY <2>1
  <2>3. \A q \in 1..Len(k) : k[q] = l[q]
    BY <2>1, <2>2
  <2> QED  BY <2>1, <2>2, <2>3, SeqEqual
<1> QED  BY <1>1, <1>2, <1>3 DEF AllKeys

\* status knows the attribute of every key.
LEMMA KeySpelled == \A k \in AllKeys : Spelled(AttributeName(k))
<1> DEFINE h == NamedPrefix
<1>1. ASSUME NEW k \in KeyNames PROVE IsPrefix(h, AttributeName(k))
  <2> DEFINE S == Range(k) \cup {Letter("git-crypt"), Letter("-")}  t == AttributeName(k)
  <2>1. /\ t \in Seq(S) /\ Len(k) \in Nat /\ Len(k) > 0 /\ Len(t) = Len(k) + 2
        /\ t[1] = Letter("git-crypt") /\ t[2] = Letter("-")
    BY NamedIs
  <2>2. h \in Seq(S) /\ Len(h) = 2 /\ h[1] = Letter("git-crypt") /\ h[2] = Letter("-")
    BY DEF NamedPrefix
  <2> HIDE DEF h, S, t
  <2>3. \A i \in 1..2 : t[i] \in S /\ h[i] \in S /\ t[i] = h[i]
    <3>1. \A i \in 1..2 : i = 1 \/ i = 2
      OBVIOUS
    <3>2. \A i \in 1..2 : i \in 1..Len(t) /\ i \in 1..Len(h)
      BY <2>1, <2>2
    <3> QED  BY <2>1, <2>2, <3>1, <3>2
  <2>4. /\ SubSeq(t, 1, 2) \in Seq(S) /\ Len(SubSeq(t, 1, 2)) = 2
        /\ \A i \in 1..2 : SubSeq(t, 1, 2)[i] = t[i]
    BY <2>3, SubSeqProperties
  <2>5. /\ SubSeq(h, 1, 2) \in Seq(S) /\ Len(SubSeq(h, 1, 2)) = 2
        /\ \A i \in 1..2 : SubSeq(h, 1, 2)[i] = h[i]
    BY <2>3, SubSeqProperties
  <2>6. SubSeq(t, 1, 2) = SubSeq(h, 1, 2)
    BY <2>3, <2>4, <2>5, SeqEqual
  <2>7. IsPrefix(h, t)
    BY <2>1, <2>2, <2>6 DEF IsPrefix
  <2> QED  BY <2>7 DEF t
<1> QED  BY <1>1, NoNameIs DEF Spelled, AllKeys

\* What has the prefix is the prefix and the rest.
LEMMA PrefixAndRest ==
  ASSUME NEW v, v \in Seq(Range(v)), IsPrefix(NamedPrefix, v)
  PROVE  NamedPrefix \o From(v, 3) = v
<1> DEFINE h == NamedPrefix  S == Range(v) \cup Range(NamedPrefix)  r == From(v, 3)
<1>1. h \in Seq(S) /\ Len(h) = 2
  <2>1. NamedPrefix \in Seq({Letter("git-crypt"), Letter("-")}) /\ Len(NamedPrefix) = 2
    BY DEF NamedPrefix
  <2>2. NamedPrefix \in Seq(Range(NamedPrefix))
    BY <2>1, OwnRange
  <2> QED  BY <2>1, <2>2
<1>2. v \in Seq(S) /\ Len(v) \in Nat
  <2>1. v \in Seq(Range(v))
    OBVIOUS
  <2> QED  BY <2>1, LenProperties
<1>3. Len(v) >= 2 /\ SubSeq(h, 1, 2) = SubSeq(v, 1, 2)
  BY <1>1, <1>2 DEF IsPrefix
<1> HIDE DEF h, S
<1>4. 3 \in 1..(Len(v) + 1) /\ Len(v) - 3 + 1 = Len(v) - 2
  BY <1>2, <1>3
<1>5. /\ r \in Seq(S) /\ Len(r) = Len(v) - 2
      /\ \A q \in 1..(Len(v) - 2) : r[q] = v[3 + q - 1]
  BY <1>2, <1>4, FromType, ZenonT(60)
<1> HIDE DEF r
<1>6. \A q \in 1..2 : h[q] = v[q]
  <2>1. \A q \in 1..2 : h[q] \in S /\ v[q] \in S
    BY <1>1, <1>2, <1>3
  <2>2. \A q \in 1..2 : SubSeq(h, 1, 2)[q] = h[q] /\ SubSeq(v, 1, 2)[q] = v[q]
    BY <2>1, SubSeqProperties
  <2> QED  BY <1>3, <2>2
<1> DEFINE t == h \o r
<1>7. /\ t \in Seq(S) /\ Len(t) = Len(v)
      /\ \A q \in 1..Len(v) : t[q] = IF q <= 2 THEN h[q] ELSE r[q - 2]
  <2>1. /\ h \o r \in Seq(S) /\ Len(h \o r) = Len(h) + Len(r)
        /\ \A q \in 1..(Len(h) + Len(r)) : (h \o r)[q] = IF q <= Len(h) THEN h[q] ELSE r[q - Len(h)]
    BY <1>1, <1>5, ConcatProperties, Zenon
  <2>2. Len(h) + Len(r) = Len(v)
    BY <1>1, <1>2, <1>5
  <2> QED  BY <1>1, <2>1, <2>2
<1> HIDE DEF t
<1>8. \A q \in 1..Len(v) : t[q] = v[q]
  <2> TAKE q \in 1..Len(v)
  <2>1. CASE q <= 2
    <3>1. q \in 1..2
      BY <1>2, <2>1
    <3> QED  BY <1>6, <1>7, <2>1, <3>1
  <2>2. CASE ~(q <= 2)
    <3>1. q - 2 \in 1..(Len(v) - 2) /\ 3 + (q - 2) - 1 = q
      BY <1>2, <2>2
    <3> QED  BY <1>5, <1>7, <2>2, <3>1
  <2> QED  BY <2>1, <2>2
<1>9. t = v
  BY <1>2, <1>7, <1>8, SeqEqual
<1> QED  BY <1>9 DEF t, h, r

\* No two keys take the same file, and status calls encrypted what lock and unlock of
\* a key take (commands.cpp:561 and 1638 compare apart); what it calls encrypted and
\* no key takes has a filter for a name that validate_key_name refuses (key.cpp:311).
\* For every file and every value without a blank, spelled like git-crypt's or not.
THEOREM StatusAndLockAgree == ScanSpec => []StatusAgrees
<1>1. ScanInv => StatusAgrees
  <2> SUFFICES ASSUME ScanInv, pc = "done"
               PROVE  /\ \A k, l \in listed : k = l
                      /\ listed # {} => encrypted
                      /\ encrypted /\ listed = {} =>
                           /\ IsPrefix(NamedPrefix, values[Filter])
                           /\ ~validate_key_name(From(values[Filter], 3))
    BY DEF StatusAgrees
  <2>1. /\ FilterRead /\ encrypted = Spelled(filter_attr)
        /\ \A k \in listed : k \in AllKeys /\ filter_attr = AttributeName(k)
        /\ \A k \in AllKeys : filter_attr = AttributeName(k) => k \in listed
        /\ values[Filter] \in Values
    BY DEF ScanInv
  <2>2. \A k, l \in listed : k = l
    BY <2>1, OneKey
  <2>3. listed # {} => encrypted
    BY <2>1, KeySpelled
  <2>4. ASSUME encrypted, listed = {}
        PROVE  /\ IsPrefix(NamedPrefix, values[Filter])
               /\ ~validate_key_name(From(values[Filter], 3))
    <3> DEFINE v == values[Filter]
    <3>1. Spelled(filter_attr)
      BY <2>1, <2>4
    <3>2. v \notin NotAValue
      <4> SUFFICES ASSUME v \in NotAValue PROVE FALSE
        OBVIOUS
      <4>1. filter_attr = <<>>
        BY <2>1 DEF FilterRead, Meant
      <4>2. ~Spelled(<<>>)
        BY DEF Spelled, IsPrefix, NamedPrefix
      <4> QED  BY <3>1, <4>1, <4>2
    <3>3. filter_attr = v /\ v \in Written
      BY <2>1, <3>2 DEF FilterRead, Meant, Values
    <3>4. v # <<Letter("git-crypt")>>
      BY <2>1, <2>4, <3>3, NoNameIs DEF AllKeys
    <3>5. IsPrefix(NamedPrefix, v)
      BY <3>1, <3>3, <3>4 DEF Spelled
    <3> HIDE DEF v
    <3>6. ASSUME validate_key_name(From(v, 3)) PROVE FALSE
      <4> DEFINE k == From(v, 3)
      <4>1. k \in KeyNames
        BY <3>3, <3>6 DEF KeyNames
      <4>2. k # NoName
        BY <3>6 DEF validate_key_name, NoName
      <4>3. AttributeName(k) = NamedPrefix \o k
        BY <4>2 DEF AttributeName
      <4>4. v \in Seq(Range(v))
        BY <3>3, WrittenAssumption
      <4>5. AttributeName(k) = v
        BY <3>5, <4>3, <4>4, PrefixAndRest
      <4> QED  BY <2>1, <2>4, <3>3, <4>1, <4>5 DEF AllKeys
    <3> QED  BY <3>5, <3>6 DEF v
  <2> QED  BY <2>2, <2>3, <2>4
<1> QED  BY <1>1, ScanInvAlways, PTL

=============================================================================
