----------------------------- MODULE ZincProofs ------------------------------
(***************************************************************************)
(* What the writer prints for a value the reader takes for that value, and *)
(* stops where it ends.  A value ends where a grid goes on behind it; each *)
(* kind has a lemma that says ReadBack of its values, down from what a run *)
(* over a class of symbols takes.                                          *)
(***************************************************************************)
EXTENDS Zinc, OperatorProofs, SequenceTheorems

(* A symbol before a text. *)
Pre(c, t) == <<c>> \o t

(* What is left of a text without its first symbols. *)
LEMMA DropFacts ==
  ASSUME NEW S, NEW t \in Seq(S), NEW n \in Nat
  PROVE  /\ Drop(t, n) \in Seq(S)
         /\ n <= Len(t) => /\ Len(Drop(t, n)) = Len(t) - n
                           /\ \A i \in 1..Len(t) - n : Drop(t, n)[i] = t[i + n]
         /\ n >= Len(t) => Drop(t, n) = <<>>
         /\ n < Len(t) => Cur(Drop(t, n)) = t[n + 1] /\ Drop(t, n) # <<>>
         /\ Drop(t, 0) = t
<1>1. Drop(t, n) \in Seq(S)
  BY DEF Drop
<1>2. PICK d \in Seq(S) : d = Drop(t, n)
  BY <1>1
<1>3. n <= Len(t) => Len(d) = Len(t) - n
  BY <1>2 DEF Drop
<1>4. n <= Len(t) => \A i \in 1..Len(t) - n : d[i] = t[i + n]
  BY <1>2 DEF Drop
<1>5. n >= Len(t) => d = <<>>
  BY <1>2 DEF Drop
<1>6. n < Len(t) => Cur(d) = t[n + 1] /\ d # <<>>
  BY <1>3, <1>4 DEF Cur
<1>7. Drop(t, 0) = t
  BY DEF Drop
<1>. QED
  BY <1>1, <1>2, <1>3, <1>4, <1>5, <1>6, <1>7

(* The same, for a text whose length is known to be a sum. *)
LEMMA DropLen ==
  ASSUME NEW S, NEW t \in Seq(S), NEW n \in Nat, NEW k \in Nat, Len(t) = k + n
  PROVE  Len(Drop(t, n)) = k /\ \A i \in 1..k : Drop(t, n)[i] = t[i + n]
<1>1. n <= Len(t) /\ Len(t) - n = k
  OBVIOUS
<1>. QED
  BY <1>1, DropFacts, Zenon

(* What is left is left of in turn. *)
LEMMA DropTwice ==
  ASSUME NEW S, NEW t \in Seq(S), NEW m \in Nat, NEW n \in Nat
  PROVE  Drop(Drop(t, m), n) = Drop(t, m + n)
<1>1. PICK k \in Nat : k = Len(t)
  OBVIOUS
<1>2. PICK d \in Seq(S) : d = Drop(t, m)
  BY DropFacts
<1>3. PICK e \in Seq(S) : e = Drop(d, n)
  BY DropFacts
<1>4. PICK f \in Seq(S) : f = Drop(t, m + n)
  BY DropFacts
<1>5. CASE m + n <= k
  <2>0. PICK l \in Nat : l = k - (m + n)
    BY <1>5
  <2>1. Len(d) = l + n /\ \A i \in 1..l + n : d[i] = t[i + m]
    <3>1. l + n \in Nat /\ Len(t) = (l + n) + m
      BY <1>1, <2>0
    <3>. QED
      BY <1>2, <3>1, DropLen, Zenon
  <2>2. Len(e) = l /\ \A i \in 1..l : e[i] = d[i + n]
    BY <1>3, <2>1, DropLen, Zenon
  <2>3. Len(f) = l /\ \A i \in 1..l : f[i] = t[i + (m + n)]
    <3>1. m + n \in Nat /\ Len(t) = l + (m + n)
      BY <1>1, <2>0
    <3>. QED
      BY <1>4, <3>1, DropLen, Zenon
  <2>4. \A i \in 1..l : e[i] = f[i]
    <3> TAKE i \in 1..l
    <3>1. i + n \in 1..l + n /\ (i + n) + m = i + (m + n)
      OBVIOUS
    <3>. QED
      BY <2>1, <2>2, <2>3, <3>1
  <2>5. e = f
    BY <2>2, <2>3, <2>4
  <2>. QED
    BY <1>2, <1>3, <1>4, <2>5
<1>6. CASE m + n > k
  <2>1. f = <<>>
    BY <1>1, <1>4, <1>6, DropFacts
  <2>2. n >= Len(d)
    <3>1. CASE m <= k
      BY <1>1, <1>2, <1>6, <3>1, DropFacts
    <3>2. CASE m > k
      BY <1>1, <1>2, <3>2, DropFacts
    <3>. QED
      BY <3>1, <3>2
  <2>3. e = <<>>
    BY <1>3, <2>2, DropFacts
  <2>. QED
    BY <1>2, <1>3, <1>4, <2>1, <2>3
<1>. QED
  BY <1>5, <1>6

(* A symbol in front of a text. *)
LEMMA PrePlaces ==
  ASSUME NEW S, NEW c \in S, NEW t \in Seq(S)
  PROVE  /\ Pre(c, t) \in Seq(S) /\ Len(Pre(c, t)) = Len(t) + 1
         /\ Pre(c, t)[1] = c /\ \A i \in 1..Len(t) : Pre(c, t)[i + 1] = t[i]
<1>1. <<c>> \in Seq(S)
  OBVIOUS
<1>2. Pre(c, t) \in Seq(S)
  BY <1>1 DEF Pre
<1>3. PICK p \in Seq(S) : p = Pre(c, t)
  BY <1>2
<1>4. Len(p) = Len(t) + 1 /\ \A i \in 1..Len(t) : p[i + 1] = t[i]
  BY <1>3 DEF Pre
<1>5. p[1] = c
  BY <1>3 DEF Pre
<1>. QED
  BY <1>3, <1>4, <1>5

(* The first symbol is read, and what follows it is left. *)
LEMMA PreFacts ==
  ASSUME NEW S, NEW c \in S, NEW t \in Seq(S)
  PROVE  /\ Pre(c, t) \in Seq(S) /\ Pre(c, t) # <<>>
         /\ Cur(Pre(c, t)) = c /\ Peek(Pre(c, t)) = Cur(t)
         /\ \A n \in Nat : Drop(Pre(c, t), n + 1) = Drop(t, n)
         /\ Drop(Pre(c, t), 1) = t
<1>3. PICK p \in Seq(S) : p = Pre(c, t)
  BY PrePlaces
<1>4. Len(p) = Len(t) + 1 /\ p[1] = c /\ \A i \in 1..Len(t) : p[i + 1] = t[i]
  <2>1. Len(Pre(c, t)) = Len(t) + 1 /\ Pre(c, t)[1] = c
    BY PrePlaces
  <2>2. \A i \in 1..Len(t) : Pre(c, t)[i + 1] = t[i]
    BY PrePlaces
  <2>. QED
    BY <1>3, <2>1, <2>2
<1>6. p # <<>>
  BY <1>4
<1>7. Cur(p) = c
  BY <1>4, <1>6 DEF Cur
<1>8. Peek(p) = Cur(t)
  BY <1>4 DEF Peek, Cur
<1>9. PICK d \in Seq(S) : d = Drop(p, 1)
  BY DropFacts
<1>10. Len(d) = Len(t) /\ \A i \in 1..Len(t) : d[i] = p[i + 1]
  <2>1. Len(t) \in Nat /\ 1 \in Nat
    OBVIOUS
  <2>. QED
    BY <1>4, <1>9, <2>1, DropLen, Zenon
<1>11. d = t
  BY <1>4, <1>10
<1>12. \A n \in Nat : Drop(p, n + 1) = Drop(t, n)
  <2> TAKE n \in Nat
  <2>1. 1 + n = n + 1
    OBVIOUS
  <2>2. Drop(Drop(p, 1), n) = Drop(p, 1 + n)
    BY DropTwice
  <2>. QED
    BY <1>9, <1>11, <2>1, <2>2
<1>. QED
  BY <1>3, <1>6, <1>7, <1>8, <1>9, <1>11, <1>12

(* Every text but the empty one has a first symbol. *)
LEMMA PreOf ==
  ASSUME NEW S, NEW t \in Seq(S), t # <<>>
  PROVE  /\ t = Pre(Cur(t), Drop(t, 1)) /\ Cur(t) \in S /\ Cur(t) = t[1]
         /\ Drop(t, 1) \in Seq(S) /\ Len(Drop(t, 1)) = Len(t) - 1 /\ Len(t) > 0
<1>1. Len(t) > 0 /\ t[1] \in S /\ Cur(t) = t[1]
  BY DEF Cur
<1>2. PICK d \in Seq(S) : d = Drop(t, 1)
  BY DropFacts
<1>3. Len(d) = Len(t) - 1 /\ \A i \in 1..Len(t) - 1 : d[i] = t[i + 1]
  <2>1. Len(t) - 1 \in Nat /\ 1 \in Nat /\ Len(t) = (Len(t) - 1) + 1
    BY <1>1
  <2>. QED
    BY <1>2, <2>1, DropLen, Zenon
<1>4. PICK c \in S : c = t[1]
  BY <1>1
<1>5. PICK p \in Seq(S) : p = Pre(c, d)
  BY PreFacts
<1>6. Len(p) = Len(t) /\ p[1] = t[1] /\ \A i \in 1..Len(t) - 1 : p[i + 1] = t[i + 1]
  <2>1. Len(Pre(c, d)) = Len(d) + 1 /\ Pre(c, d)[1] = c
    BY PrePlaces
  <2>2. \A i \in 1..Len(d) : Pre(c, d)[i + 1] = d[i]
    BY PrePlaces
  <2>. QED
    BY <1>1, <1>3, <1>4, <1>5, <2>1, <2>2
<1>7. \A i \in 1..Len(t) : p[i] = t[i]
  <2> TAKE i \in 1..Len(t)
  <2>1. CASE i = 1
    BY <1>6, <2>1
  <2>2. CASE i # 1
    <3>1. i - 1 \in 1..Len(t) - 1 /\ (i - 1) + 1 = i
      BY <2>2
    <3>. QED
      BY <1>6, <3>1
  <2>. QED
    BY <2>1, <2>2
<1>8. p = t
  BY <1>6, <1>7
<1>. QED
  BY <1>1, <1>2, <1>3, <1>4, <1>5, <1>8

(* The text behind a first part is what dropping that part leaves. *)
LEMMA ConcatFacts ==
  ASSUME NEW S, NEW s \in Seq(S), NEW t \in Seq(S), NEW c \in S
  PROVE  /\ s \o t \in Seq(S) /\ Len(s \o t) = Len(s) + Len(t)
         /\ Drop(s \o t, Len(s)) = t /\ SubSeq(s \o t, 1, Len(s)) = s
         /\ <<>> \o t = t /\ s \o <<>> = s
         /\ Pre(c, s) \o t = Pre(c, s \o t)
         /\ s # <<>> => Cur(s \o t) = Cur(s)
<1>1. PICK u \in Seq(S) : u = s \o t
  BY ConcatProperties
<1>2. Len(u) = Len(s) + Len(t) /\ \A i \in 1..Len(s) + Len(t) : u[i] = IF i <= Len(s) THEN s[i] ELSE t[i - Len(s)]
  BY <1>1, ConcatProperties
<1>3. PICK d \in Seq(S) : d = Drop(u, Len(s))
  BY DropFacts
<1>4. Len(d) = Len(t) /\ \A i \in 1..Len(t) : d[i] = u[i + Len(s)]
  <2>1. Len(s) \in Nat /\ Len(t) \in Nat /\ Len(u) = Len(t) + Len(s)
    BY <1>2
  <2>. QED
    BY <1>3, <2>1, DropLen, Zenon
<1>5. d = t
  <2>1. \A i \in 1..Len(t) : u[i + Len(s)] = t[i]
    <3> TAKE i \in 1..Len(t)
    <3>1. i + Len(s) \in 1..Len(s) + Len(t) /\ ~(i + Len(s) <= Len(s)) /\ (i + Len(s)) - Len(s) = i
      OBVIOUS
    <3>. QED
      BY <1>2, <3>1
  <2>. QED
    BY <1>4, <2>1
<1>6. SubSeq(u, 1, Len(s)) \in Seq(S)
  <2>1. \A n \in 0..Len(u) : SubSeq(u, 1, n) \in Seq(S)
    OBVIOUS
  <2>2. Len(s) \in 0..Len(u)
    BY <1>2
  <2>. QED
    BY <2>1, <2>2
<1>7. PICK e \in Seq(S) : e = SubSeq(u, 1, Len(s))
  BY <1>6
<1>8. Len(e) = Len(s) /\ \A i \in 1..Len(s) : e[i] = u[i]
  BY <1>2, <1>7
<1>9. e = s
  BY <1>2, <1>8
<1>10. <<>> \o t = t /\ s \o <<>> = s
  OBVIOUS
<1>11. Pre(c, s) \o t = Pre(c, u)
  <2>0. <<c>> \in Seq(S)
    OBVIOUS
  <2>1. PICK x \in Seq(S) : x = <<c>>
    BY <2>0
  <2>2. (x \o s) \o t = x \o (s \o t)
    BY ConcatAssociative
  <2>. QED
    BY <1>1, <2>1, <2>2 DEF Pre
<1>12. s # <<>> => Cur(u) = Cur(s)
  BY <1>2 DEF Cur
<1>. QED
  BY <1>1, <1>2, <1>3, <1>5, <1>7, <1>9, <1>10, <1>11, <1>12
-----------------------------------------------------------------------------
(* Runs of symbols of a class. *)
LEMMA SmallestIs ==
  ASSUME NEW P \in SUBSET Nat, NEW m \in P, \A n \in P : m <= n
  PROVE  Min(P) = m
<1>1. Min(P) = CHOOSE x \in P : \A y \in P : x <= y
  BY DEF Min
<1>2. \A x \in P : (\A y \in P : x <= y) => x = m
  OBVIOUS
<1>. QED
  BY <1>1, <1>2

(* A run ends at the first symbol outside the class, or with the text. *)
LEMMA RunIs ==
  ASSUME NEW S, NEW t \in Seq(S), NEW C, NEW n \in 0..Len(t),
         n = Len(t) \/ t[n + 1] \notin C, \A i \in 1..n : t[i] \in C
  PROVE  Run(t, C) = n
<1> DEFINE P == {m \in 0..Len(t) : m = Len(t) \/ t[m + 1] \notin C}
<1>1. P \in SUBSET Nat /\ n \in P
  OBVIOUS
<1>2. ASSUME NEW m \in P PROVE n <= m
  <2>1. CASE m < n
    <3>1. m + 1 \in 1..n /\ m # Len(t)
      BY <2>1
    <3>. QED
      BY <3>1
  <2>. QED
    BY <2>1
<1>3. Run(t, C) = Min(P)
  BY DEF Run
<1> HIDE DEF P
<1>. QED
  BY <1>1, <1>2, <1>3, SmallestIs

(* There is a run, and its length is where it stops. *)
LEMMA RunFacts ==
  ASSUME NEW S, NEW t \in Seq(S), NEW C
  PROVE  /\ Run(t, C) \in 0..Len(t) /\ \A i \in 1..Run(t, C) : t[i] \in C
         /\ Run(t, C) = Len(t) \/ t[Run(t, C) + 1] \notin C
<1> DEFINE T == {n \in Nat : n <= Len(t) /\ \A i \in 1..n : t[i] \in C}
<1>1. SUFFICES ASSUME ~\E n \in 0..Len(t) : /\ n = Len(t) \/ t[n + 1] \notin C
                                          /\ \A i \in 1..n : t[i] \in C
               PROVE  FALSE
  <2> SUFFICES ASSUME NEW n \in 0..Len(t), n = Len(t) \/ t[n + 1] \notin C,
                      \A i \in 1..n : t[i] \in C
               PROVE  /\ Run(t, C) \in 0..Len(t) /\ \A i \in 1..Run(t, C) : t[i] \in C
                      /\ Run(t, C) = Len(t) \/ t[Run(t, C) + 1] \notin C
    OBVIOUS
  <2>1. Run(t, C) = n
    BY RunIs
  <2>. QED
    BY <2>1
<1>2. 0 \in T
  OBVIOUS
<1>3. ASSUME NEW n \in Nat, n \in T PROVE n + 1 \in T
  <2>1. n # Len(t) /\ t[n + 1] \in C
    BY <1>1, <1>3
  <2>. QED
    BY <1>3, <2>1
<1>4. Len(t) + 1 \in T
  <2> HIDE DEF T
  <2>1. Len(t) + 1 \in Nat
    OBVIOUS
  <2>. QED
    BY <1>2, <1>3, <2>1, Induction
<1>. QED
  BY <1>4

(* The run of a class, symbol by symbol. *)
LEMMA RunOf ==
  ASSUME NEW S, NEW C, NEW c \in S, NEW t \in Seq(S)
  PROVE  /\ Run(<<>>, C) = 0
         /\ Run(Pre(c, t), C) = IF c \in C THEN Run(t, C) + 1 ELSE 0
         /\ Run(t, C) \in Nat
<1>1. <<>> \in Seq(S) /\ Len(<<>>) = 0
  OBVIOUS
<1>2. Run(<<>>, C) = 0
  <2>1. 0 \in 0..Len(<<>>) /\ \A i \in 1..0 : <<>>[i] \in C
    BY <1>1
  <2>. QED
    BY <1>1, <2>1, RunIs, Zenon
<1>3. PICK p \in Seq(S) : p = Pre(c, t)
  BY PreFacts
<1>4. Len(p) = Len(t) + 1 /\ p[1] = c /\ \A i \in 1..Len(t) : p[i + 1] = t[i]
  <2>1. Len(Pre(c, t)) = Len(t) + 1 /\ Pre(c, t)[1] = c
    BY PrePlaces
  <2>2. \A i \in 1..Len(t) : Pre(c, t)[i + 1] = t[i]
    BY PrePlaces
  <2>. QED
    BY <1>3, <2>1, <2>2
<1>5. c \notin C => Run(p, C) = 0
  <2>1. 0 \in 0..Len(p) /\ 0 + 1 = 1 /\ \A i \in 1..0 : p[i] \in C
    BY <1>4
  <2>. QED
    BY <1>4, <2>1, RunIs, Zenon
<1>6. PICK n \in 0..Len(t) : n = Run(t, C) /\ \A i \in 1..n : t[i] \in C
  BY RunFacts
<1>7. n = Len(t) \/ t[n + 1] \notin C
  BY <1>6, RunFacts
<1>8. ASSUME c \in C PROVE Run(p, C) = n + 1
  <2>1. n + 1 \in 0..Len(p) /\ (n + 1 = Len(p) \/ p[(n + 1) + 1] \notin C)
    BY <1>4, <1>7
  <2>2. ASSUME NEW i \in 1..n + 1 PROVE p[i] \in C
    <3>1. CASE i = 1
      BY <1>4, <1>8, <3>1
    <3>2. CASE i # 1
      <4>1. i - 1 \in 1..n /\ i - 1 \in 1..Len(t) /\ (i - 1) + 1 = i
        BY <3>2
      <4>. QED
        BY <1>4, <1>6, <4>1
    <3>. QED
      BY <3>1, <3>2
  <2>. QED
    BY <2>1, <2>2, RunIs
<1>. QED
  BY <1>2, <1>3, <1>5, <1>6, <1>8

(* A run over a first part of the class stops where that part ends. *)
LEMMA RunConcat ==
  ASSUME NEW S, NEW C, NEW s \in Seq(S), NEW t \in Seq(S),
         \A i \in 1..Len(s) : s[i] \in C, t = <<>> \/ Cur(t) \notin C
  PROVE  /\ Run(s \o t, C) = Len(s)
         /\ SubSeq(s \o t, 1, Run(s \o t, C)) = s /\ Drop(s \o t, Run(s \o t, C)) = t
<1>1. PICK u \in Seq(S) : u = s \o t
  BY ConcatProperties
<1>2. Len(u) = Len(s) + Len(t) /\ \A i \in 1..Len(s) + Len(t) : u[i] = IF i <= Len(s) THEN s[i] ELSE t[i - Len(s)]
  BY <1>1, ConcatProperties
<1>3. Len(s) = Len(u) \/ u[Len(s) + 1] \notin C
  <2>1. CASE t = <<>>
    BY <1>2, <2>1
  <2>2. CASE t # <<>>
    <3>1. Len(s) + 1 \in 1..Len(s) + Len(t) /\ (Len(s) + 1) - Len(s) = 1 /\ ~(Len(s) + 1 <= Len(s))
      BY <2>2
    <3>. QED
      BY <1>2, <2>2, <3>1 DEF Cur
  <2>. QED
    BY <2>1, <2>2
<1>4. Run(u, C) = Len(s)
  <2>1. Len(s) \in 0..Len(u) /\ \A i \in 1..Len(s) : u[i] \in C
    BY <1>2
  <2>. QED
    BY <1>3, <2>1, RunIs, Zenon
<1>5. Drop(s \o t, Len(s)) = t /\ SubSeq(s \o t, 1, Len(s)) = s
  <2>1. \E x : x \in {s} \union {t} 
    OBVIOUS
  <2>2. CASE \E c : c \in S
    BY <2>2, ConcatFacts
  <2>3. CASE ~\E c : c \in S
    <3>1. s = <<>> /\ t = <<>>
      BY <2>3
    <3>. QED
      BY <3>1 DEF Drop
  <2>. QED
    BY <2>2, <2>3
<1>. QED
  BY <1>1, <1>4, <1>5

(* No prover takes a literal for a member of STRING. *)
Symbol == STRING \union Lower \union Upper \union Digits \union Zones \union Signs
          \union Degrees \union {"ctl", "u", "n", "r", "t", "000", "2.0"} \union Offsets \union Beyond
(* The texts of the reader. *)
Text == Seq(Symbol)

(* Every class of symbols of Zinc is one of them. *)
LEMMA SymbolsAre ==
  /\ STRING \subseteq Symbol /\ Lower \subseteq Symbol /\ Upper \subseteq Symbol
  /\ Digits \subseteq Symbol /\ Zones \subseteq Symbol /\ Signs \subseteq Symbol
  /\ Alpha \subseteq Symbol /\ UnitChar \subseteq Symbol /\ RefChar \subseteq Symbol
  /\ TzChar \subseteq Symbol /\ Id \subseteq Symbol /\ IdStart \subseteq Symbol
  /\ {"ctl", "u", "n", "r", "t"} \subseteq Symbol
<1>1. {"%", "_", "/", "$", "-", "+", ":", ".", "~"} \subseteq Signs
  BY DEF Signs
<1>. QED
  BY <1>1 DEF Symbol, Alpha, UnitChar, RefChar, TzChar, Id, IdStart

(* Which classes the symbols of punctuation belong to: to none. *)
LEMMA NoClass ==
  /\ \A c \in {",", "\n", " ", "\r", "\t", "\"", "\\", "(", ")", "@", Tick, "eof"} :
        c \notin Alpha /\ c \notin Id /\ c \notin UnitChar /\ c \notin RefChar
        /\ c \notin TzChar /\ c \notin Digits /\ c \notin Lower
  /\ \A c \in {"-", ":", "+", "."} : c \notin Alpha /\ c \notin Digits /\ c \notin UnitChar /\ c \notin Id
  /\ \A c \in Digits : /\ c \notin Alpha /\ c \notin Signs /\ c \notin Zones
                       /\ c # "T" /\ c # "Z" /\ c # "e" /\ c # "INF" /\ c \notin UnitChar
  /\ \A c \in Alpha : c \notin Digits /\ c \notin Signs /\ c \notin Zones
<1>1. Words \intersect (Upper \union Digits \union Zones \union Signs \union {"eof"}) = {}
  BY WordsAssumption
<1>2. \A c \in {",", "\n", " ", "\r", "\t", "\"", "\\", "(", ")", "@", Tick} : c \in Signs
  BY DEF Signs
<1>3. \A c \in Signs \union {"eof"} : c \notin Alpha
  BY <1>1 DEF Alpha, Lower, Upper, Keyword, Signs, Tick
<1>4. \A c \in Signs \union {"eof"} : c \notin Digits /\ c \notin Zones
  BY DEF Digits, OneDigit, TwoDigits, Zeros, Signs, Tick, Zones
<1>5. \A c \in {",", "\n", " ", "\r", "\t", "\"", "\\", "(", ")", "@", Tick, "eof"} :
        c \notin {"_", "%", "/", "$", "-", "+", ":", ".", "~"}
  BY DEF Tick
<1>6. \A c \in {"-", ":", "+", "."} : c \in Signs /\ c \notin {"%", "_", "/", "$"}
  BY DEF Signs
<1>7. \A c \in Digits : /\ c \notin Alpha /\ c # "T" /\ c # "Z" /\ c # "e" /\ c # "INF" /\ c \notin Zones
  <2>1. \A c \in Digits : c \notin Words
    BY <1>1
  <2>2. \A c \in Digits : /\ c \notin Keyword /\ c \notin Upper /\ c \notin Zones
                          /\ c # "T" /\ c # "Z" /\ c # "e" /\ c # "INF"
    BY DEF Digits, OneDigit, TwoDigits, Zeros, Keyword, Upper, Zones
  <2>. QED
    BY <2>1, <2>2 DEF Alpha, Lower
<1>8. \A c \in Digits : c \notin Signs /\ c \notin {"%", "_", "/", "$"}
  <2>1. {"%", "_", "/", "$"} \subseteq Signs
    BY DEF Signs
  <2>. QED
    BY <1>4, <2>1
<1>9. \A c \in Alpha : c \notin Zones
  BY <1>1 DEF Alpha, Lower, Upper, Keyword, Zones
<1>10. \A c \in {",", "\n", " ", "\r", "\t", "\"", "\\", "(", ")", "@", Tick, "eof"} :
        c \notin Alpha /\ c \notin Digits /\ c \notin Zones
  BY <1>2, <1>3, <1>4
<1>11. \A c \in {",", "\n", " ", "\r", "\t", "\"", "\\", "(", ")", "@", Tick, "eof"} :
        c \notin Alpha /\ c \notin Id /\ c \notin UnitChar /\ c \notin RefChar
        /\ c \notin TzChar /\ c \notin Digits /\ c \notin Lower
  BY <1>5, <1>10 DEF UnitChar, RefChar, TzChar, Id, Alpha
<1>12. \A c \in {"-", ":", "+", "."} : c \notin Alpha /\ c \notin Digits /\ c \notin UnitChar /\ c \notin Id
  BY <1>3, <1>4, <1>6 DEF UnitChar, Id
<1>13. \A c \in Digits : /\ c \notin Alpha /\ c \notin Signs /\ c \notin Zones
                       /\ c # "T" /\ c # "Z" /\ c # "e" /\ c # "INF" /\ c \notin UnitChar
  BY <1>7, <1>8 DEF UnitChar
<1>14. \A c \in Alpha : c \notin Digits /\ c \notin Signs /\ c \notin Zones
  BY <1>3, <1>7, <1>9
<1>. QED
  BY <1>11, <1>12, <1>13, <1>14
-----------------------------------------------------------------------------
(* The facts about sequences, for texts. *)
LEMMA PreText ==
  ASSUME NEW c \in Symbol, NEW t \in Text
  PROVE  /\ Pre(c, t) \in Text /\ Pre(c, t) # <<>>
         /\ Cur(Pre(c, t)) = c /\ Peek(Pre(c, t)) = Cur(t)
         /\ Drop(Pre(c, t), 1) = t /\ Drop(t, 0) = t
         /\ \A n \in Nat : Drop(Pre(c, t), n + 1) = Drop(t, n)
<1>1. /\ Pre(c, t) \in Seq(Symbol) /\ Pre(c, t) # <<>>
      /\ Cur(Pre(c, t)) = c /\ Peek(Pre(c, t)) = Cur(t)
  BY PreFacts DEF Text
<1>2. Drop(Pre(c, t), 1) = t /\ \A n \in Nat : Drop(Pre(c, t), n + 1) = Drop(t, n)
  BY PreFacts DEF Text
<1>3. Drop(t, 0) = t
  <2>1. 0 \in Nat
    OBVIOUS
  <2>. QED
    BY <2>1, DropFacts DEF Text
<1>. QED
  BY <1>1, <1>2, <1>3 DEF Text

(* The run over a text, symbol by symbol. *)
LEMMA RunText ==
  ASSUME NEW c \in Symbol, NEW t \in Text, NEW C
  PROVE  /\ Run(Pre(c, t), C) = IF c \in C THEN Run(t, C) + 1 ELSE 0
         /\ Run(t, C) \in Nat
  BY RunOf DEF Text

(* A text that does not begin in the class has no run of it. *)
LEMMA RunStops ==
  ASSUME NEW t \in Text, NEW C, Cur(t) \notin C
  PROVE  Run(t, C) = 0
<1>1. CASE t = <<>>
  <2>1. "u" \in Symbol
    BY DEF Symbol
  <2>2. Run(<<>>, C) = 0
    BY <2>1, RunOf DEF Text
  <2>. QED
    BY <1>1, <2>2
<1>2. CASE t # <<>>
  <2>1. t = Pre(Cur(t), Drop(t, 1)) /\ Cur(t) \in Symbol /\ Drop(t, 1) \in Text
    BY <1>2, PreOf DEF Text
  <2>2. PICK c \in Symbol : c = Cur(t)
    BY <2>1
  <2>3. PICK d \in Text : d = Drop(t, 1)
    BY <2>1
  <2>4. Run(Pre(c, d), C) = 0
    BY <2>2, RunText
  <2>. QED
    BY <2>1, <2>2, <2>3, <2>4
<1>. QED
  BY <1>1, <1>2

(* The same for texts, from the first symbol of what follows. *)
LEMMA RunOfClass ==
  ASSUME NEW C, NEW s \in Text, NEW t \in Text,
         \A i \in 1..Len(s) : s[i] \in C, Cur(t) \notin C
  PROVE  /\ Run(s \o t, C) = Len(s)
         /\ SubSeq(s \o t, 1, Len(s)) = s /\ Drop(s \o t, Len(s)) = t
<1>1. t = <<>> \/ Cur(t) \notin C
  OBVIOUS
<1>2. /\ Run(s \o t, C) = Len(s)
      /\ SubSeq(s \o t, 1, Run(s \o t, C)) = s /\ Drop(s \o t, Run(s \o t, C)) = t
  BY <1>1, RunConcat DEF Text
<1>. QED
  BY <1>2

(* Texts are joined and taken apart again. *)
LEMMA JoinText ==
  ASSUME NEW s \in Text, NEW t \in Text
  PROVE  /\ s \o t \in Text /\ Len(s \o t) = Len(s) + Len(t)
         /\ Drop(s \o t, Len(s)) = t /\ SubSeq(s \o t, 1, Len(s)) = s
         /\ <<>> \o t = t /\ s \o <<>> = s
         /\ s # <<>> => Cur(s \o t) = Cur(s)
         /\ \A u \in Text : (s \o t) \o u = s \o (t \o u)
<1>1. "u" \in Symbol
  BY DEF Symbol
<1>2. s \o t \in Text /\ Len(s \o t) = Len(s) + Len(t)
  BY <1>1, ConcatFacts DEF Text
<1>3. Drop(s \o t, Len(s)) = t /\ SubSeq(s \o t, 1, Len(s)) = s
  BY <1>1, ConcatFacts DEF Text
<1>4. <<>> \o t = t /\ s \o <<>> = s
  BY <1>1, ConcatFacts DEF Text
<1>5. s # <<>> => Cur(s \o t) = Cur(s)
  BY <1>1, ConcatFacts DEF Text
<1>6. \A u \in Text : (s \o t) \o u = s \o (t \o u)
  BY ConcatAssociative DEF Text
<1>. QED
  BY <1>2, <1>3, <1>4, <1>5, <1>6

(* A text of one symbol before another. *)
LEMMA JoinPre ==
  ASSUME NEW c \in Symbol, NEW s \in Text, NEW t \in Text
  PROVE  /\ Pre(c, s) \o t = Pre(c, s \o t) /\ <<c>> \o t = Pre(c, t) /\ <<c>> = Pre(c, <<>>)
         /\ <<c>> \in Text /\ <<>> \in Text
<1>1. <<c>> \in Text /\ <<>> \in Text
  BY DEF Text
<1>2. <<c>> = Pre(c, <<>>)
  <2>1. <<c>> \o <<>> = <<c>>
    BY <1>1, JoinText, Zenon
  <2>. QED
    BY <2>1 DEF Pre
<1>3. Pre(c, s) \o t = Pre(c, s \o t)
  BY ConcatFacts DEF Text
<1>. QED
  BY <1>1, <1>2, <1>3 DEF Pre

(* What a text is made of, and how it begins. *)
LEMMA TextTypes ==
  /\ Seq(STRING) \subseteq Text /\ Seq(UnitChar) \subseteq Text /\ Seq(RefChar) \subseteq Text
  /\ \A t \in Text : /\ Len(t) \in Nat /\ DOMAIN t = 1..Len(t) /\ (t = <<>> <=> Len(t) = 0)
                     /\ \A i \in 1..Len(t) : t[i] \in Symbol
                     /\ \A n \in Nat : Drop(t, n) \in Text
                     /\ t # <<>> => /\ Cur(t) = t[1] /\ Cur(t) \in Symbol
                                    /\ t = Pre(Cur(t), Drop(t, 1))
<1>1. \A C : C \subseteq Symbol => \A s \in Seq(C) : s \in Seq(Symbol)
  BY SeqMonotonic, Zenon
<1>2. \A t \in Text : /\ Len(t) \in Nat /\ DOMAIN t = 1..Len(t) /\ (t = <<>> <=> Len(t) = 0)
                      /\ \A i \in 1..Len(t) : t[i] \in Symbol
  BY DEF Text
<1>3. \A t \in Text : \A n \in Nat : Drop(t, n) \in Text
  BY DropFacts DEF Text
<1>4. \A t \in Text : t # <<>> => /\ Cur(t) = t[1] /\ Cur(t) \in Symbol
                                  /\ t = Pre(Cur(t), Drop(t, 1))
  BY PreOf DEF Text
<1>5. /\ Seq(STRING) \subseteq Text /\ Seq(UnitChar) \subseteq Text /\ Seq(RefChar) \subseteq Text
  BY <1>1, SymbolsAre DEF Text
<1>. QED
  BY <1>2, <1>3, <1>4, <1>5, Zenon
-----------------------------------------------------------------------------
(* Blanks. *)
LEMMA SkipFacts ==
  ASSUME NEW t \in Text
  PROVE  /\ Cur(t) \notin {" ", "\t"} => SkipSpace(t) = t
         /\ SkipSpace(Pre(" ", t)) = SkipSpace(t)
         /\ SkipSpace(t) \in Text
<1>1. ASSUME Cur(t) \notin {" ", "\t"} PROVE SkipSpace(t) = t
  <2>1. Run(t, {" ", "\t"}) = 0
    BY <1>1, RunStops
  <2>. QED
    BY <2>1, TextTypes, PreText, SymbolsAre DEF SkipSpace
<1>2. " " \in Symbol
  BY SymbolsAre DEF Signs
<1>3. SkipSpace(Pre(" ", t)) = SkipSpace(t)
  <2>1. PICK n \in Nat : n = Run(t, {" ", "\t"})
    BY <1>2, RunText
  <2>2. Run(Pre(" ", t), {" ", "\t"}) = n + 1
    <3>1. PICK B : B = {" ", "\t"}
      OBVIOUS
    <3>2. PICK c \in Symbol : c = " "
      BY <1>2
    <3>3. Run(Pre(c, t), B) = IF c \in B THEN Run(t, B) + 1 ELSE 0
      BY RunText
    <3>4. c \in B
      BY <3>1, <3>2
    <3>. QED
      BY <2>1, <3>1, <3>2, <3>3, <3>4
  <2>3. Drop(Pre(" ", t), n + 1) = Drop(t, n)
    BY <1>2, PreText
  <2>. QED
    BY <2>1, <2>2, <2>3 DEF SkipSpace
<1>4. SkipSpace(t) \in Text
  BY <1>2, RunText, TextTypes DEF SkipSpace
<1>. QED
  BY <1>1, <1>3, <1>4

-----------------------------------------------------------------------------
(* What stands behind a value in a grid. *)
Ends(t) == t \in Text /\ Cur(t) \in {",", "\n", " "} /\ Cur(SkipSpace(t)) # "\""

(* The reader takes v for v, and stops where the text of v ends. *)
ReadBack(v, rest) ==
  \E t \in Text : /\ ReadVal(ToZinc(v) \o rest, FALSE) = Got(v, t)
                  /\ SkipSpace(t) = SkipSpace(rest)

(* What ends a value never goes on with one. *)
LEMMA EndsFacts ==
  ASSUME NEW t, Ends(t)
  PROVE  /\ t \in Text /\ t # <<>>
         /\ Cur(t) \notin Alpha /\ Cur(t) \notin Id /\ Cur(t) \notin UnitChar
         /\ Cur(t) \notin RefChar /\ Cur(t) \notin TzChar /\ Cur(t) \notin Digits
         /\ Cur(t) \notin {".", "_", "e", "+", "-", ":", "T", "Z", "\"", ")"}
<1>1. t \in Text /\ Cur(t) \in {",", "\n", " "} /\ Cur(t) # "eof"
  BY DEF Ends
<1>2. t # <<>>
  BY <1>1 DEF Cur
<1>3. /\ Cur(t) \notin Alpha /\ Cur(t) \notin Id /\ Cur(t) \notin UnitChar
      /\ Cur(t) \notin RefChar /\ Cur(t) \notin TzChar /\ Cur(t) \notin Digits
  BY <1>1, NoClass
<1>4. Cur(t) \notin {".", "_", "e", "+", "-", ":", "T", "Z", "\"", ")"}
  BY <1>1
<1>. QED
  BY <1>1, <1>2, <1>3, <1>4
-----------------------------------------------------------------------------
(* Words. *)
LEMMA OneWord ==
  ASSUME NEW c \in Alpha, NEW t \in Text, Cur(t) \notin Alpha
  PROVE  ReadVal(Pre(c, t), FALSE) = Word(<<c>>, t)
<1>1. c \in Symbol
  BY SymbolsAre
<1>2. PICK p \in Text : p = Pre(c, t)
  BY <1>1, PreText
<1>3. Cur(p) = c /\ Drop(p, 1) = t
  BY <1>1, <1>2, PreText
<1>4. Run(t, Alpha) = 0
  BY RunStops
<1>5. SubSeq(p, 1, 1) = <<c>>
  <2>1. <<c>> \in Text /\ Len(<<c>>) = 1
    BY <1>1, JoinPre
  <2>2. SubSeq(<<c>> \o t, 1, Len(<<c>>)) = <<c>>
    BY <2>1, JoinText
  <2>. QED
    BY <1>2, <2>1, <2>2 DEF Pre
<1>6. c \notin Digits
  BY NoClass
<1>7. ReadVal(p, FALSE) = WordVal(p, FALSE)
  BY <1>3, <1>6 DEF ReadVal
<1>8. WordVal(p, FALSE) = Word(SubSeq(p, 1, 1), Drop(p, 1))
  BY <1>3, <1>4 DEF WordVal
<1>. QED
  BY <1>2, <1>3, <1>5, <1>7, <1>8

(* A minus before INF is read as the word. *)
LEMMA MinusWord ==
  ASSUME NEW t \in Text, Cur(t) \notin Alpha
  PROVE  ReadVal(<<"-", "INF">> \o t, FALSE) = Word(<<"-", "INF">>, t)
<1>1. "-" \in Symbol /\ "INF" \in Symbol /\ "INF" \in Alpha
  BY SymbolsAre DEF Signs, Upper, Alpha
<1>2. PICK q \in Text : q = Pre("INF", t)
  BY <1>1, PreText
<1>3. PICK p \in Text : p = Pre("-", q)
  BY <1>1, PreText
<1>4. Cur(p) = "-" /\ Drop(p, 1) = q /\ Cur(q) = "INF" /\ Drop(q, 1) = t /\ Peek(p) = "INF"
  BY <1>1, <1>2, <1>3, PreText
<1>5. PICK w \in Text : w = <<"-", "INF">>
  <2>1. <<"-", "INF">> \in Text
    BY <1>1 DEF Text
  <2>. QED
    BY <2>1
<1>6. w \o t = p /\ Len(w) = 2
  <2>1. w = Pre("-", <<"INF">>)
    BY <1>5 DEF Pre
  <2>2. <<"INF">> \in Text /\ <<"INF">> \o t = q
    BY <1>1, <1>2, JoinPre
  <2>3. Pre("-", <<"INF">>) \o t = Pre("-", <<"INF">> \o t)
    BY <1>1, <2>2, JoinPre
  <2>. QED
    BY <1>3, <1>5, <2>1, <2>2, <2>3
<1>7. SubSeq(p, 1, 2) = w /\ Drop(p, 2) = t
  <2>1. Drop(w \o t, Len(w)) = t /\ SubSeq(w \o t, 1, Len(w)) = w
    BY JoinText
  <2>. QED
    BY <1>6, <2>1
<1>8. Run(q, Alpha) = 1
  <2>1. Run(t, Alpha) = 0
    BY RunStops
  <2>2. PICK C : C = Alpha
    OBVIOUS
  <2>3. PICK c \in Symbol : c = "INF" /\ c \in C
    BY <1>1, <2>2
  <2>4. Run(Pre(c, t), C) = IF c \in C THEN Run(t, C) + 1 ELSE 0
    BY RunText
  <2>. QED
    BY <1>2, <2>1, <2>2, <2>3, <2>4
<1>9. Cur(p) \notin Digits /\ Cur(p) \notin Alpha
  BY <1>4, NoClass
<1>10. ReadVal(p, FALSE) = WordVal(p, FALSE)
  BY <1>4, <1>9 DEF ReadVal, Tick
<1>11. WordVal(p, FALSE) = Word(SubSeq(p, 1, 2), Drop(p, 2))
  BY <1>4, <1>8 DEF WordVal
<1>. QED
  BY <1>5, <1>6, <1>7, <1>10, <1>11

(* Marker, Bool and the numbers that are words. *)
LEMMA WordsReadBack ==
  ASSUME NEW v \in {Marker, Bool(TRUE), Bool(FALSE)} \union {Num(w, <<>>) : w \in Unlimited},
         NEW rest, Ends(rest)
  PROVE  ReadBack(v, rest)
<1>1. rest \in Text /\ Cur(rest) \notin Alpha
  BY EndsFacts
<1>2. {"M", "T", "F", "NaN", "INF"} \subseteq Alpha /\ {"M", "T", "F", "NaN", "INF"} \subseteq Symbol
  BY SymbolsAre DEF Alpha, Upper
<1>3. \A c \in {"M", "T", "F", "NaN", "INF"} : ReadVal(<<c>> \o rest, FALSE) = Word(<<c>>, rest)
  BY <1>1, <1>2, OneWord DEF Pre
<1>4. \A c, d \in {"N", "M", "R", "T", "F", "Bin", "C", "NaN", "INF"} : <<c>> = <<d>> => c = d
  OBVIOUS
<1>5. /\ ~(<<"M">> = <<"N">>) /\ \A c \in {"T", "F"} : <<c>> \notin {<<"N">>, <<"M">>, <<"R">>}
      /\ <<"T">> # <<"F">>
      /\ \A c \in {"NaN", "INF"} : <<c>> \notin {<<"N">>, <<"M">>, <<"R">>, <<"T">>, <<"F">>, <<"Bin">>, <<"C">>}
  OBVIOUS
<1>6. \A c \in {"N", "M", "R", "T", "F", "Bin", "C", "NaN", "INF"} : <<"-", "INF">> # <<c>>
  OBVIOUS
<1>7. CASE v = Marker
  <2>1. ToZinc(v) = <<"M">>
    BY <1>7 DEF ToZinc, Marker, Value
  <2>2. Word(<<"M">>, rest) = Got(Marker, rest)
    BY <1>5 DEF Word
  <2>. QED
    BY <1>1, <1>3, <1>7, <2>1, <2>2 DEF ReadBack
<1>8. CASE v = Bool(TRUE)
  <2>1. ToZinc(v) = <<"T">>
    BY <1>8 DEF ToZinc, Bool, Value
  <2>2. Word(<<"T">>, rest) = Got(Bool(TRUE), rest)
    BY <1>5 DEF Word
  <2>. QED
    BY <1>1, <1>3, <1>8, <2>1, <2>2 DEF ReadBack
<1>9. CASE v = Bool(FALSE)
  <2>1. ToZinc(v) = <<"F">>
    BY <1>9 DEF ToZinc, Bool, Value
  <2>2. Word(<<"F">>, rest) = Got(Bool(FALSE), rest)
    BY <1>5 DEF Word
  <2>. QED
    BY <1>1, <1>3, <1>9, <2>1, <2>2 DEF ReadBack
<1>10. ASSUME NEW w \in Unlimited, v = Num(w, <<>>) PROVE ReadBack(v, rest)
  <2>1. ToZinc(v) = w
    BY <1>10 DEF ToZinc, NumText, Num, Value
  <2>2. Word(w, rest) = Got(Num(w, <<>>), rest)
    BY <1>5, <1>6, <1>10 DEF Word, Unlimited
  <2>3. ReadVal(w \o rest, FALSE) = Word(w, rest)
    BY <1>1, <1>3, MinusWord DEF Unlimited
  <2>. QED
    BY <1>1, <1>10, <2>1, <2>2, <2>3 DEF ReadBack
<1>. QED
  BY <1>7, <1>8, <1>9, <1>10

-----------------------------------------------------------------------------
(* A loop in a quoted text, with what it has taken so far. *)
More(s, t) == [out |-> "more", val |-> s, rest |-> t]

(* Either loop takes turns. *)
LEMMA TurnsSteps ==
  ASSUME NEW t, NEW quote, NEW n \in Nat
  PROVE  \E f : /\ f[0] = More(<<>>, t)
                /\ \A k \in 1..n : f[k] = Turn(f[k - 1], quote)
                /\ Turns(t, quote, n) = f[n]
  <1> DEFINE Chain(f, m) == f = [k \in 0..m |->
                                   IF k = 0 THEN [out |-> "more", val |-> <<>>, rest |-> t]
                                   ELSE Turn(f[k - 1], quote)]
             Long == {m \in Nat : \E f : Chain(f, m)}
             F == CHOOSE f : Chain(f, n)
  <1>1. 0 \in Long
    <2>1. Chain([k \in 0..0 |-> [out |-> "more", val |-> <<>>, rest |-> t]], 0)
      OBVIOUS
    <2> QED BY <2>1
  <1>2. ASSUME NEW m \in Nat, m \in Long PROVE m + 1 \in Long
    <2>1. PICK f : Chain(f, m)
      BY <1>2
    <2> DEFINE h == [k \in 0..m + 1 |-> IF k = m + 1 THEN Turn(f[m], quote) ELSE f[k]]
    <2>2. ASSUME NEW k \in 0..m + 1
          PROVE  h[k] = IF k = 0 THEN [out |-> "more", val |-> <<>>, rest |-> t]
                        ELSE Turn(h[k - 1], quote)
      <3>1. CASE k = m + 1
        <4>1. k # 0 /\ k - 1 = m /\ m \in 0..m + 1 /\ m # m + 1
          BY <3>1
        <4>2. h[m] = f[m]
          BY <4>1
        <4> QED BY <3>1, <4>1, <4>2
      <3>2. CASE k # m + 1 /\ k # 0
        <4>1. k \in 0..m /\ k - 1 \in 0..m + 1 /\ k - 1 # m + 1
          BY <3>2
        <4>2. h[k] = f[k] /\ h[k - 1] = f[k - 1]
          BY <3>2, <4>1
        <4> QED BY <2>1, <3>2, <4>1, <4>2
      <3>3. CASE k = 0
        <4>1. 0 \in 0..m /\ 0 \in 0..m + 1 /\ 0 # m + 1
          OBVIOUS
        <4> QED BY <2>1, <3>3, <4>1
      <3> QED BY <3>1, <3>2, <3>3
    <2>3. Chain(h, m + 1)
      <3>1. h = [k \in 0..m + 1 |-> h[k]]
        OBVIOUS
      <3> HIDE DEF h
      <3> QED BY <2>2, <3>1
    <2>4. \E e : Chain(e, m + 1)
      <3> HIDE DEF h, Chain
      <3> QED BY <2>3
    <2> HIDE DEF Chain
    <2> QED BY <2>4
  <1>3. n \in Long
    <2> HIDE DEF Long
    <2> QED BY <1>1, <1>2, Induction
  <1>4. Chain(F, n)
    BY <1>3
  <1>5. Turns(t, quote, n) = F[n]
    BY DEF Turns
  <1> HIDE DEF F
  <1>6. \A k \in 0..n : F[k] = IF k = 0 THEN [out |-> "more", val |-> <<>>, rest |-> t]
                              ELSE Turn(F[k - 1], quote)
    BY <1>4, Zenon
  <1>7. 0 \in 0..n /\ \A k \in 1..n : k \in 0..n /\ k # 0
    OBVIOUS
  <1>8. F[0] = More(<<>>, t) /\ \A k \in 1..n : F[k] = Turn(F[k - 1], quote)
    BY <1>6, <1>7, Zenon DEF More
  <1> QED BY <1>5, <1>8

(* What is left of sequences put end to end, from one of them on. *)
LEMMA FlattenedFrom ==
  ASSUME NEW S, NEW ss \in Seq(Seq(S)), NEW k \in Nat, k < Len(ss)
  PROVE  /\ FlattenSeq(Drop(ss, k)) = ss[k + 1] \o FlattenSeq(Drop(ss, k + 1))
         /\ ss[k + 1] \in Seq(S) /\ FlattenSeq(Drop(ss, k + 1)) \in Seq(S)
<1>1. PICK T : T = Seq(S)
  OBVIOUS
<1>2. ss \in Seq(T)
  BY <1>1
<1>3. PICK d \in Seq(T) : d = Drop(ss, k)
  BY <1>2, DropFacts
<1>4. d # <<>> /\ Cur(d) = ss[k + 1]
  BY <1>2, <1>3, DropFacts
<1>5. d[1] = ss[k + 1]
  BY <1>4 DEF Cur
<1>6. PICK e \in Seq(T) : e = Drop(ss, k + 1)
  <2>1. k + 1 \in Nat
    OBVIOUS
  <2>. QED
    BY <1>2, <2>1, DropFacts
<1>7. Tail(d) = e
  <2>1. Tail(d) = SubSeq(d, 2, Len(d))
    BY <1>4, TailIsSubSeq
  <2>2. Drop(d, 1) = SubSeq(d, 2, Len(d))
    BY DEF Drop
  <2>3. Drop(d, 1) = e
    BY <1>2, <1>3, <1>6, DropTwice
  <2>. QED
    BY <2>1, <2>2, <2>3
<1>8. ss[k + 1] \in T
  <2>1. k + 1 \in 1..Len(ss)
    BY <1>2
  <2>. QED
    BY <1>2, <2>1
<1>9. FlattenSeq(d) = d[1] \o FlattenSeq(Tail(d))
  BY <1>1, <1>4, FlattenedFirst
<1>10. FlattenSeq(e) \in Seq(S)
  BY <1>1, FlattenedElements
<1>. QED
  BY <1>1, <1>3, <1>5, <1>6, <1>7, <1>8, <1>9, <1>10

(* A text in quotes, taken in a turn for each of its symbols and one more for *)
(* the quote at its end. *)
StandsFor(e, c, q) ==
  /\ e \in Text /\ e # <<>>
  /\ \A x, t \in Text : Turn(More(x, e \o t), q) = More(x \o <<c>>, t)
(* What the quote closes, whatever was taken before it. *)
Closes(u, w, q) == \A x \in Text : Turn(More(x, u), q) = Got(x, w)

(* What stands between the quotes is taken symbol by symbol, each from what  *)
(* stands for it, and given back whole.                                      *)
LEMMA UnquotedIs ==
  ASSUME NEW q, NEW s \in Text, NEW es \in Seq(Text), Len(es) = Len(s), NEW u \in Text,
         NEW w \in Text, \A i \in 1..Len(s) : StandsFor(es[i], s[i], q), Closes(u, w, q)
  PROVE  Unquoted(FlattenSeq(es) \o u, q) = Got(s, w)
<1>0. /\ \A i \in 1..Len(s) : es[i] # <<>>
      /\ \A i \in 1..Len(s) : \A x, t \in Text :
            Turn(More(x, es[i] \o t), q) = More(x \o <<s[i]>>, t)
      /\ \A x \in Text : Turn(More(x, u), q) = Got(x, w)
  BY DEF StandsFor, Closes
<1> DEFINE Rest(k) == FlattenSeq(Drop(es, k)) \o u
<1>1. PICK n \in Nat : n = Len(s) /\ n = Len(es)
  BY TextTypes
<1>2. \A k \in 0..n : Rest(k) \in Text
  <2> TAKE k \in 0..n
  <2>1. Drop(es, k) \in Seq(Text)
    BY DropFacts
  <2>2. FlattenSeq(Drop(es, k)) \in Text
    BY <2>1, FlattenedElements DEF Text
  <2>. QED
    BY <2>2, JoinText
<1>3. ASSUME NEW k \in Nat, k < n
      PROVE  /\ Rest(k) = es[k + 1] \o Rest(k + 1) /\ es[k + 1] \in Text
             /\ Len(Rest(k + 1)) < Len(Rest(k))
  <2>1. /\ FlattenSeq(Drop(es, k)) = es[k + 1] \o FlattenSeq(Drop(es, k + 1))
        /\ es[k + 1] \in Text /\ FlattenSeq(Drop(es, k + 1)) \in Text
    BY <1>1, <1>3, FlattenedFrom DEF Text
  <2>2. PICK e \in Text : e = es[k + 1]
    BY <2>1
  <2>3. PICK f \in Text : f = FlattenSeq(Drop(es, k + 1))
    BY <2>1
  <2>4. (e \o f) \o u = e \o (f \o u) /\ f \o u \in Text
    <3>1. \A x \in Text : (e \o f) \o x = e \o (f \o x)
      BY JoinText
    <3>2. f \o u \in Text
      BY JoinText
    <3>. QED
      BY <3>1, <3>2
  <2>5. Rest(k) = e \o Rest(k + 1)
    BY <2>1, <2>2, <2>3, <2>4
  <2>6. k + 1 \in 1..Len(s)
    BY <1>1, <1>3
  <2>7. e # <<>>
    BY <1>0, <2>2, <2>6
  <2>8. PICK r \in Text : r = Rest(k + 1)
    BY <2>3, <2>4
  <2> HIDE DEF Rest
  <2>9. Len(e \o r) = Len(e) + Len(r)
    BY JoinText
  <2>10. PICK i \in Nat : i = Len(e) /\ i # 0
    BY <2>7, TextTypes
  <2>11. PICK j \in Nat : j = Len(r)
    BY TextTypes
  <2>12. Rest(k) = e \o r
    BY <2>5, <2>8
  <2>13. Len(Rest(k + 1)) < Len(Rest(k))
    BY <2>8, <2>9, <2>10, <2>11, <2>12
  <2>. QED
    BY <2>2, <2>5, <2>13
<1>4. Rest(0) = FlattenSeq(es) \o u
  <2>1. Drop(es, 0) = es
    BY DropFacts
  <2>. QED
    BY <2>1
<1>5. Rest(n) = u
  <2>1. Drop(es, n) = <<>>
    BY <1>1, DropFacts
  <2>2. FlattenSeq(<<>>) = <<>>
    BY DEF FlattenSeq
  <2>3. <<>> \o u = u
    BY JoinText
  <2>. QED
    BY <2>1, <2>2, <2>3
<1> HIDE DEF Rest
<1>6. PICK m \in Nat : m = Len(Rest(0)) + 1
  BY <1>2, TextTypes
<1>7. PICK f : /\ f[0] = More(<<>>, Rest(0))
               /\ \A k \in 1..m : f[k] = Turn(f[k - 1], q)
               /\ Turns(Rest(0), q, m) = f[m]
  BY TurnsSteps
<1> DEFINE Taking == {k \in Nat : k <= n => /\ f[k] = More(SubSeq(s, 1, k), Rest(k))
                                            /\ Len(Rest(k)) + k < m}
<1>8. 0 \in Taking
  <2>1. SubSeq(s, 1, 0) = <<>>
    BY DEF Text
  <2>2. PICK i \in Nat : i = Len(Rest(0))
    BY <1>2, TextTypes
  <2>3. Len(Rest(0)) + 0 < m
    BY <1>6, <2>2
  <2>4. f[0] = More(SubSeq(s, 1, 0), Rest(0))
    BY <1>7, <2>1
  <2>. QED
    BY <2>3, <2>4
<1>9. ASSUME NEW k \in Nat, k \in Taking PROVE k + 1 \in Taking
  <2>0. k + 1 \in Nat
    OBVIOUS
  <2> SUFFICES ASSUME k + 1 <= n
               PROVE  f[k + 1] = More(SubSeq(s, 1, k + 1), Rest(k + 1)) /\ Len(Rest(k + 1)) + (k + 1) < m
    BY <2>0
  <2>1. /\ f[k] = More(SubSeq(s, 1, k), Rest(k)) /\ Len(Rest(k)) + k < m
        /\ k < n /\ k \in 0..n /\ k + 1 \in 0..n /\ k + 1 \in 1..Len(s)
    BY <1>1, <1>9
  <2>2. Rest(k) = es[k + 1] \o Rest(k + 1) /\ Len(Rest(k + 1)) < Len(Rest(k))
    BY <1>3, <2>1
  <2>3. Len(Rest(k)) \in Nat /\ Len(Rest(k + 1)) \in Nat /\ Rest(k + 1) \in Text
    BY <1>2, <2>1, TextTypes
  <2>4. k + 1 \in 1..m /\ (k + 1) - 1 = k
    BY <2>1, <2>3
  <2>5. f[k + 1] = Turn(More(SubSeq(s, 1, k), Rest(k)), q)
    BY <1>7, <2>1, <2>4
  <2>6. SubSeq(s, 1, k) \in Text
    BY <1>1, <2>1 DEF Text
  <2>7. PICK x \in Text : x = SubSeq(s, 1, k)
    BY <2>6
  <2>8. PICK r \in Text : r = Rest(k + 1)
    BY <2>3
  <2>9. Turn(More(x, es[k + 1] \o r), q) = More(x \o <<s[k + 1]>>, r)
    BY <1>0, <2>1
  <2>10. x \o <<s[k + 1]>> = SubSeq(s, 1, k + 1)
    <3>1. SubSeq(s, 1, k + 1) = Append(SubSeq(s, 1, k), s[k + 1])
      BY <1>1, <2>1, PrefixOneMore DEF Text
    <3>2. s[k + 1] \in Symbol
      BY <2>1, TextTypes
    <3>3. Append(x, s[k + 1]) = x \o <<s[k + 1]>>
      BY <3>2, AppendIsConcat DEF Text
    <3>. QED
      BY <2>7, <3>1, <3>3
  <2>11. Len(Rest(k + 1)) + (k + 1) < m
    <3>1. PICK i \in Nat : i = Len(Rest(k))
      BY <2>3
    <3>2. PICK j \in Nat : j = Len(Rest(k + 1))
      BY <2>3
    <3>3. i + k < m /\ j < i
      BY <2>1, <2>2, <3>1, <3>2
    <3>. QED
      BY <3>2, <3>3
  <2>. QED
    BY <2>2, <2>5, <2>7, <2>8, <2>9, <2>10, <2>11
<1>10. f[n] = More(s, u) /\ n < m
  <2>1. n \in Taking
    <3> HIDE DEF Taking
    <3>. QED
      BY <1>8, <1>9, Induction
  <2>2. SubSeq(s, 1, n) = s
    BY <1>1 DEF Text
  <2>3. PICK i \in Nat : i = Len(Rest(n))
    BY <1>2, TextTypes
  <2>4. f[n] = More(SubSeq(s, 1, n), Rest(n)) /\ i + n < m
    BY <2>1, <2>3
  <2>5. n < m
    BY <2>4
  <2>. QED
    BY <1>5, <2>2, <2>4, <2>5
<1> DEFINE Done == {k \in Nat : n + 1 + k <= m => f[n + 1 + k] = Got(s, w)}
<1>11. 0 \in Done
  <2>1. n + 1 \in 1..m /\ (n + 1) - 1 = n /\ n + 1 + 0 = n + 1
    BY <1>10
  <2>2. f[n + 1] = Turn(More(s, u), q)
    BY <1>7, <1>10, <2>1
  <2>. QED
    BY <1>0, <2>1, <2>2
<1>12. ASSUME NEW k \in Nat, k \in Done PROVE k + 1 \in Done
  <2>0. k + 1 \in Nat
    OBVIOUS
  <2> SUFFICES ASSUME n + 1 + (k + 1) <= m PROVE f[n + 1 + (k + 1)] = Got(s, w)
    BY <2>0
  <2>1. n + 1 + (k + 1) \in 1..m /\ (n + 1 + (k + 1)) - 1 = n + 1 + k /\ n + 1 + k <= m
    OBVIOUS
  <2>2. f[n + 1 + k] = Got(s, w)
    BY <1>12, <2>1
  <2>3. f[n + 1 + (k + 1)] = Turn(Got(s, w), q)
    BY <1>7, <2>1, <2>2
  <2>4. Turn(Got(s, w), q) = Got(s, w)
    BY DEF Turn, Got
  <2>. QED
    BY <2>3, <2>4
<1>13. f[m] = Got(s, w)
  <2>1. m - (n + 1) \in Nat /\ n + 1 + (m - (n + 1)) = m
    BY <1>10
  <2>2. m - (n + 1) \in Done
    <3> HIDE DEF Done
    <3>. QED
      BY <1>11, <1>12, <2>1, Induction
  <2>. QED
    BY <2>1, <2>2
<1>. QED
  BY <1>4, <1>6, <1>7, <1>13 DEF Unquoted

(* Texts are joined in any order. *)
LEMMA JoinJoin ==
  ASSUME NEW s \in Text, NEW t \in Text, NEW u \in Text
  PROVE  (s \o t) \o u = s \o (t \o u)
  BY ConcatAssociative DEF Text

(* Two texts of the same symbols are the same. *)
LEMMA SameText ==
  ASSUME NEW s \in Text, NEW t \in Text, NEW n \in Nat, Len(s) = n, Len(t) = n,
         \A i \in 1..n : s[i] = t[i]
  PROVE  s = t
  BY DEF Text

(* Texts of two symbols. *)
LEMMA PairText ==
  ASSUME NEW a \in Symbol, NEW b \in Symbol, NEW t \in Text
  PROVE  /\ <<a, b>> \in Text /\ <<a, b>> # <<>> /\ <<a, b>> = Pre(a, <<b>>)
         /\ <<a, b>> \o t = Pre(a, Pre(b, t))
<1>1. <<a, b>> \in Text /\ <<a, b>> # <<>> /\ Len(<<a, b>>) = 2
  BY DEF Text
<1>2. <<b>> \in Text
  BY JoinPre
<1>3. PICK w \in Text : w = <<a, b>>
  BY <1>1
<1>4. PICK x \in Text : x = <<b>>
  BY <1>2
<1>5. PICK p \in Text : p = Pre(a, x)
  BY PreText
<1>6. Len(p) = Len(x) + 1 /\ p[1] = a /\ \A i \in 1..Len(x) : p[i + 1] = x[i]
  <2>1. Len(Pre(a, x)) = Len(x) + 1 /\ Pre(a, x)[1] = a
    BY PrePlaces DEF Text
  <2>2. \A i \in 1..Len(x) : Pre(a, x)[i + 1] = x[i]
    BY PrePlaces DEF Text
  <2>. QED
    BY <1>5, <2>1, <2>2
<1>7. Len(x) = 1 /\ x[1] = b
  BY <1>4
<1>8. Len(p) = 2 /\ p[2] = b
  <2>1. p[1 + 1] = x[1] /\ Len(p) = 1 + 1
    BY <1>6, <1>7
  <2>. QED
    BY <1>7, <2>1
<1>9. w = p
  <2>1. Len(w) = 2 /\ w[1] = a /\ w[2] = b
    BY <1>3
  <2>2. \A i \in 1..2 : w[i] = p[i]
    BY <1>6, <1>8, <2>1
  <2>. QED
    BY <1>8, <2>1, <2>2 DEF Text
<1>10. <<b>> \o t = Pre(b, t)
  BY JoinPre
<1>11. Pre(a, x) \o t = Pre(a, x \o t)
  BY JoinPre
<1>. QED
  BY <1>1, <1>3, <1>4, <1>5, <1>9, <1>10, <1>11

(* Texts of three symbols. *)
LEMMA TripleText ==
  ASSUME NEW a \in Symbol, NEW b \in Symbol, NEW c \in Symbol, NEW t \in Text
  PROVE  /\ <<a, b, c>> \in Text /\ <<a, b, c>> # <<>> /\ <<a, b, c>> = Pre(a, <<b, c>>)
         /\ <<a, b, c>> \o t = Pre(a, Pre(b, Pre(c, t)))
<1>1. <<a, b, c>> \in Text /\ <<a, b, c>> # <<>> /\ Len(<<a, b, c>>) = 3
  BY DEF Text
<1>2. <<b, c>> \in Text /\ <<b, c>> \o t = Pre(b, Pre(c, t))
  BY PairText
<1>3. PICK w \in Text : w = <<a, b, c>>
  BY <1>1
<1>4. PICK x \in Text : x = <<b, c>>
  BY <1>2
<1>5. PICK p \in Text : p = Pre(a, x)
  BY PreText
<1>6. Len(p) = Len(x) + 1 /\ p[1] = a /\ \A i \in 1..Len(x) : p[i + 1] = x[i]
  <2>1. Len(Pre(a, x)) = Len(x) + 1 /\ Pre(a, x)[1] = a
    BY PrePlaces DEF Text
  <2>2. \A i \in 1..Len(x) : Pre(a, x)[i + 1] = x[i]
    BY PrePlaces DEF Text
  <2>. QED
    BY <1>5, <2>1, <2>2
<1>7. Len(x) = 2 /\ x[1] = b /\ x[2] = c
  BY <1>4
<1>8. Len(p) = 3 /\ p[2] = b /\ p[3] = c
  <2>1. p[1 + 1] = x[1] /\ p[2 + 1] = x[2] /\ Len(p) = 2 + 1
    BY <1>6, <1>7
  <2>. QED
    BY <1>7, <2>1
<1>9. Len(w) = 3 /\ w[1] = a /\ w[2] = b /\ w[3] = c
  BY <1>3
<1>10. w = p
  <2>1. \A i \in 1..3 : w[i] = p[i]
    BY <1>6, <1>8, <1>9
  <2>2. Len(w) = 3 /\ Len(p) = 3
    BY <1>8, <1>9
  <2>. QED
    BY <2>1, <2>2, SameText
<1>11. Pre(a, x) \o t = Pre(a, x \o t)
  BY JoinPre
<1>. QED
  BY <1>1, <1>2, <1>3, <1>4, <1>5, <1>10, <1>11

(* Three symbols before a text. *)
LEMMA TripleJoin ==
  ASSUME NEW a \in Symbol, NEW b \in Symbol, NEW c \in Symbol, NEW t \in Text
  PROVE  <<a, b, c>> \o t = Pre(a, Pre(b, Pre(c, t)))
<1>1. <<b, c>> \in Text /\ <<b, c>> \o t = Pre(b, Pre(c, t))
  BY PairText
<1>2. PICK x \in Text : x = <<b, c>>
  BY <1>1
<1>3. <<a, b, c>> = Pre(a, x)
  BY <1>2, TripleText
<1>4. Pre(a, x) \o t = Pre(a, x \o t)
  BY JoinPre
<1>. QED
  BY <1>1, <1>2, <1>3, <1>4

(* A text of three symbols from its end. *)
LEMMA TripleIs ==
  ASSUME NEW a \in Symbol, NEW b \in Symbol, NEW c \in Symbol
  PROVE  <<a, b, c>> = Pre(a, <<b, c>>)
<1>1. <<>> \in Text
  BY DEF Text
<1>. QED
  BY <1>1, TripleText

(* The first symbols of a text. *)
LEMMA PairDrop ==
  ASSUME NEW a \in Symbol, NEW b \in Symbol, NEW t \in Text, NEW n \in Nat
  PROVE  Drop(Pre(a, Pre(b, t)), n + 2) = Drop(t, n)
<1>1. PICK o \in Text : o = Pre(b, t)
  BY PreText
<1>2. \A i \in Nat : Drop(Pre(b, t), i + 1) = Drop(t, i)
  BY PreText
<1>3. \A i \in Nat : Drop(Pre(a, o), i + 1) = Drop(o, i)
  BY PreText
<1>4. n + 1 \in Nat /\ n + 2 = (n + 1) + 1
  OBVIOUS
<1>. QED
  BY <1>1, <1>2, <1>3, <1>4

(* Two symbols at the head of a text are read one by one. *)
LEMMA PairFacts ==
  ASSUME NEW a \in Symbol, NEW b \in Symbol, NEW t \in Text
  PROVE  LET p == Pre(a, Pre(b, t))
         IN  /\ p \in Text /\ p # <<>> /\ Cur(p) = a /\ Peek(p) = b
             /\ Drop(p, 1) = Pre(b, t) /\ Drop(p, 2) = t
<1>1. PICK o \in Text : o = Pre(b, t)
  BY PreText
<1>2. Cur(o) = b /\ Drop(o, 1) = t
  BY <1>1, PreText
<1>3. Pre(a, o) \in Text /\ Pre(a, o) # <<>> /\ Cur(Pre(a, o)) = a
  BY PreText
<1>4. Peek(Pre(a, o)) = Cur(o) /\ Drop(Pre(a, o), 1) = o
  BY PreText
<1>5. Drop(Pre(a, o), 2) = t
  <2>1. 0 \in Nat /\ 0 + 2 = 2 /\ Drop(t, 0) = t
    BY PreText
  <2>2. Drop(Pre(a, Pre(b, t)), 0 + 2) = Drop(t, 0)
    BY <2>1, PairDrop
  <2>. QED
    BY <1>1, <2>1, <2>2
<1>. QED
  BY <1>1, <1>2, <1>3, <1>4, <1>5

(* A turn takes what stands for a symbol. *)
LEMMA EscapeTurn ==
  ASSUME NEW x \in Text, NEW t \in Text,
         NEW e \in {"n", "r", "t", "\"", "\\"}
  PROVE  Turn(More(x, <<"\\", e>> \o t), "\"") = More(x \o <<Unescaped(e)>>, t)
<1>1. "\\" \in Symbol /\ e \in Symbol
  BY SymbolsAre DEF Signs
<1>2. <<"\\", e>> \o t = Pre("\\", Pre(e, t))
  BY <1>1, PairText
<1>3. PICK p \in Text : p = Pre("\\", Pre(e, t))
  BY <1>1, PairFacts
<1>4. Cur(p) = "\\" /\ Peek(p) = e /\ Drop(p, 2) = t
  BY <1>1, <1>3, PairFacts
<1>5. Turn(More(x, p), "\"") = EscapedChar(More(x, p))
  BY <1>4 DEF Turn, More, Tick
<1>6. EscapedChar(More(x, p)) = More(x \o <<Unescaped(e)>>, t)
  BY <1>4 DEF EscapedChar, More, Taken
<1>. QED
  BY <1>2, <1>3, <1>5, <1>6

(* A symbol without a meaning of its own stands for itself. *)
LEMMA PlainTurn ==
  ASSUME NEW x \in Text, NEW t \in Text, NEW q, NEW c \in Symbol,
         c \notin {"eof", "\n", "\r", q, "\\"}
  PROVE  Turn(More(x, <<c>> \o t), q) = More(x \o <<c>>, t)
<1>0. <<c>> \o t = Pre(c, t)
  BY JoinPre
<1>1. PICK p \in Text : p = Pre(c, t)
  BY PreText
<1>2. Cur(p) = c /\ Drop(p, 1) = t
  BY <1>1, PreText
<1>. QED
  BY <1>0, <1>1, <1>2 DEF Turn, More, Taken

(* The quote ends the text. *)
LEMMA LastTurn ==
  ASSUME NEW x \in Text, NEW t \in Text, NEW q \in {"\"", Tick}
  PROVE  Turn(More(x, Pre(q, t)), q) = Got(x, t)
<1>1. q \in Symbol
  BY SymbolsAre DEF Signs
<1>2. PICK p \in Text : p = Pre(q, t)
  BY <1>1, PreText
<1>3. Cur(p) = q /\ Drop(p, 1) = t
  BY <1>1, <1>2, PreText
<1>4. q \notin {"eof", "\n", "\r"}
  BY DEF Tick
<1>. QED
  BY <1>2, <1>3, <1>4 DEF Turn, More, Got

(* What the writer escapes in a string the reader takes for the symbol. *)
LEMMA EscapedTurn ==
  ASSUME NEW x \in Text, NEW t \in Text, NEW c \in Symbol, c # "eof"
  PROVE  /\ Turn(More(x, Escaped(c) \o t), "\"") = More(x \o <<c>>, t)
         /\ Escaped(c) \in Text /\ Escaped(c) # <<>>
<1>0. "\\" \in Symbol /\ "u" \in Symbol /\ "ctl" \in Symbol
  BY SymbolsAre DEF Signs
<1>1. "\\" \in Symbol /\ \A e \in {"n", "r", "t", "\"", "\\"} : e \in Symbol
  BY SymbolsAre DEF Signs
<1>2. ASSUME NEW e \in {"n", "r", "t", "\"", "\\"}, Escaped(c) = <<"\\", e>>, Unescaped(e) = c
      PROVE  /\ Turn(More(x, Escaped(c) \o t), "\"") = More(x \o <<c>>, t)
             /\ Escaped(c) \in Text /\ Escaped(c) # <<>>
  <2>1. Turn(More(x, <<"\\", e>> \o t), "\"") = More(x \o <<Unescaped(e)>>, t)
    BY EscapeTurn
  <2>2. <<"\\", e>> \in Text /\ <<"\\", e>> # <<>>
    BY <1>1, PairText
  <2>. QED
    BY <1>2, <2>1, <2>2
<1>3. CASE c = "\n"
  BY <1>2, <1>3 DEF Escaped, Unescaped
<1>4. CASE c = "\r"
  BY <1>2, <1>4 DEF Escaped, Unescaped
<1>5. CASE c = "\t"
  BY <1>2, <1>5 DEF Escaped, Unescaped
<1>6. CASE c \in {"\"", "\\"}
  BY <1>2, <1>6 DEF Escaped, Unescaped
<1>7. CASE c = "ctl"
  <2>1. Escaped(c) = <<"\\", "u", "ctl">>
    BY <1>7 DEF Escaped
  <2>2. PICK n \in Text : n = Pre("ctl", t)
    BY <1>0, PreText
  <2>3. Cur(n) = "ctl" /\ Drop(n, 1) = t
    BY <1>0, <2>2, PreText
  <2>4. PICK p \in Text : p = Pre("\\", Pre("u", n))
    BY <1>0, PairFacts
  <2>5. Cur(p) = "\\" /\ Peek(p) = "u" /\ Drop(p, 2) = n
    BY <1>0, <2>4, PairFacts
  <2>6. Drop(p, 3) = t
    <3>1. 1 + 2 = 3 /\ 1 \in Nat
      OBVIOUS
    <3>2. Drop(Pre("\\", Pre("u", n)), 1 + 2) = Drop(n, 1)
      BY <1>0, <3>1, PairDrop
    <3>. QED
      BY <2>3, <2>4, <3>1, <3>2
  <2>7. <<"\\", "u", "ctl">> \o t = Pre("\\", Pre("u", Pre("ctl", t)))
    <3>1. PICK a \in Symbol : a = "\\"
      BY <1>0
    <3>2. PICK b \in Symbol : b = "u"
      BY <1>0
    <3>3. PICK d \in Symbol : d = "ctl"
      BY <1>0
    <3>4. <<a, b, d>> \o t = Pre(a, Pre(b, Pre(d, t)))
      BY TripleJoin
    <3>. QED
      BY <3>1, <3>2, <3>3, <3>4
  <2>8. <<"\\", "u", "ctl">> \in Text /\ <<"\\", "u", "ctl">> # <<>>
    BY <1>0, TripleText
  <2>9. Turn(More(x, p), "\"") = EscapedChar(More(x, p))
    BY <2>5 DEF Turn, More, Tick
  <2>10. EscapedChar(More(x, p)) = More(x \o <<"ctl">>, t)
    BY <2>3, <2>5, <2>6 DEF EscapedChar, More, Taken
  <2>. QED
    BY <1>7, <2>1, <2>2, <2>4, <2>7, <2>8, <2>9, <2>10
<1>8. CASE c \notin {"\n", "\r", "\t", "\"", "\\", "ctl"}
  <2>1. Escaped(c) = <<c>>
    BY <1>8 DEF Escaped
  <2>2. <<c>> \in Text /\ <<c>> # <<>>
    BY JoinPre
  <2>3. c \notin {"eof", "\n", "\r", "\"", "\\"}
    BY <1>8
  <2>4. Turn(More(x, <<c>> \o t), "\"") = More(x \o <<c>>, t)
    BY <2>3, PlainTurn
  <2>. QED
    BY <2>1, <2>2, <2>4
<1>. QED
  BY <1>3, <1>4, <1>5, <1>6, <1>7, <1>8

(* The writer escapes only the backtick in a URI, which the reader takes     *)
(* back.                                                                     *)
LEMMA UriTurn ==
  ASSUME NEW x \in Text, NEW t \in Text, NEW c \in Symbol, c \notin {"eof", "\n", "\r", "\\"}
  PROVE  LET e == IF c = Tick THEN <<"\\", Tick>> ELSE <<c>>
         IN  /\ Turn(More(x, e \o t), Tick) = More(x \o <<c>>, t) /\ e \in Text /\ e # <<>>
<1>1. "\\" \in Symbol /\ Tick \in Symbol
  BY SymbolsAre DEF Signs
<1>2. CASE c # Tick
  <2>1. <<c>> \in Text /\ <<c>> # <<>>
    BY JoinPre
  <2>2. c \notin {"eof", "\n", "\r", Tick, "\\"}
    BY <1>2
  <2>3. Turn(More(x, <<c>> \o t), Tick) = More(x \o <<c>>, t)
    BY <2>2, PlainTurn
  <2>. QED
    BY <1>2, <2>1, <2>3
<1>3. CASE c = Tick
  <2>1. <<"\\", Tick>> \o t = Pre("\\", Pre(Tick, t)) /\ <<"\\", Tick>> \in Text /\ <<"\\", Tick>> # <<>>
    BY <1>1, PairText
  <2>2. PICK p \in Text : p = Pre("\\", Pre(Tick, t))
    BY <1>1, PairFacts
  <2>3. Cur(p) = "\\" /\ Peek(p) = Tick /\ Drop(p, 2) = t
    BY <1>1, <2>2, PairFacts
  <2>4. Turn(More(x, p), Tick) = UriEscape(More(x, p))
    BY <2>3 DEF Turn, More, Tick
  <2>5. UriEscape(More(x, p)) = More(x \o <<Tick>>, t)
    BY <2>3 DEF UriEscape, More, Taken, Tick
  <2>. QED
    BY <1>3, <2>1, <2>2, <2>4, <2>5
<1>. QED
  BY <1>2, <1>3

(* What stands between quotes comes back. *)
LEMMA QuotedIs ==
  ASSUME NEW s, IsText(s), NEW u \in Text
  PROVE  /\ Quoted(s) \in Text /\ Quoted(s) \o u # <<>> /\ Cur(Quoted(s) \o u) = "\""
         /\ Unquoted(Drop(Quoted(s) \o u, 1), "\"") = Got(s, u)
<1>1. s \in Text /\ \A i \in 1..Len(s) : s[i] \in Symbol /\ s[i] # "eof"
  <2>1. s \in Text
    BY TextTypes DEF IsText
  <2>2. DOMAIN s = 1..Len(s) /\ \A i \in 1..Len(s) : s[i] \in Symbol
    BY <2>1, TextTypes
  <2>. QED
    BY <2>1, <2>2 DEF IsText, Range
<1>2. PICK es : es = [i \in 1..Len(s) |-> Escaped(s[i])]
  OBVIOUS
<1>3. \A i \in 1..Len(s) : es[i] = Escaped(s[i]) /\ es[i] \in Text /\ es[i] # <<>>
  BY <1>1, <1>2, EscapedTurn
<1>4. es \in Seq(Text) /\ Len(es) = Len(s)
  <2>1. Len(s) \in Nat
    BY <1>1, TextTypes
  <2>. QED
    BY <1>2, <1>3, <2>1
<1>5. "\"" \in Symbol
  BY SymbolsAre DEF Signs
<1>6. PICK q \in Text : q = <<"\"">> /\ q \o u = Pre("\"", u)
  BY <1>5, JoinPre
<1>7. PICK f \in Text : f = FlattenSeq(es)
  BY <1>4, FlattenedElements DEF Text
<1>8. Quoted(s) = (q \o f) \o q
  BY <1>2, <1>6, <1>7 DEF Quoted
<1>9. PICK e \in Text : e = Pre("\"", u)
  BY <1>5, PreText
<1>10. Quoted(s) \o u = Pre("\"", f \o e) /\ Quoted(s) \in Text /\ f \o e \in Text
  <2>1. PICK g \in Text : g = q \o f
    BY JoinText
  <2>2. g \o q \in Text /\ f \o e \in Text
    BY JoinText
  <2>3. (g \o q) \o u = g \o (q \o u)
    BY JoinJoin
  <2>4. (q \o f) \o e = q \o (f \o e)
    BY JoinJoin
  <2>5. (g \o q) \o u = q \o (f \o e)
    BY <1>6, <1>9, <2>1, <2>3, <2>4
  <2>6. q \o (f \o e) = Pre("\"", f \o e)
    BY <1>6 DEF Pre
  <2>. QED
    BY <1>8, <2>1, <2>2, <2>5, <2>6
<1>11. /\ Drop(Pre("\"", f \o e), 1) = f \o e /\ Cur(Pre("\"", f \o e)) = "\""
       /\ Pre("\"", f \o e) # <<>>
  BY <1>5, <1>10, PreText
<1>12. \A i \in 1..Len(s) : StandsFor(es[i], s[i], "\"")
  BY <1>1, <1>3, EscapedTurn DEF StandsFor
<1>13. Closes(e, u, "\"")
  BY <1>9, LastTurn DEF Closes
<1>14. Unquoted(FlattenSeq(es) \o e, "\"") = Got(s, u)
  <2>1. PICK r : r = "\""
    OBVIOUS
  <2>2. \A i \in 1..Len(s) : StandsFor(es[i], s[i], r)
    BY <1>12, <2>1
  <2>3. Closes(e, u, r)
    BY <1>13, <2>1
  <2>4. s \in Text
    BY <1>1
  <2>5. Unquoted(FlattenSeq(es) \o e, r) = Got(s, u)
    BY <1>4, <2>2, <2>3, <2>4, UnquotedIs
  <2>. QED
    BY <2>1, <2>5
<1>. QED
  BY <1>7, <1>10, <1>11, <1>14

(* So a URI without backslashes and ends of lines is read as it was. *)
LEMMA UriTextIs ==
  ASSUME NEW s, IsText(s), Range(s) \intersect {"\\", "\n", "\r"} = {}, NEW u \in Text
  PROVE  /\ UriText(s) \in Text /\ UriText(s) \o u # <<>> /\ Cur(UriText(s) \o u) = Tick
         /\ Unquoted(Drop(UriText(s) \o u, 1), Tick) = Got(s, u)
<1>1. s \in Text /\ \A i \in 1..Len(s) : s[i] \in Symbol /\ s[i] \notin {"eof", "\n", "\r", "\\"}
  <2>1. s \in Text
    BY TextTypes DEF IsText
  <2>2. DOMAIN s = 1..Len(s) /\ \A i \in 1..Len(s) : s[i] \in Symbol
    BY <2>1, TextTypes
  <2>. QED
    BY <2>1, <2>2 DEF IsText, Range
<1>2. PICK es : es = [i \in 1..Len(s) |-> IF s[i] = Tick THEN <<"\\", Tick>> ELSE <<s[i]>>]
  OBVIOUS
<1>3. \A i \in 1..Len(s) : /\ es[i] = (IF s[i] = Tick THEN <<"\\", Tick>> ELSE <<s[i]>>)
                           /\ es[i] \in Text /\ es[i] # <<>>
  BY <1>1, <1>2, UriTurn
<1>4. es \in Seq(Text) /\ Len(es) = Len(s)
  <2>1. PICK n \in Nat : n = Len(s)
    BY <1>1, TextTypes
  <2>2. \A i \in 1..n : es[i] \in Text
    BY <1>3, <2>1
  <2>3. es = [i \in 1..n |-> es[i]]
    BY <1>2, <2>1
  <2>. QED
    BY <2>1, <2>2, <2>3, LenProperties
<1>5. Tick \in Symbol
  BY SymbolsAre DEF Signs
<1>6. PICK q \in Text : q = <<Tick>> /\ q \o u = Pre(Tick, u)
  BY <1>5, JoinPre
<1>7. PICK f \in Text : f = FlattenSeq(es)
  BY <1>4, FlattenedElements DEF Text
<1>8. UriText(s) = (q \o f) \o q
  BY <1>2, <1>6, <1>7 DEF UriText
<1>9. PICK e \in Text : e = Pre(Tick, u)
  BY <1>5, PreText
<1>10. UriText(s) \o u = Pre(Tick, f \o e) /\ UriText(s) \in Text /\ f \o e \in Text
  <2>1. PICK g \in Text : g = q \o f
    BY JoinText
  <2>2. g \o q \in Text /\ f \o e \in Text
    BY JoinText
  <2>3. (g \o q) \o u = g \o (q \o u)
    BY JoinJoin
  <2>4. (q \o f) \o e = q \o (f \o e)
    BY JoinJoin
  <2>5. (g \o q) \o u = q \o (f \o e)
    BY <1>6, <1>9, <2>1, <2>3, <2>4
  <2>6. q \o (f \o e) = Pre(Tick, f \o e)
    BY <1>6 DEF Pre
  <2>. QED
    BY <1>8, <2>1, <2>2, <2>5, <2>6
<1>11. /\ Drop(Pre(Tick, f \o e), 1) = f \o e /\ Cur(Pre(Tick, f \o e)) = Tick
       /\ Pre(Tick, f \o e) # <<>>
  BY <1>5, <1>10, PreText
<1>12. \A i \in 1..Len(s) : StandsFor(es[i], s[i], Tick)
  BY <1>1, <1>3, UriTurn DEF StandsFor
<1>13. Closes(e, u, Tick)
  BY <1>9, LastTurn DEF Closes
<1>14. Unquoted(FlattenSeq(es) \o e, Tick) = Got(s, u)
  BY <1>1, <1>4, <1>12, <1>13, UnquotedIs
<1>. QED
  BY <1>7, <1>10, <1>11, <1>14

(* Blanks are skipped once. *)
LEMMA SkipTwice ==
  ASSUME NEW t \in Text
  PROVE  Cur(SkipSpace(t)) \notin {" ", "\t"} /\ SkipSpace(SkipSpace(t)) = SkipSpace(t)
<1>1. PICK C : C = {" ", "\t"}
  OBVIOUS
<1>2. PICK n \in 0..Len(t) : n = Run(t, C)
  BY RunFacts DEF Text
<1>3. n = Len(t) \/ t[n + 1] \notin C
  BY <1>2, RunFacts DEF Text
<1>4. PICK s \in Text : s = SkipSpace(t)
  BY SkipFacts
<1>5. s = Drop(t, n)
  BY <1>1, <1>2, <1>4 DEF SkipSpace
<1>6. PICK k \in Nat : k = Len(t) /\ n <= k /\ n \in Nat
  BY <1>2, TextTypes
<1>7. CASE n = k
  <2>1. s = <<>>
    BY <1>5, <1>6, <1>7, DropFacts DEF Text
  <2>2. "eof" \notin {" ", "\t"}
    OBVIOUS
  <2>. QED
    BY <1>4, <2>1, <2>2, SkipFacts DEF Cur
<1>8. CASE n # k
  <2>1. n < Len(t)
    BY <1>6, <1>8
  <2>2. Cur(Drop(t, n)) = t[n + 1]
    BY <1>6, <2>1, DropFacts DEF Text
  <2>3. Cur(s) \notin {" ", "\t"}
    BY <1>1, <1>3, <1>5, <1>6, <1>8, <2>2
  <2>. QED
    BY <1>4, <2>3, SkipFacts
<1>. QED
  BY <1>7, <1>8

(* Strings. *)
LEMMA StrReadsBack ==
  ASSUME NEW s, IsText(s), NEW rest, Ends(rest)
  PROVE  ReadBack(Str(s), rest)
<1>1. rest \in Text
  BY EndsFacts
<1>2. PICK t \in Text : t = Quoted(s) \o rest
  BY <1>1, QuotedIs, JoinText
<1>3. Cur(t) = "\"" /\ Unquoted(Drop(t, 1), "\"") = Got(s, rest)
  BY <1>1, <1>2, QuotedIs
<1>4. ToZinc(Str(s)) = Quoted(s)
  BY DEF ToZinc, Str, Value
<1>5. Cur(t) \notin Digits /\ Cur(t) \notin Alpha /\ Cur(t) # "@"
  BY <1>3, NoClass
<1>6. ReadVal(t, FALSE) = StrVal(Drop(t, 1))
  BY <1>3, <1>5 DEF ReadVal
<1>7. StrVal(Drop(t, 1)) = Got(Str(s), rest)
  <2>1. PICK g : g = Unquoted(Drop(t, 1), "\"")
    OBVIOUS
  <2>2. StrVal(Drop(t, 1)) = IF g.out = "ok" THEN Got(Str(g.val), g.rest) ELSE g
    BY <2>1, Zenon DEF StrVal
  <2>3. g = Got(s, rest)
    BY <1>3, <2>1
  <2>. QED
    BY <2>2, <2>3 DEF Got
<1>. QED
  BY <1>1, <1>2, <1>4, <1>6, <1>7 DEF ReadBack

(* URIs. *)
LEMMA UriReadsBack ==
  ASSUME NEW s, IsText(s), Range(s) \intersect {"\\", "\n", "\r"} = {}, NEW rest, Ends(rest)
  PROVE  ReadBack(Uri(s), rest)
<1>1. rest \in Text
  BY EndsFacts
<1>2. PICK t \in Text : t = UriText(s) \o rest
  BY <1>1, UriTextIs, JoinText
<1>3. Cur(t) = Tick /\ Unquoted(Drop(t, 1), Tick) = Got(s, rest)
  BY <1>1, <1>2, UriTextIs
<1>4. ToZinc(Uri(s)) = UriText(s)
  BY DEF ToZinc, Uri, Value
<1>5. Cur(t) \notin Digits /\ Cur(t) \notin Alpha
  BY <1>3, NoClass
<1>6. ReadVal(t, FALSE) = UriVal(Drop(t, 1))
  BY <1>3, <1>5 DEF ReadVal, Tick
<1>7. UriVal(Drop(t, 1)) = Got(Uri(s), rest)
  BY <1>3 DEF UriVal, Got
<1>. QED
  BY <1>1, <1>2, <1>4, <1>6, <1>7 DEF ReadBack

(* Refs, with or without a name to display. *)
LEMMA RefReadsBack ==
  ASSUME NEW s \in Seq(RefChar), NEW m, IsText(m), NEW rest, Ends(rest)
  PROVE  ReadBack(Ref(s, m), rest)
<1>1. rest \in Text /\ rest # <<>> /\ Cur(rest) \notin RefChar /\ Cur(SkipSpace(rest)) # "\""
  BY EndsFacts DEF Ends
<1>2. s \in Text /\ \A i \in 1..Len(s) : s[i] \in RefChar
  BY TextTypes
<1>3. "@" \in Symbol /\ " " \in Symbol
  BY SymbolsAre DEF Signs
<1>4. PICK a \in Text : a = <<"@">>
  <2>1. <<"@">> \in Text
    BY <1>2, <1>3, JoinPre
  <2>. QED
    BY <2>1
<1>5. PICK d \in Text : d = IF m = <<>> THEN <<>> ELSE <<" ">> \o Quoted(m)
  <2>1. <<>> \in Text /\ <<" ">> \in Text
    BY <1>3, JoinPre
  <2>2. Quoted(m) \in Text
    BY <1>1, QuotedIs
  <2>3. <<" ">> \o Quoted(m) \in Text
    BY <2>1, <2>2, JoinText
  <2>. QED
    BY <2>1, <2>3
<1>6. ToZinc(Ref(s, m)) = (a \o s) \o d
  BY <1>4, <1>5 DEF ToZinc, RefText, Ref, Value
<1>7. PICK u \in Text : u = d \o rest
  BY <1>1, JoinText
<1>8. PICK w \in Text : w = s \o u
  BY <1>2, JoinText
<1>9. ((a \o s) \o d) \o rest = Pre("@", w)
  <2>1. PICK b \in Text : b = a \o s
    BY <1>2, JoinText
  <2>2. (b \o d) \o rest = b \o u
    BY <1>1, <1>7, JoinJoin
  <2>3. (a \o s) \o u = a \o w
    BY <1>2, <1>8, JoinJoin
  <2>4. a \o w = Pre("@", w)
    BY <1>4 DEF Pre
  <2>. QED
    BY <2>1, <2>2, <2>3, <2>4
<1>10. PICK e \in Text : /\ SkipSpace(e) = SkipSpace(rest) /\ Cur(u) \notin RefChar /\ u # <<>>
                         /\ RefWithDis(s, SkipSpace(u)) = Got(Ref(s, m), e)
  <2>1. CASE m = <<>>
    <3>1. u = rest
      BY <1>1, <1>5, <1>7, <2>1, JoinText
    <3>2. PICK e \in Text : e = SkipSpace(rest)
      BY <1>1, SkipFacts
    <3>3. SkipSpace(e) = SkipSpace(rest)
      BY <1>1, <3>2, SkipTwice
    <3>4. RefWithDis(s, e) = Got(Ref(s, m), e)
      BY <1>1, <2>1, <3>2 DEF RefWithDis
    <3>. QED
      BY <1>1, <3>1, <3>2, <3>3, <3>4
  <2>2. CASE m # <<>>
    <3>1. PICK q \in Text : q = Quoted(m)
      BY <1>1, QuotedIs
    <3>2. PICK r \in Text : r = q \o rest
      BY <1>1, JoinText
    <3>3. u = Pre(" ", r)
      <4>1. PICK b \in Text : b = <<" ">>
        BY <1>3, JoinPre
      <4>2. (b \o q) \o rest = b \o (q \o rest)
        BY <1>1, JoinJoin
      <4>. QED
        BY <1>5, <1>7, <2>2, <3>1, <3>2, <4>1, <4>2 DEF Pre
    <3>4. Cur(r) = "\"" /\ Unquoted(Drop(r, 1), "\"") = Got(m, rest)
      BY <1>1, <3>1, <3>2, QuotedIs
    <3>5. SkipSpace(u) = r
      <4>1. SkipSpace(Pre(" ", r)) = SkipSpace(r)
        BY SkipFacts
      <4>2. SkipSpace(r) = r
        BY <3>4, SkipFacts
      <4>. QED
        BY <3>3, <4>1, <4>2
    <3>6. Cur(Pre(" ", r)) = " " /\ Pre(" ", r) # <<>>
      BY <1>3, PreText
    <3>7. Cur(u) \notin RefChar /\ u # <<>>
      BY <3>3, <3>6, NoClass
    <3>8. RefWithDis(s, r) = Got(Ref(s, m), rest)
      <4>1. PICK g : g = Unquoted(Drop(r, 1), "\"")
        OBVIOUS
      <4>2. RefWithDis(s, r) = IF g.out = "ok" THEN Got(Ref(s, g.val), g.rest) ELSE g
        BY <3>4, <4>1, Zenon DEF RefWithDis
      <4>3. g = Got(m, rest)
        BY <3>4, <4>1
      <4>. QED
        BY <4>2, <4>3 DEF Got
    <3>. QED
      BY <1>1, <3>5, <3>7, <3>8
  <2>. QED
    BY <2>1, <2>2
<1>11. PICK p \in Text : p = Pre("@", w)
  BY <1>3, PreText
<1>12. Cur(p) = "@" /\ Drop(p, 1) = w
  BY <1>3, <1>11, PreText
<1>13. Cur(p) \notin Digits /\ Cur(p) \notin Alpha
  BY <1>12, NoClass
<1>14. ReadVal(p, FALSE) = RefVal(w)
  BY <1>12, <1>13 DEF ReadVal
<1>15. Run(w, RefChar) = Len(s) /\ SubSeq(w, 1, Len(s)) = s /\ Drop(w, Len(s)) = u
  <2>1. PICK C : C = RefChar
    OBVIOUS
  <2>2. (\A i \in 1..Len(s) : s[i] \in C) /\ Cur(u) \notin C
    BY <1>2, <1>10, <2>1
  <2>3. Run(s \o u, C) = Len(s) /\ SubSeq(s \o u, 1, Len(s)) = s /\ Drop(s \o u, Len(s)) = u
    BY <1>2, <2>2, RunOfClass
  <2>. QED
    BY <1>8, <2>1, <2>3
<1>16. w # <<>>
  <2>1. PICK i \in Nat : i = Len(u) /\ i # 0
    BY <1>10, TextTypes
  <2>2. PICK j \in Nat : j = Len(s)
    BY <1>2, TextTypes
  <2>3. Len(w) = Len(s) + Len(u)
    BY <1>2, <1>8, JoinText
  <2>4. Len(w) # 0
    BY <2>1, <2>2, <2>3
  <2>. QED
    BY <2>4, TextTypes
<1>17. RefVal(w) = RefWithDis(s, SkipSpace(u))
  BY <1>15, <1>16 DEF RefVal
<1>. QED
  BY <1>6, <1>9, <1>10, <1>11, <1>14, <1>17 DEF ReadBack

(* What stands between parentheses. *)
LEMMA ContentIs ==
  ASSUME NEW s \in Text, NEW u \in Text,
         \A i \in 1..Len(s) : s[i] \notin {")", "\n", "\r"}
  PROVE  Content(Pre("(", s \o Pre(")", u))) = Got(s, u)
<1>1. "(" \in Symbol /\ ")" \in Symbol
  BY SymbolsAre DEF Signs
<1>2. PICK e \in Text : e = Pre(")", u)
  BY <1>1, PreText
<1>3. Cur(e) = ")" /\ e # <<>> /\ Drop(e, 1) = u
  BY <1>1, <1>2, PreText
<1>4. PICK w \in Text : w = s \o e
  BY JoinText
<1>5. PICK t \in Text : t = Pre("(", w)
  BY <1>1, PreText
<1>6. t # <<>> /\ Drop(t, 1) = w
  BY <1>1, <1>5, PreText
<1>7. PICK C : C = Range(w) \ {")", "\n", "\r"}
  OBVIOUS
<1>8. \A i \in 1..Len(s) : s[i] \in C
  <2> TAKE i \in 1..Len(s)
  <2>1. Len(w) = Len(s) + Len(e) /\ \A j \in 1..Len(s) + Len(e) : w[j] = IF j <= Len(s) THEN s[j] ELSE e[j - Len(s)]
    BY <1>4, ConcatProperties DEF Text
  <2>2. PICK m \in Nat : m = Len(s)
    BY TextTypes
  <2>3. PICK n \in Nat : n = Len(e)
    BY TextTypes
  <2>4. i \in 1..m + n /\ i <= m
    BY <2>2
  <2>5. w[i] = s[i] /\ i \in DOMAIN w
    <3>1. DOMAIN w = 1..Len(w)
      BY TextTypes
    <3>. QED
      BY <2>1, <2>2, <2>3, <2>4, <3>1
  <2>. QED
    BY <1>7, <2>5 DEF Range
<1>9. Cur(e) \notin C
  BY <1>3, <1>7
<1>10. Run(s \o e, C) = Len(s) /\ SubSeq(s \o e, 1, Len(s)) = s /\ Drop(s \o e, Len(s)) = e
  BY <1>8, <1>9, RunOfClass
<1>11. Drop(w, Len(s) + 1) = u
  <2>1. Len(s) \in Nat /\ 1 \in Nat
    BY TextTypes
  <2>2. Drop(Drop(w, Len(s)), 1) = Drop(w, Len(s) + 1)
    BY <2>1, DropTwice DEF Text
  <2>. QED
    BY <1>3, <1>4, <1>10, <2>2
<1>12. Content(t) = Got(s, u)
  BY <1>3, <1>4, <1>6, <1>7, <1>10, <1>11 DEF Content
<1>. QED
  BY <1>2, <1>4, <1>5, <1>12

(* A word and a text in parentheses behind it. *)
LEMMA InParentheses ==
  ASSUME NEW c \in {"Bin", "C"}, NEW s \in Text, NEW u \in Text,
         \A i \in 1..Len(s) : s[i] \notin {")", "\n", "\r"}
  PROVE  /\ ((<<c, "(">> \o s) \o <<")">>) \o u = Pre(c, Pre("(", s \o Pre(")", u)))
         /\ ReadVal(((<<c, "(">> \o s) \o <<")">>) \o u, FALSE) = Word(<<c>>, Pre("(", s \o Pre(")", u)))
<1>1. "(" \in Symbol /\ ")" \in Symbol /\ c \in Symbol /\ c \in Alpha
  BY SymbolsAre DEF Signs, Alpha, Upper
<1>2. PICK e \in Text : e = Pre(")", u)
  BY <1>1, PreText
<1>3. PICK w \in Text : w = s \o e
  BY JoinText
<1>4. PICK t \in Text : t = Pre("(", w)
  BY <1>1, PreText
<1>5. Cur(t) \notin Alpha
  <2>1. Cur(t) = "("
    BY <1>1, <1>4, PreText
  <2>. QED
    BY <2>1, NoClass
<1>6. ReadVal(Pre(c, t), FALSE) = Word(<<c>>, t)
  BY <1>1, <1>5, OneWord
<1>7. ((<<c, "(">> \o s) \o <<")">>) \o u = Pre(c, t)
  <2>1. PICK a \in Text : a = <<c, "(">>
    BY <1>1, PairText
  <2>2. <<")">> \in Text /\ <<")">> \o u = e
    BY <1>1, <1>2, JoinPre
  <2>3. PICK b \in Text : b = <<")">>
    BY <2>2
  <2>4. PICK f \in Text : f = a \o s
    BY JoinText
  <2>5. (f \o b) \o u = f \o (b \o u)
    BY JoinJoin
  <2>6. (a \o s) \o e = a \o (s \o e)
    BY JoinJoin
  <2>7. <<c, "(">> \o w = Pre(c, Pre("(", w))
    BY <1>1, PairText
  <2>. QED
    BY <1>3, <1>4, <2>1, <2>2, <2>3, <2>4, <2>5, <2>6, <2>7
<1>. QED
  BY <1>2, <1>3, <1>4, <1>6, <1>7

(* Bins. *)
LEMMA BinReadsBack ==
  ASSUME NEW s \in Text, "/" \in Range(s), Range(s) \intersect {")", "\n", "\r"} = {},
         NEW rest, Ends(rest)
  PROVE  ReadBack(Bin(s), rest)
<1>1. rest \in Text
  BY EndsFacts
<1>2. \A i \in 1..Len(s) : s[i] \notin {")", "\n", "\r"}
  <2>1. DOMAIN s = 1..Len(s)
    BY TextTypes
  <2>. QED
    BY <2>1 DEF Range
<1>3. ToZinc(Bin(s)) = (<<"Bin", "(">> \o s) \o <<")">>
  BY DEF ToZinc, BinText, Bin, Value
<1>4. PICK b : b = "Bin" /\ b \in {"Bin", "C"}
  OBVIOUS
<1>5. ReadVal(((<<b, "(">> \o s) \o <<")">>) \o rest, FALSE) = Word(<<b>>, Pre("(", s \o Pre(")", rest)))
  BY <1>1, <1>2, <1>4, InParentheses
<1>6. Content(Pre("(", s \o Pre(")", rest))) = Got(s, rest)
  BY <1>1, <1>2, ContentIs
<1>7. PICK t : t = Pre("(", s \o Pre(")", rest))
  OBVIOUS
<1>8. Word(<<"Bin">>, t) = BinVal(t)
  <2>1. \A d \in {"N", "M", "R", "T", "F"} : <<"Bin">> # <<d>>
    OBVIOUS
  <2>. QED
    BY <2>1 DEF Word
<1>9. BinVal(t) = Got(Bin(s), rest)
  BY <1>6, <1>7 DEF BinVal, Got
<1>. QED
  BY <1>1, <1>3, <1>4, <1>5, <1>7, <1>8, <1>9 DEF ReadBack

(* Coordinates, but for the degree that the writer rounds. *)
LEMMA CoordReadsBack ==
  ASSUME NEW lat \in Degrees \ {"1.001"}, NEW lng \in Degrees \ {"1.001"}, NEW rest, Ends(rest)
  PROVE  ReadBack(Coord(lat, lng), rest)
<1>1. rest \in Text
  BY EndsFacts
<1>2. lat \in Symbol /\ lng \in Symbol /\ "," \in Symbol /\ "C" \in Symbol /\ "(" \in Symbol /\ ")" \in Symbol
  BY SymbolsAre DEF Symbol, Signs, Upper
<1>3. PICK s \in Text : s = <<lat, ",", lng>>
  <2>1. <<lat, ",", lng>> \in Text
    BY <1>1, <1>2, TripleText
  <2>. QED
    BY <2>1
<1>4. Len(s) = 3 /\ s[1] = lat /\ s[2] = "," /\ s[3] = lng
  BY <1>3
<1>5. lat \notin {")", "\n", "\r"} /\ lng \notin {")", "\n", "\r"}
  BY DEF Degrees
<1>6. \A i \in 1..Len(s) : s[i] \notin {")", "\n", "\r"}
  <2> TAKE i \in 1..Len(s)
  <2>0. PICK n \in Nat : n = Len(s) /\ n = 3
    BY <1>4
  <2>1. i = 1 \/ i = 2 \/ i = 3
    BY <2>0
  <2>. QED
    BY <1>4, <1>5, <2>1
<1>7. ToZinc(Coord(lat, lng)) = (<<"C", "(">> \o s) \o <<")">>
  <2>1. ToZinc(Coord(lat, lng)) = (((<<"C", "(">> \o <<lat>>) \o <<",">>) \o <<lng>>) \o <<")">>
    BY DEF ToZinc, CoordText, Coord, Value
  <2>2. PICK a \in Text : a = <<"C", "(">>
    BY <1>1, <1>2, PairText
  <2>3. <<lat>> \in Text /\ <<",">> \in Text /\ <<lng>> \in Text
    BY <1>1, <1>2, JoinPre
  <2>4. PICK x \in Text : x = <<lat>>
    BY <2>3
  <2>5. PICK y \in Text : y = <<",">>
    BY <2>3
  <2>6. PICK z \in Text : z = <<lng>>
    BY <2>3
  <2>9. \A e \in Text : (a \o x) \o e = a \o (x \o e)
    BY JoinJoin
  <2>7. PICK b \in Text : b = y \o z
    BY JoinText
  <2>8. PICK d \in Text : d = a \o x
    BY JoinText
  <2>10. (a \o x) \o b = a \o (x \o b)
    BY <2>9
  <2>12. (d \o y) \o z = d \o (y \o z)
    BY JoinJoin
  <2>11. x \o b = s
    <3>1. <<",", lng>> = Pre(",", <<lng>>)
      BY <1>1, <1>2, PairText
    <3>2. <<lat, ",", lng>> = Pre(lat, <<",", lng>>)
      <4>1. PICK c \in Symbol : c = ","
        BY <1>2
      <4>2. lat \in Symbol /\ lng \in Symbol
        BY <1>2
      <4>3. <<lat, c, lng>> = Pre(lat, <<c, lng>>)
        BY <4>2, TripleIs
      <4>. QED
        BY <4>1, <4>3
    <3>. QED
      BY <1>3, <2>4, <2>5, <2>6, <2>7, <3>1, <3>2 DEF Pre
  <2>. QED
    BY <2>1, <2>2, <2>4, <2>5, <2>6, <2>7, <2>8, <2>10, <2>11, <2>12
<1>8. PICK c : c = "C" /\ c \in {"Bin", "C"}
  OBVIOUS
<1>9. ReadVal(((<<c, "(">> \o s) \o <<")">>) \o rest, FALSE) = Word(<<c>>, Pre("(", s \o Pre(")", rest)))
  BY <1>1, <1>6, <1>8, InParentheses
<1>10. Content(Pre("(", s \o Pre(")", rest))) = Got(s, rest)
  BY <1>1, <1>6, ContentIs
<1>11. PICK t : t = Pre("(", s \o Pre(")", rest))
  OBVIOUS
<1>12. Word(<<"C">>, t) = CoordVal(t)
  <2>1. \A d \in {"N", "M", "R", "T", "F", "Bin"} : <<"C">> # <<d>>
    OBVIOUS
  <2>. QED
    BY <2>1 DEF Word
<1>13. CoordVal(t) = Got(Coord(lat, lng), rest)
  <2>1. {s[1], s[3]} \subseteq Degrees /\ Millionths(lat) = lat /\ Millionths(lng) = lng
    BY <1>4 DEF Millionths
  <2>2. Content(t) = Got(s, rest)
    BY <1>10, <1>11
  <2>3. PICK g : g = Content(t) /\ g.out = "ok" /\ g.val = s /\ g.rest = rest
    BY <2>2 DEF Got
  <2>4. CoordVal(t) = Got(Coord(Millionths(s[1]), Millionths(s[3])), rest)
    BY <1>4, <2>1, <2>3 DEF CoordVal
  <2>. QED
    BY <1>4, <2>1, <2>4
<1>. QED
  BY <1>1, <1>7, <1>8, <1>9, <1>11, <1>12, <1>13 DEF ReadBack

-----------------------------------------------------------------------------
(* The places at the head of a sequence select its head. *)
LEMMA SelectedHead ==
  ASSUME NEW S, NEW s \in Seq(S), NEW n \in 0..Len(s), NEW P,
         \A i \in 1..Len(s) : i \in P <=> i <= n
  PROVE  Selected(s, P) = SubSeq(s, 1, n)
<1> DEFINE Upto(m) == IF m <= n THEN m ELSE n
           T == {m \in Nat : m <= Len(s) => Collected(s, P, m) = SubSeq(s, 1, Upto(m))}
<1>1. 0 \in T
  <2>1. SubSeq(s, 1, 0) = <<>>
    OBVIOUS
  <2>3. Upto(0) = 0
    OBVIOUS
  <2>2. Collected(s, P, 0) = <<>>
    BY CollectedOneMore
  <2>. QED
    BY <2>1, <2>2, <2>3
<1>2. ASSUME NEW m \in Nat, m \in T PROVE m + 1 \in T
  <2>0. m + 1 \in Nat
    OBVIOUS
  <2> SUFFICES ASSUME m + 1 <= Len(s)
               PROVE  Collected(s, P, m + 1) = SubSeq(s, 1, Upto(m + 1))
    BY <2>0
  <2>1. Collected(s, P, m) = SubSeq(s, 1, Upto(m))
    BY <1>2
  <2>2. Collected(s, P, m + 1) = IF m + 1 \in P THEN Append(Collected(s, P, m), s[m + 1])
                                 ELSE Collected(s, P, m)
    BY CollectedOneMore
  <2>3. SubSeq(s, 1, m + 1) = Append(SubSeq(s, 1, m), s[m + 1])
    BY PrefixOneMore
  <2>4. CASE m + 1 <= n
    <3>1. m + 1 \in P /\ Upto(m) = m /\ Upto(m + 1) = m + 1
      BY <2>4
    <3>. QED
      BY <2>1, <2>2, <2>3, <3>1
  <2>5. CASE ~(m + 1 <= n)
    <3>1. m + 1 \notin P /\ Upto(m) = n /\ Upto(m + 1) = n
      BY <2>5
    <3>. QED
      BY <2>1, <2>2, <3>1
  <2>. QED
    BY <2>4, <2>5
<1>3. Len(s) \in T
  <2>1. Len(s) \in Nat
    OBVIOUS
  <2> HIDE DEF T
  <2>. QED
    BY <1>1, <1>2, <2>1, Induction
<1>4. Upto(Len(s)) = n /\ Len(s) <= Len(s)
  OBVIOUS
<1> HIDE DEF Upto
<1>. QED
  BY <1>3, <1>4 DEF Selected

(* The symbols of a text put in front of another. *)
LEMMA JoinPlaces ==
  ASSUME NEW s \in Text, NEW t \in Text, NEW n \in Nat, n = Len(s)
  PROVE  /\ \A i \in 1..n : (s \o t)[i] = s[i]
         /\ t # <<>> => (s \o t)[n + 1] = Cur(t)
<1>1. PICK w \in Text : w = s \o t
  BY JoinText
<1>2. Len(w) = Len(s) + Len(t) /\ \A j \in 1..Len(s) + Len(t) : w[j] = IF j <= Len(s) THEN s[j] ELSE t[j - Len(s)]
  BY <1>1, ConcatProperties DEF Text
<1>4. PICK m \in Nat : m = Len(t) /\ (t = <<>> <=> m = 0) /\ (t # <<>> => Cur(t) = t[1])
  BY TextTypes
<1>5. \A j \in 1..n + m : w[j] = IF j <= n THEN s[j] ELSE t[j - n]
  BY <1>2, <1>4
<1>6. ASSUME t # <<>> PROVE w[n + 1] = Cur(t)
  <2>1. n + 1 \in 1..n + m /\ ~(n + 1 <= n) /\ (n + 1) - n = 1
    BY <1>4, <1>6
  <2>. QED
    BY <1>4, <1>5, <1>6, <2>1
<1>7. \A i \in 1..n : i \in 1..n + m /\ i <= n
  OBVIOUS
<1>. QED
  BY <1>1, <1>5, <1>6, <1>7

(* The text of a number: how far it goes. *)
Separator == "_"

(* Why the loop over the symbols of a number goes on at the i-th. *)
GoesOn(s, n, i) ==
  \/ s[i] \in Digits \union {"."}
  \/ s[i] = "e" /\ InLoop(s, i - 1) /\ i < n /\ s[i + 1] \in Digits \union {"+", "-"}
  \/ s[i] \in {"+", "-"} /\ i > 2 /\ s[i - 1] = "e"

(* The loop takes the whole of s. *)
IsNumber(s, n) ==
  /\ s \in Text /\ n \in Nat /\ n # 0 /\ n = Len(s) /\ s[n] \in Digits
  /\ \A i \in 1..n : s[i] # Separator
  /\ \A i \in 2..n : GoesOn(s, n, i)

(* The loop does not go on into u. *)
Stops(u) ==
  /\ Cur(u) \notin Digits \union {".", Separator, "+"} /\ u \in Text
  /\ Cur(u) = "e" => Peek(u) \notin Digits \union {"+", "-"}

(* So what the loop takes is s, and what is left is u. *)
LEMMA NumeralIs ==
  ASSUME NEW s, NEW n, IsNumber(s, n), NEW u, Stops(u)
  PROVE  Numeral(s \o u) = [val |-> s, rest |-> u]
<1>0. u \in Text /\ s \in Text
  BY DEF Stops, IsNumber
<1>1. n \in Nat /\ n # 0 /\ n = Len(s) /\ s[n] \in Digits
  BY DEF IsNumber
<1>2. PICK m \in Nat : m = Len(u) /\ (u = <<>> <=> m = 0)
  BY <1>0, TextTypes
<1>3. PICK t \in Text : t = s \o u
  BY <1>0, JoinText
<1>4. PICK k \in Nat : k = Len(t) /\ k = n + m
  <2>1. Len(s \o u) = Len(s) + Len(u)
    BY <1>0, JoinText
  <2>. QED
    BY <1>1, <1>2, <1>3, <2>1
<1>5. /\ \A i \in 1..n : t[i] = s[i]
      /\ u # <<>> => t[n + 1] = Cur(u)
  BY <1>0, <1>1, <1>3, JoinPlaces
<1>6. ASSUME NEW i \in 2..n PROVE Goes(t, i)
  <2>0. GoesOn(s, n, i)
    BY DEF IsNumber
  <2>1. i \in 1..n /\ i - 1 \in 1..n
    BY <1>1
  <2>2. t[i] = s[i] /\ t[i - 1] = s[i - 1]
    BY <1>5, <2>1
  <2>3. CASE s[i] \in Digits \union {"."}
    BY <2>2, <2>3 DEF Goes
  <2>4. CASE s[i] \in {"+", "-"} /\ i > 2 /\ s[i - 1] = "e"
    BY <2>2, <2>4 DEF Goes
  <2>5. CASE s[i] = "e" /\ InLoop(s, i - 1) /\ i < n /\ s[i + 1] \in Digits \union {"+", "-"}
    <3>1. i + 1 \in 1..n /\ t[i + 1] = s[i + 1]
      <4>1. i + 1 \in 1..n
        BY <1>1, <2>5
      <4>. QED
        BY <1>5, <4>1
    <3>2. InLoop(t, i - 1)
      <4>1. i - 1 > 1 => (i - 1) - 1 \in 1..n
        BY <1>1
      <4>2. i - 1 > 1 => t[(i - 1) - 1] = s[(i - 1) - 1]
        BY <1>5, <4>1
      <4>. QED
        BY <2>2, <2>5, <4>2 DEF InLoop
    <3>3. Peek(Drop(t, i - 1)) = t[i + 1]
      <4>1. PICK j \in Nat : j = i - 1
        BY <1>1
      <4>2. PICK d \in Text : d = Drop(t, j)
        BY TextTypes
      <4>3. PICK l \in Nat : l + j = k /\ l >= 2
        <5>1. k - j \in Nat /\ (k - j) + j = k /\ k - j >= 2
          BY <1>1, <1>4, <2>5, <4>1
        <5>. QED
          BY <5>1
      <4>4. Len(d) = l /\ \A h \in 1..l : d[h] = t[h + j]
        <5>1. Len(t) = l + j
          BY <1>4, <4>3
        <5>. QED
          BY <4>2, <5>1, DropLen DEF Text
      <4>5. 2 \in 1..l /\ 2 + j = i + 1 /\ ~(l < 2)
        BY <4>1, <4>3
      <4>6. d[2] = t[i + 1]
        BY <4>4, <4>5
      <4>7. Peek(d) = d[2]
        BY <4>4, <4>5 DEF Peek
      <4>. QED
        BY <4>1, <4>2, <4>6, <4>7
    <3>. QED
      BY <2>2, <2>5, <3>1, <3>2, <3>3 DEF Goes
  <2>. QED
    BY <2>0, <2>3, <2>4, <2>5 DEF GoesOn
<1>7. n = k \/ ~Goes(t, n + 1)
  <2> SUFFICES ASSUME n # k PROVE ~Goes(t, n + 1)
    OBVIOUS
  <2>1. u # <<>> /\ t[n + 1] = Cur(u)
    <3>1. m # 0
      BY <1>1, <1>4
    <3>. QED
      BY <1>2, <1>5, <3>1
  <2>2. t[n + 1] \notin Digits \union {".", Separator, "+"}
    BY <2>1 DEF Stops
  <2>3. (n + 1) - 1 = n /\ n \in 1..n
    BY <1>1
  <2>4. t[n] \in Digits /\ t[n] # "e"
    <3>1. t[n] = s[n]
      BY <1>5, <2>3
    <3>. QED
      BY <1>1, <3>1, NoClass
  <2>5. Drop(t, n) = u
    BY <1>0, <1>1, <1>3, JoinText
  <2>6. t[n + 1] = "e" => Peek(Drop(t, n)) \notin Digits \union {"+", "-"}
    BY <2>1, <2>5 DEF Stops
  <2>. QED
    BY <2>2, <2>3, <2>4, <2>6 DEF Goes, Separator
<1> DEFINE P == {i \in 1..k : i = k \/ ~Goes(t, i + 1)}
<1>8. Min(P) = n
  <2>1. P \in SUBSET Nat
    OBVIOUS
  <2>2. n \in P
    <3>1. n \in 1..k
      BY <1>1, <1>4
    <3>. QED
      BY <1>7, <3>1
  <2>3. ASSUME NEW i \in P PROVE n <= i
    <3> SUFFICES ASSUME i < n PROVE FALSE
      BY <1>1
    <3>1. i + 1 \in 2..n /\ i # k
      BY <1>1, <1>4
    <3>2. Goes(t, i + 1)
      BY <1>6, <3>1
    <3>. QED
      BY <3>1, <3>2
  <2> HIDE DEF P
  <2>. QED
    BY <2>1, <2>2, <2>3, SmallestIs
<1>9. Selected(t, {i \in 1..n : t[i] # "_"}) = s
  <2>1. \A i \in 1..n : t[i] # "_"
    BY <1>5 DEF IsNumber, Separator
  <2>2. {i \in 1..n : t[i] # "_"} = 1..n
    BY <2>1
  <2>3. n \in 0..k
    BY <1>1, <1>4
  <2>4. Selected(t, 1..n) = SubSeq(t, 1, n)
    <3>1. PICK Q : Q = 1..n
      OBVIOUS
    <3>2. n \in 0..Len(t) /\ \A i \in 1..Len(t) : i \in Q <=> i <= n
      BY <1>4, <2>3, <3>1
    <3>3. Selected(t, Q) = SubSeq(t, 1, n)
      BY <3>2, SelectedHead DEF Text
    <3>. QED
      BY <3>1, <3>3
  <2>5. SubSeq(t, 1, n) = s
    BY <1>0, <1>1, <1>3, JoinText
  <2>. QED
    BY <2>2, <2>4, <2>5
<1>10. Drop(t, n) = u
  BY <1>0, <1>1, <1>3, JoinText
<1>11. Numeral(t) = [val |-> Selected(t, {i \in 1..Min(P) : t[i] # "_"}), rest |-> Drop(t, Min(P))]
  BY <1>4 DEF Numeral
<1> HIDE DEF P
<1>. QED
  BY <1>3, <1>8, <1>9, <1>10, <1>11

(* What stands before an exponent. *)
IsMantissa(m, k) ==
  /\ IsNumber(m, k)
  /\ m[1] \in Digits \/ (m[1] = "-" /\ k >= 2 /\ m[2] \in Digits)
  /\ k # 1 => m[k - 1] # "e"
  /\ \A i \in 2..k : m[i] \in Digits \union {"."}

(* Digits and points after a first digit, with a minus or without. *)
LEMMA MantissaOf ==
  ASSUME NEW m \in Text, NEW k \in Nat, k # 0, k = Len(m), m[k] \in Digits,
         m[1] \in Digits \/ (m[1] = "-" /\ k >= 2 /\ m[2] \in Digits),
         \A i \in 2..k : m[i] \in Digits \union {"."}
  PROVE  IsMantissa(m, k)
<1>1. \A c \in Digits \union {".", "-"} : c # Separator /\ c # "e"
  <2>1. \A c \in Digits : c # "e" /\ c \notin Signs
    BY NoClass
  <2>2. Separator \in Signs /\ "." # Separator /\ "-" # Separator
    BY DEF Signs, Separator
  <2>. QED
    BY <2>1, <2>2
<1>2. \A i \in 1..k : i = 1 \/ i \in 2..k
  OBVIOUS
<1>3. \A i \in 1..k : m[i] \in Digits \union {".", "-"}
  BY <1>2
<1>4. k # 1 => k - 1 \in 1..k
  OBVIOUS
<1>5. k # 1 => m[k - 1] # "e"
  BY <1>1, <1>3, <1>4
<1>6. \A i \in 1..k : m[i] # Separator
  BY <1>1, <1>3
<1>7. \A i \in 2..k : GoesOn(m, k, i)
  BY DEF GoesOn
<1>8. IsNumber(m, k)
  BY <1>6, <1>7 DEF IsNumber
<1>. QED
  BY <1>5, <1>8 DEF IsMantissa

(* The four forms that the writer prints. *)
LEMMA MantissaIs ==
  ASSUME NEW d \in Digits, NEW f \in Digits
  PROVE  /\ IsMantissa(<<d>>, 1) /\ IsMantissa(<<"-", d>>, 2) /\ IsMantissa(<<d, ".", f>>, 3)
         /\ IsMantissa(Pre("-", <<d, ".", f>>), 4)
<1>1. d \in Symbol /\ f \in Symbol /\ "-" \in Symbol /\ "." \in Symbol
  BY SymbolsAre DEF Signs
<1>2. d # Separator /\ f # Separator
  BY NoClass DEF Signs, Separator
<1>3. <<>> \in Text
  BY DEF Text
<1>4. IsMantissa(<<d>>, 1)
  <2>1. <<d>> \in Text
    BY <1>1, <1>3, JoinPre
  <2>2. PICK m \in Text : m = <<d>>
    BY <2>1
  <2>3. Len(m) = 1 /\ m[1] = d
    BY <2>2
  <2>4. IsMantissa(m, 1)
    <3>1. PICK k \in Nat : k = 1
      OBVIOUS
    <3>2. k # 0 /\ k = Len(m) /\ m[k] \in Digits /\ m[1] \in Digits
      BY <2>3, <3>1
    <3>3. \A i \in 2..k : m[i] \in Digits \union {"."}
      BY <3>1
    <3>4. IsMantissa(m, k)
      BY <3>2, <3>3, MantissaOf
    <3>. QED
      BY <3>1, <3>4
  <2>. QED
    BY <2>2, <2>4
<1>5. IsMantissa(<<"-", d>>, 2)
  <2>1. <<"-", d>> \in Text
    BY <1>1, <1>3, PairText
  <2>2. PICK m \in Text : m = <<"-", d>>
    BY <2>1
  <2>3. Len(m) = 2 /\ m[1] = "-" /\ m[2] = d
    BY <2>2
  <2>4. PICK k \in Nat : k = 2
    OBVIOUS
  <2>5. \A i \in 2..k : m[i] \in Digits \union {"."}
    BY <2>3, <2>4
  <2>7. k # 0 /\ k = Len(m) /\ m[k] \in Digits /\ m[1] = "-" /\ k >= 2 /\ m[2] \in Digits
    BY <2>3, <2>4
  <2>8. IsMantissa(m, k)
    BY <2>5, <2>7, MantissaOf
  <2>6. IsMantissa(m, 2)
    BY <2>4, <2>8
  <2>. QED
    BY <2>2, <2>6
<1>6. PICK y \in Text : y = <<d, ".", f>>
  <2>1. <<d, ".", f>> \in Text
    BY <1>1, <1>3, TripleText
  <2>. QED
    BY <2>1
<1>7. Len(y) = 3 /\ y[1] = d /\ y[2] = "." /\ y[3] = f
  BY <1>6
<1>8. IsMantissa(y, 3)
  <2>1. \A i \in 2..3 : i = 2 \/ i = 3
    OBVIOUS
  <2>2. \A i \in 2..3 : y[i] \in Digits \union {"."}
    BY <1>7, <2>1
  <2>3. PICK k \in Nat : k = 3
    OBVIOUS
  <2>4. k # 0 /\ k = Len(y) /\ y[k] \in Digits /\ y[1] \in Digits
    BY <1>7, <2>3
  <2>5. \A i \in 2..k : y[i] \in Digits \union {"."}
    BY <2>2, <2>3
  <2>6. IsMantissa(y, k)
    BY <2>4, <2>5, MantissaOf
  <2>. QED
    BY <2>3, <2>6
<1>9. PICK m \in Text : m = Pre("-", y)
  BY <1>1, PreText
<1>10. IsMantissa(m, 4)
  <2>1. Len(Pre("-", y)) = Len(y) + 1 /\ Pre("-", y)[1] = "-"
    BY <1>1, PrePlaces DEF Text
  <2>2. \A i \in 1..Len(y) : Pre("-", y)[i + 1] = y[i]
    BY <1>1, PrePlaces DEF Text
  <2>3. Len(m) = 4 /\ m[1] = "-" /\ m[2] = d /\ m[3] = "." /\ m[4] = f
    <3>1. m[1 + 1] = y[1] /\ m[2 + 1] = y[2] /\ m[3 + 1] = y[3] /\ Len(m) = 3 + 1 /\ m[1] = "-"
      BY <1>7, <1>9, <2>1, <2>2
    <3>. QED
      BY <1>7, <3>1
  <2>4. \A i \in 2..4 : i = 2 \/ i = 3 \/ i = 4
    OBVIOUS
  <2>5. \A i \in 2..4 : m[i] \in Digits \union {"."}
    BY <2>3, <2>4
  <2>6. PICK k \in Nat : k = 4
    OBVIOUS
  <2>7. k # 0 /\ k = Len(m) /\ m[k] \in Digits /\ m[1] = "-" /\ k >= 2 /\ m[2] \in Digits
    BY <2>3, <2>6
  <2>8. \A i \in 2..k : m[i] \in Digits \union {"."}
    BY <2>5, <2>6
  <2>9. IsMantissa(m, k)
    BY <2>7, <2>8, MantissaOf
  <2>. QED
    BY <2>6, <2>9
<1>. QED
  BY <1>4, <1>5, <1>6, <1>8, <1>9, <1>10

(* No exponent directly behind a single digit. *)
NoLoneDigit(s) == ~(Len(s) > 1 /\ s[1] \in OneDigit /\ s[2] = "e")
(* How a number begins. *)
Begins(s, n) == s[1] \in Digits \/ (s[1] = "-" /\ n >= 2 /\ s[2] \in Digits)

(* An exponent. *)
IsExponent(e) ==
  /\ e \in Text /\ Len(e) = 3
  /\ e[1] = "e" /\ e[2] \in {"+", "-"} /\ e[3] \in Digits

(* A mantissa with an exponent is taken whole. *)
LEMMA ExponentIs ==
  ASSUME NEW m, NEW k \in Nat, IsMantissa(m, k), NEW e, IsExponent(e), NoLoneDigit(m \o e)
  PROVE  IsNumber(m \o e, k + 3) /\ Begins(m \o e, k + 3)
<1>20. /\ m \in Text /\ k \in Nat /\ k # 0 /\ k = Len(m) /\ m[k] \in Digits
       /\ \A i \in 1..k : m[i] # Separator
  BY DEF IsMantissa, IsNumber
<1>21. /\ m[1] \in Digits \/ (m[1] = "-" /\ k >= 2 /\ m[2] \in Digits)
       /\ k # 1 => m[k - 1] # "e"
       /\ \A i \in 2..k : m[i] \in Digits \union {"."}
  BY DEF IsMantissa
<1>3. e \in Text
  BY DEF IsExponent
<1>22. PICK z, x : z = e[2] /\ x = e[3] /\ z \in {"+", "-"} /\ x \in Digits
  BY DEF IsExponent
<1>4. Len(e) = 3 /\ e[1] = "e" /\ e[2] = z /\ e[3] = x
  BY <1>22 DEF IsExponent
<1>1. x # Separator
  BY <1>22, NoClass DEF Signs, Separator
<1>23. m \in Text
  BY <1>20
<1>5. PICK w \in Text : w = m \o e
  BY <1>3, <1>23, JoinText
<1>6. NoLoneDigit(w)
  BY <1>3, <1>5
<1>7. Len(w) = Len(m) + Len(e) /\ \A j \in 1..Len(m) + Len(e) : w[j] = IF j <= Len(m) THEN m[j] ELSE e[j - Len(m)]
  BY <1>3, <1>5, <1>23, ConcatProperties DEF Text
<1>8. Len(w) = k + 3 /\ \A j \in 1..k + 3 : w[j] = IF j <= k THEN m[j] ELSE e[j - k]
  BY <1>20, <1>4, <1>7
<1>9. \A i \in 1..k : w[i] = m[i]
  BY <1>20, <1>8
<1>10. w[k + 1] = "e" /\ w[k + 2] = z /\ w[k + 3] = x
  <2>1. /\ k + 1 \in 1..k + 3 /\ ~(k + 1 <= k) /\ (k + 1) - k = 1
        /\ k + 2 \in 1..k + 3 /\ ~(k + 2 <= k) /\ (k + 2) - k = 2
        /\ k + 3 \in 1..k + 3 /\ ~(k + 3 <= k) /\ (k + 3) - k = 3
    BY <1>20
  <2>2. w[k + 1] = e[1] /\ w[k + 2] = e[2] /\ w[k + 3] = e[3]
    BY <1>8, <2>1
  <2>. QED
    BY <1>4, <2>2
<1>11. 1 \in 1..k /\ k \in 1..k /\ w[1] = m[1] /\ w[k] = m[k]
  BY <1>20, <1>9
<1>12. InLoop(w, k)
  <2>1. CASE k = 1
    <3>1. w[2] = "e" /\ Len(w) > 1
      BY <1>8, <1>10, <2>1
    <3>2. w[1] \notin OneDigit
      BY <1>3, <1>6, <3>1 DEF NoLoneDigit
    <3>. QED
      BY <1>20, <1>11, <2>1, <3>2 DEF InLoop
  <2>2. CASE k # 1
    <3>1. k > 1 /\ k - 1 \in 1..k
      BY <1>20, <2>2
    <3>2. w[k - 1] # "e"
      BY <1>21, <1>9, <2>2, <3>1
    <3>. QED
      BY <1>20, <1>11, <3>1, <3>2 DEF InLoop
  <2>. QED
    BY <2>1, <2>2
<1>13. ASSUME NEW i \in 1..k + 3 PROVE w[i] # Separator
  <2>1. i \in 1..k \/ i = k + 1 \/ i = k + 2 \/ i = k + 3
    BY <1>20
  <2>2. "e" # Separator /\ z # Separator
    BY <1>22 DEF Separator
  <2>3. i \in 1..k => w[i] = m[i] /\ m[i] # Separator
    BY <1>20, <1>9
  <2>. QED
    BY <1>1, <1>10, <2>1, <2>2, <2>3
<1>14. ASSUME NEW i \in 2..k + 3 PROVE GoesOn(w, k + 3, i)
  <2>1. CASE i \in 2..k
    <3>1. i \in 1..k /\ w[i] = m[i]
      BY <1>20, <1>9, <2>1
    <3>2. m[i] \in Digits \union {"."}
      BY <1>21, <2>1
    <3>. QED
      BY <3>1, <3>2 DEF GoesOn
  <2>2. CASE i = k + 1
    <3>1. i - 1 = k /\ i < k + 3 /\ i + 1 = k + 2
      BY <1>20, <2>2
    <3>2. w[i] = "e" /\ w[i + 1] \in Digits \union {"+", "-"}
      BY <1>10, <1>22, <2>2, <3>1
    <3>3. InLoop(w, i - 1)
      BY <1>12, <3>1
    <3>. QED
      BY <3>1, <3>2, <3>3 DEF GoesOn
  <2>3. CASE i = k + 2
    <3>1. i - 1 = k + 1 /\ i > 2
      BY <1>20, <2>3
    <3>2. w[i] \in {"+", "-"} /\ w[i - 1] = "e"
      BY <1>10, <1>22, <2>3, <3>1
    <3>. QED
      BY <3>1, <3>2 DEF GoesOn
  <2>4. CASE i = k + 3
    <3>1. w[i] \in Digits
      BY <1>10, <1>22, <2>4
    <3>. QED
      BY <3>1 DEF GoesOn
  <2>5. i \in 2..k \/ i = k + 1 \/ i = k + 2 \/ i = k + 3
    BY <1>20
  <2>. QED
    BY <2>1, <2>2, <2>3, <2>4, <2>5
<1>15. IsNumber(w, k + 3)
  <2>1. k + 3 \in Nat /\ k + 3 # 0
    BY <1>20
  <2>2. w[k + 3] \in Digits /\ k + 3 = Len(w)
    BY <1>8, <1>10, <1>22
  <2>3. PICK l : l = k + 3
    OBVIOUS
  <2>4. IsNumber(w, l)
    BY <1>13, <1>14, <2>1, <2>2, <2>3 DEF IsNumber
  <2>. QED
    BY <2>3, <2>4
<1>16. w[1] \in Digits \/ (w[1] = "-" /\ k + 3 >= 2 /\ w[2] \in Digits)
  <2>1. k >= 2 => 2 \in 1..k /\ w[2] = m[2] /\ k + 3 >= 2
    BY <1>20, <1>9
  <2>. QED
    BY <1>21, <1>11, <2>1
<1>. QED
  BY <1>3, <1>5, <1>15, <1>16 DEF Begins

(* What is taken whole is a numeral. *)
LEMMA NumeralText ==
  ASSUME NEW s, NEW n \in Nat, IsNumber(s, n), Begins(s, n)
  PROVE  IsNumeral(s)
<1>1. s \in Text /\ n \in Nat /\ n # 0 /\ n = Len(s) /\ s[n] \in Digits
  BY DEF IsNumber
<1>2. CASE s[1] \in Digits
  <2>2. "-" \in Signs
    BY DEF Signs
  <2>3. s[1] # "-"
    BY <1>2, <2>2, NoClass
  <2>4. s # <<>>
    BY <1>1, TextTypes
  <2>1. s[1] # "-" /\ s # <<>>
    BY <2>3, <2>4
  <2>. QED
    BY <1>1, <1>2, <2>1 DEF IsNumeral
<1>3. CASE s[1] = "-" /\ n >= 2 /\ s[2] \in Digits
  <2>1. PICK d0 \in Text : d0 = Drop(s, 1)
    BY <1>1, TextTypes
  <2>2. PICK l \in Nat : n = l + 1 /\ l # 0
    <3>1. n - 1 \in Nat /\ n = (n - 1) + 1 /\ n - 1 # 0
      BY <1>1, <1>3
    <3>. QED
      BY <3>1
  <2>3. Len(d0) = l /\ \A i \in 1..l : d0[i] = s[i + 1]
    <3>1. Len(s) = l + 1 /\ 1 \in Nat
      BY <1>1, <2>2
    <3>2. s \in Text
      BY <1>1
    <3>. QED
      BY <3>2, <2>1, <3>1, DropLen DEF Text
  <2>4. Tail(s) = d0
    <3>1. s # <<>>
      BY <1>1
    <3>2. Tail(s) = SubSeq(s, 2, Len(s))
      BY <1>1, <3>1, TailIsSubSeq DEF Text
    <3>. QED
      BY <2>1, <3>2 DEF Drop
  <2>5. d0[1] = s[2] /\ d0[l] = s[n] /\ d0 # <<>>
    <3>1. 1 \in 1..l /\ l \in 1..l /\ 1 + 1 = 2
      BY <2>2
    <3>2. d0[1] = s[1 + 1] /\ d0[l] = s[l + 1]
      BY <2>3, <3>1
    <3>3. d0 # <<>>
      BY <2>2, <2>3
    <3>. QED
      BY <2>2, <3>1, <3>2, <3>3
  <2>. QED
    BY <1>1, <1>3, <2>3, <2>4, <2>5 DEF IsNumeral
<1>. QED
  BY <1>2, <1>3 DEF Begins

(* What is printed of a number. *)
Printable == Numerals \union {Zero}
Fraction == {<<>>} \union {<<".", f>> : f \in Digits}
Exponent == {<<>>} \union {<<"e", z, x>> : z \in {"+", "-"}, x \in Digits}

LEMMA PrintableParts ==
  ASSUME NEW s \in Printable
  PROVE  \E sign \in Signed, d \in Digits, f \in Fraction, e \in Exponent : s = NumberText(sign, d, f, e)
<1>1. Leading \union {"10", "11", "23", "2010", "0"} \subseteq Digits
  BY DEF Leading, Digits, OneDigit, TwoDigits, Zeros
<1>2. Decimals \union {"005", Zeros} \subseteq Digits
  BY DEF Decimals, Digits, OneDigit, TwoDigits, Zeros
<1>3. {"00", "05", "10", "11", "23"} \subseteq Digits
  BY DEF Digits, TwoDigits
<1>4. Fractions \subseteq Fraction
  BY <1>2 DEF Fractions, Fraction
<1>5. \A f \in Digits : <<".", f>> \in Fraction
  BY DEF Fraction
<1>6. <<>> \in Exponent /\ <<>> \in Signed
  BY DEF Exponent, Signed
<1>7. \A z \in {"+", "-"}, x \in Digits : <<"e", z, x>> \in Exponent
  BY DEF Exponent
<1>8. CASE s \in Ordinary
  <2>1. PICK sign \in Signed, d \in Leading \union {"10", "11", "23", "2010"}, f \in Fractions :
          s = NumberText(sign, d, f, <<>>)
    BY <1>8 DEF Ordinary
  <2>2. d \in Digits /\ f \in Fraction
    BY <1>1, <1>4
  <2>. QED
    BY <1>6, <2>1, <2>2, Zenon
<1>9. CASE s \in Large
  <2>1. PICK sign \in Signed, d \in Leading, f \in Fractions, x \in {"10", "11", "23"} :
          s = NumberText(sign, d, f, <<"e", "+", x>>)
    BY <1>9 DEF Large
  <2>2. d \in Digits /\ f \in Fraction /\ <<"e", "+", x>> \in Exponent
    BY <1>1, <1>3, <1>4, <1>7
  <2>. QED
    BY <2>1, <2>2, Zenon
<1>10. CASE s \in BelowOne
  <2>1. PICK f \in Decimals \union {"005"} : s = NumberText(<<>>, "0", <<".", f>>, <<>>)
    BY <1>10 DEF BelowOne
  <2>2. "0" \in Digits /\ <<".", f>> \in Fraction
    BY <1>1, <1>2, <1>5
  <2>. QED
    BY <1>6, <2>1, <2>2, Zenon
<1>11. CASE s \in Small
  <2>1. PICK sign \in Signed, d \in Leading, x \in {"05", "10", "11", "23"} :
          s = NumberText(sign, d, <<".", Zeros>>, <<"e", "-", x>>)
    BY <1>11 DEF Small
  <2>2. d \in Digits /\ <<".", Zeros>> \in Fraction /\ <<"e", "-", x>> \in Exponent
    BY <1>1, <1>2, <1>3, <1>5, <1>7
  <2>. QED
    BY <2>1, <2>2, Zenon
<1>12. CASE s = Zero
  <2>1. "0" \in Digits /\ <<".", Zeros>> \in Fraction /\ <<"e", "+", "00">> \in Exponent
    BY <1>1, <1>2, <1>3, <1>5, <1>7
  <2>. QED
    BY <1>6, <1>12, <2>1, Zenon DEF Zero
<1>13. s \in Ordinary \/ s \in Large \/ s \in BelowOne \/ s \in Small \/ s = Zero
  BY DEF Printable, Numerals
<1>. QED
  BY <1>8, <1>9, <1>10, <1>11, <1>12, <1>13, Zenon

(* A text whose last symbol is a group of digits. *)
EndsInDigit(s) == s \in Text /\ Len(s) # 0 /\ s[Len(s)] \in Digits

LEMMA EndsJoin ==
  ASSUME NEW s \in Text, NEW t, EndsInDigit(t)
  PROVE  EndsInDigit(s \o t)
<1>1. PICK w \in Text : w = s \o t
  BY JoinText DEF EndsInDigit
<1>2. Len(w) = Len(s) + Len(t) /\ \A j \in 1..Len(s) + Len(t) : w[j] = IF j <= Len(s) THEN s[j] ELSE t[j - Len(s)]
  BY <1>1, ConcatProperties DEF Text, EndsInDigit
<1>3. Len(s) \in Nat /\ Len(t) \in Nat /\ Len(t) # 0
  BY DEF Text, EndsInDigit
<1>4. Len(w) \in 1..Len(s) + Len(t) /\ ~(Len(w) <= Len(s)) /\ Len(w) - Len(s) = Len(t)
  BY <1>2, <1>3
<1>5. w[Len(w)] = t[Len(t)]
  BY <1>2, <1>4
<1>. QED
  BY <1>1, <1>2, <1>3, <1>5 DEF EndsInDigit

LEMMA PrintableEnds ==
  ASSUME NEW s \in Printable
  PROVE  EndsInDigit(s)
<1>1. PICK sign \in Signed, d \in Digits, f \in Fraction, e \in Exponent : s = NumberText(sign, d, f, e)
  BY PrintableParts
<1>2. /\ \A c \in Digits : c \in Symbol
      /\ "-" \in Symbol /\ "." \in Symbol /\ "e" \in Symbol /\ "+" \in Symbol
  BY SymbolsAre DEF Signs, Lower, Keyword
<1>3. sign \in Text
  <2>1. <<>> \in Text
    BY DEF Text
  <2>2. <<"-">> \in Text
    BY <1>2, <2>1, JoinPre
  <2>. QED
    BY <2>1, <2>2 DEF Signed
<1>4. EndsInDigit(<<d>>)
  BY <1>2 DEF EndsInDigit, Text
<1>5. f = <<>> \/ EndsInDigit(f)
  <2>1. ASSUME NEW x \in Digits PROVE EndsInDigit(<<".", x>>)
    <3>1. x \in Symbol /\ "." \in Symbol
      BY <1>2
    <3>2. <<".", x>> \in Text
      BY <3>1 DEF Text
    <3>. QED
      BY <3>2 DEF EndsInDigit
  <2>. QED
    BY <2>1 DEF Fraction
<1>6. e = <<>> \/ EndsInDigit(e)
  <2>1. ASSUME NEW z \in {"+", "-"}, NEW x \in Digits PROVE EndsInDigit(<<"e", z, x>>)
    <3>1. z \in Symbol /\ x \in Symbol /\ "e" \in Symbol
      BY <1>2
    <3>2. <<"e", z, x>> \in Text
      BY <3>1 DEF Text
    <3>. QED
      BY <3>2 DEF EndsInDigit
  <2>. QED
    BY <2>1 DEF Exponent
<1>7. PICK a : a = sign \o <<d>> /\ EndsInDigit(a)
  BY <1>3, <1>4, EndsJoin
<1>8. PICK m : m = a \o f /\ EndsInDigit(m)
  <2>1. CASE f = <<>>
    BY <1>7, <2>1, JoinText DEF EndsInDigit
  <2>2. CASE EndsInDigit(f)
    BY <1>7, <2>2, EndsJoin DEF EndsInDigit
  <2>. QED
    BY <1>5, <2>1, <2>2
<1>9. PICK w : w = m \o e /\ EndsInDigit(w)
  <2>1. CASE e = <<>>
    BY <1>8, <2>1, JoinText DEF EndsInDigit
  <2>2. CASE EndsInDigit(e)
    BY <1>8, <2>2, EndsJoin DEF EndsInDigit
  <2>. QED
    BY <1>6, <2>1, <2>2
<1>. QED
  BY <1>1, <1>7, <1>8, <1>9 DEF NumberText

(* Every number is printed as one of these; one of these as it is. *)
LEMMA RoundedIs ==
  /\ \A s \in Printable : Rounded(s) = s
  /\ \A s \in NumTexts : Rounded(s) \in Printable
<1>1. Digits \intersect Beyond = {}
  BY DEF Beyond, Digits, OneDigit, TwoDigits, Zeros
<1>2. ASSUME NEW s \in Printable PROVE Rounded(s) = s
  BY <1>1, PrintableEnds DEF Rounded, EndsInDigit
<1>3. ASSUME NEW n \in Numerals, NEW b \in Beyond PROVE Rounded(Append(n, b)) = n
  <2>1. n \in Text /\ b \in Symbol
    <3>1. EndsInDigit(n)
      BY PrintableEnds DEF Printable
    <3>. QED
      BY <3>1 DEF EndsInDigit, Symbol
  <2>2. Append(n, b)[Len(n) + 1] = b /\ Len(Append(n, b)) = Len(n) + 1 /\ Len(n) \in Nat
    BY <2>1, AppendProperties DEF Text
  <2>3. Append(n, b) = n \o <<b>>
    BY <2>1, AppendIsConcat DEF Text
  <2>4. SubSeq(n \o <<b>>, 1, Len(n)) = n
    BY <2>1, JoinText, JoinPre
  <2>5. Len(Append(n, b)) - 1 = Len(n)
    BY <2>2
  <2>6. Front(Append(n, b)) = n
    BY <2>3, <2>4, <2>5 DEF Front
  <2>. QED
    BY <2>2, <2>6 DEF Rounded
<1>4. ASSUME NEW s \in NumTexts PROVE Rounded(s) \in Printable
  <2>1. s \in Printable \/ s \in {Append(n, b) : n \in Numerals, b \in Beyond}
    BY DEF NumTexts, Printable
  <2>2. CASE s \in Printable
    BY <1>2, <2>2
  <2>3. CASE s \in {Append(n, b) : n \in Numerals, b \in Beyond}
    <3>1. PICK n \in Numerals, b \in Beyond : s = Append(n, b)
      BY <2>3
    <3>. QED
      BY <1>3, <3>1 DEF Printable
  <2>. QED
    BY <2>1, <2>2, <2>3
<1>. QED
  BY <1>2, <1>4

(* The texts that the writer prints, part by part. *)
LEMMA NumTextForms ==
  ASSUME NEW s \in Printable
  PROVE  \E d, f \in Digits : \E m :
           /\ \/ m = (<<>> \o <<d>>) \o <<>> \/ m = (<<"-">> \o <<d>>) \o <<>>
              \/ m = (<<>> \o <<d>>) \o <<".", f>> \/ m = (<<"-">> \o <<d>>) \o <<".", f>>
           /\ s = m \o <<>> \/ \E z \in {"+", "-"} : \E x \in Digits : s = m \o <<"e", z, x>>
<1>1. PICK sign \in Signed, d \in Digits, fraction \in Fraction, exponent \in Exponent :
        s = NumberText(sign, d, fraction, exponent)
  BY PrintableParts
<1>2. sign = <<>> \/ sign = <<"-">>
  BY DEF Signed
<1>3. \E f \in Digits : fraction = <<>> \/ fraction = <<".", f>>
  BY <1>1 DEF Fraction
<1>4. exponent = <<>> \/ \E z \in {"+", "-"} : \E x \in Digits : exponent = <<"e", z, x>>
  BY DEF Exponent
<1>8. PICK f \in Digits : fraction = <<>> \/ fraction = <<".", f>>
  BY <1>3
<1>5. PICK m : m = (sign \o <<d>>) \o fraction
  BY Zenon
<1>6. \/ m = (<<>> \o <<d>>) \o <<>> \/ m = (<<"-">> \o <<d>>) \o <<>>
      \/ m = (<<>> \o <<d>>) \o <<".", f>> \/ m = (<<"-">> \o <<d>>) \o <<".", f>>
  BY <1>2, <1>8, <1>5, Zenon
<1>9. s = m \o exponent
  BY <1>1, <1>5, Zenon DEF NumberText
<1>7. s = m \o <<>> \/ \E z \in {"+", "-"} : \E x \in Digits : s = m \o <<"e", z, x>>
  BY <1>4, <1>9, Zenon
<1>10. d \in Digits /\ f \in Digits
  BY <1>1, <1>8
<1>. QED
  BY <1>6, <1>7, <1>10, Zenon

(* Each is taken whole. *)
LEMMA NumTextIs ==
  ASSUME NEW s \in Printable, NoLoneDigit(s)
  PROVE  \E n \in Nat : IsNumber(s, n) /\ Begins(s, n)
<1>1. PICK d \in Digits, f \in Digits : \E m :
           /\ \/ m = (<<>> \o <<d>>) \o <<>> \/ m = (<<"-">> \o <<d>>) \o <<>>
              \/ m = (<<>> \o <<d>>) \o <<".", f>> \/ m = (<<"-">> \o <<d>>) \o <<".", f>>
           /\ s = m \o <<>> \/ \E z \in {"+", "-"} : \E x \in Digits : s = m \o <<"e", z, x>>
  BY NumTextForms
<1>2. PICK m :
           /\ \/ m = (<<>> \o <<d>>) \o <<>> \/ m = (<<"-">> \o <<d>>) \o <<>>
              \/ m = (<<>> \o <<d>>) \o <<".", f>> \/ m = (<<"-">> \o <<d>>) \o <<".", f>>
           /\ s = m \o <<>> \/ \E z \in {"+", "-"} : \E x \in Digits : s = m \o <<"e", z, x>>
  BY <1>1
<1>3. d \in Symbol /\ f \in Symbol /\ "-" \in Symbol /\ "." \in Symbol /\ "e" \in Symbol
  BY SymbolsAre DEF Signs, Lower, Keyword
<1>0. <<>> \in Text
  BY DEF Text
<1>4. \E k \in Nat : IsMantissa(m, k)
  <2>1. <<d>> \in Text
    BY <1>0, <1>3, JoinPre
  <2>2. <<>> \o <<d>> = <<d>> /\ <<d>> \o <<>> = <<d>>
    <3>1. PICK t \in Text : t = <<d>>
      BY <2>1
    <3>2. <<>> \o t = t /\ t \o <<>> = t
      BY JoinText
    <3>. QED
      BY <3>1, <3>2
  <2>3. <<"-">> \o <<d>> = <<"-", d>>
    <3>1. <<"-", d>> = Pre("-", <<d>>)
      BY <1>0, <1>3, PairText
    <3>. QED
      BY <3>1 DEF Pre
  <2>4. <<"-", d>> \o <<>> = <<"-", d>>
    <3>1. <<"-", d>> \in Text
      BY <1>0, <1>3, PairText
    <3>2. PICK t \in Text : t = <<"-", d>>
      BY <3>1
    <3>3. t \o <<>> = t
      BY JoinText
    <3>. QED
      BY <3>2, <3>3
  <2>5. <<d>> \o <<".", f>> = <<d, ".", f>>
    <3>1. <<d, ".", f>> = Pre(d, <<".", f>>)
      BY <1>3, TripleIs
    <3>. QED
      BY <3>1 DEF Pre
  <2>6. <<"-", d>> \o <<".", f>> = Pre("-", <<d, ".", f>>)
    <3>1. <<".", f>> \in Text
      BY <1>0, <1>3, PairText
    <3>2. PICK t \in Text : t = <<".", f>>
      BY <3>1
    <3>3. <<"-", d>> \o t = Pre("-", Pre(d, t))
      BY <1>3, PairText
    <3>. QED
      BY <2>5, <3>2, <3>3 DEF Pre
  <2>7. IsMantissa(<<d>>, 1) /\ IsMantissa(<<"-", d>>, 2)
    BY MantissaIs
  <2>8. IsMantissa(<<d, ".", f>>, 3) /\ IsMantissa(Pre("-", <<d, ".", f>>), 4)
    BY MantissaIs
  <2>9. m = <<d>> \/ m = <<"-", d>> \/ m = <<d, ".", f>> \/ m = Pre("-", <<d, ".", f>>)
    BY <1>2, <2>2, <2>3, <2>4, <2>5, <2>6, Zenon
  <2>. QED
    BY <2>7, <2>8, <2>9
<1>5. PICK k \in Nat : IsMantissa(m, k)
  BY <1>4
<1>6. CASE s = m \o <<>>
  <2>1. m \in Text /\ IsNumber(m, k) /\ Begins(m, k)
    BY <1>5 DEF IsMantissa, IsNumber, Begins
  <2>2. m \o <<>> = m
    BY <2>1, JoinText
  <2>. QED
    BY <1>6, <2>1, <2>2
<1>7. ASSUME NEW z \in {"+", "-"}, NEW x \in Digits, s = m \o <<"e", z, x>>
      PROVE  \E n \in Nat : IsNumber(s, n) /\ Begins(s, n)
  <2>1. z \in Symbol /\ x \in Symbol
    BY SymbolsAre DEF Signs
  <2>2. <<"e", z, x>> \in Text
    BY <1>0, <1>3, <2>1, TripleText
  <2>3. PICK e \in Text : e = <<"e", z, x>>
    BY <2>2
  <2>4. IsExponent(e)
    BY <2>3 DEF IsExponent
  <2>5. s = m \o e
    BY <1>7, <2>3
  <2>6. IsNumber(m \o e, k + 3) /\ Begins(m \o e, k + 3)
    BY <1>5, <2>4, <2>5, ExponentIs
  <2>7. k + 3 \in Nat
    OBVIOUS
  <2>. QED
    BY <2>5, <2>6, <2>7
<1>. QED
  BY <1>2, <1>6, <1>7

(* A unit and what ends a value behind it: never what goes on with a number. *)
LEMMA UnitStops ==
  ASSUME NEW m \in Seq(UnitChar), NEW rest, Ends(rest)
  PROVE  /\ m \o rest \in Text /\ Cur(m \o rest) \notin Digits \union {".", "+", "-", ":"}
         /\ m = <<>> \/ m[1] # Separator => Cur(m \o rest) # Separator
<1>1. m \in Text /\ rest \in Text
  BY TextTypes, EndsFacts
<1>2. m \o rest \in Text
  BY <1>1, JoinText
<1>3. CASE m = <<>>
  <2>1. m \o rest = rest
    BY <1>1, <1>3, JoinText
  <2>2. Cur(rest) \notin Digits /\ Cur(rest) \notin {".", "+", "-", ":"}
    BY EndsFacts
  <2>3. Cur(rest) # Separator
    BY EndsFacts DEF Separator
  <2>. QED
    BY <1>2, <2>1, <2>2, <2>3
<1>4. CASE m # <<>>
  <2>1. Cur(m \o rest) = Cur(m)
    BY <1>1, <1>4, JoinText
  <2>2. Cur(m) = m[1]
    BY <1>1, <1>4, TextTypes
  <2>3. m[1] \in UnitChar
    BY <1>4
  <2>4. \A c \in UnitChar : c \notin Digits
    BY NoClass
  <2>5. \A c \in {"-", ":", "+", "."} : c \notin UnitChar
    BY NoClass
  <2>. QED
    BY <1>2, <1>4, <2>1, <2>2, <2>3, <2>4, <2>5
<1>. QED
  BY <1>3, <1>4

(* The unit is what follows, up to what ends the value. *)
LEMMA UnitIsRead ==
  ASSUME NEW m \in Seq(UnitChar), m = <<>> \/ m[1] # Separator, NEW rest, Ends(rest)
  PROVE  /\ Stops(m \o rest) /\ Cur(m \o rest) \notin {"-", ":"}
         /\ Run(m \o rest, UnitChar) = Len(m) /\ SubSeq(m \o rest, 1, Len(m)) = m
         /\ Drop(m \o rest, Len(m)) = rest
<1>1. m \in Text /\ rest \in Text
  BY TextTypes, EndsFacts
<1>2. m \o rest \in Text /\ Cur(m \o rest) \notin Digits \union {".", "+", "-", ":"}
  BY UnitStops
<1>3. Cur(m \o rest) # Separator
  BY UnitStops
<1>4. Cur(m \o rest) = "e" => Peek(m \o rest) \notin Digits \union {"+", "-"}
  <2> SUFFICES ASSUME Cur(m \o rest) = "e" PROVE Peek(m \o rest) \notin Digits \union {"+", "-"}
    OBVIOUS
  <2>1. m # <<>>
    <3>1. Cur(rest) # "e"
      BY EndsFacts
    <3>2. <<>> \o rest = rest
      BY <1>1, JoinText
    <3>. QED
      BY <3>1, <3>2
  <2>2. /\ m = Pre(Cur(m), Drop(m, 1)) /\ Cur(m) \in UnitChar /\ Drop(m, 1) \in Seq(UnitChar)
    BY <2>1, PreOf
  <2>3. PICK c \in Symbol : c = Cur(m)
    BY <2>2, SymbolsAre
  <2>4. PICK d \in Seq(UnitChar) : d = Drop(m, 1)
    BY <2>2
  <2>5. d \in Text
    BY TextTypes
  <2>6. m \o rest = Pre(c, d \o rest)
    <3>1. Pre(c, d) \o rest = Pre(c, d \o rest)
      BY <1>1, <2>5, JoinPre
    <3>. QED
      BY <2>2, <2>3, <2>4, <3>1
  <2>7. PICK e \in Text : e = d \o rest
    BY <1>1, <2>5, JoinText
  <2>8. Peek(Pre(c, e)) = Cur(e)
    BY PreText
  <2>9. Cur(d \o rest) \notin Digits \union {".", "+", "-", ":"}
    BY UnitStops
  <2>. QED
    BY <2>6, <2>7, <2>8, <2>9
<1>5. Stops(m \o rest)
  BY <1>2, <1>3, <1>4 DEF Stops
<1>6. PICK C : C = UnitChar
  OBVIOUS
<1>7. (\A i \in 1..Len(m) : m[i] \in C) /\ Cur(rest) \notin C
  <2>1. Cur(rest) \notin UnitChar
    BY EndsFacts
  <2>. QED
    BY <1>6, <2>1
<1>8. Run(m \o rest, C) = Len(m) /\ SubSeq(m \o rest, 1, Len(m)) = m /\ Drop(m \o rest, Len(m)) = rest
  BY <1>1, <1>7, RunOfClass
<1>. QED
  BY <1>2, <1>5, <1>6, <1>8

(* Where a number begins the reader takes what comes for a number. *)
LEMMA NumberBegins ==
  ASSUME NEW s, NEW n, IsNumber(s, n), Begins(s, n), NEW u, Stops(u)
  PROVE  ReadVal(s \o u, FALSE) = Numbered([val |-> s, rest |-> u])
<1>1. s \in Text /\ n \in Nat /\ n # 0 /\ n = Len(s) /\ u \in Text
  BY DEF IsNumber, Stops
<1>2. PICK t \in Text : t = s \o u
  BY <1>1, JoinText
<1>3. s # <<>>
  BY <1>1, TextTypes
<1>4. Cur(t) = s[1]
  <2>1. Cur(s \o u) = Cur(s)
    BY <1>1, <1>3, JoinText
  <2>2. Cur(s) = s[1]
    BY <1>1, <1>3, TextTypes
  <2>. QED
    BY <1>2, <2>1, <2>2
<1>5. NumVal(t) = Numbered([val |-> s, rest |-> u])
  BY <1>2, NumeralIs DEF NumVal
<1>6. CASE s[1] \in Digits
  BY <1>2, <1>4, <1>5, <1>6 DEF ReadVal
<1>7. CASE s[1] = "-" /\ n >= 2 /\ s[2] \in Digits
  <2>1. \A i \in 1..n : t[i] = s[i]
    BY <1>1, <1>2, JoinPlaces
  <2>2. 2 \in 1..n
    BY <1>1, <1>7
  <2>3. t[2] \in Digits
    BY <1>7, <2>1, <2>2
  <2>4. Len(t) >= 2
    <3>1. Len(t) = Len(s) + Len(u)
      BY <1>1, <1>2, JoinText
    <3>2. PICK k \in Nat : k = Len(u)
      BY <1>1, TextTypes
    <3>. QED
      BY <1>1, <1>7, <3>1, <3>2
  <2>5. Peek(t) = t[2]
    <3>1. ~(Len(t) < 2)
      BY <2>4, TextTypes
    <3>. QED
      BY <3>1 DEF Peek
  <2>6. Peek(t) # "INF"
    BY <2>3, <2>5, NoClass
  <2>7. Cur(t) = "-" /\ Cur(t) \notin Digits /\ Cur(t) \notin Alpha
    BY <1>4, <1>7, NoClass
  <2>. QED
    BY <1>2, <1>5, <2>6, <2>7 DEF ReadVal, Tick
<1>. QED
  BY <1>6, <1>7 DEF Begins

(* Numbers with and without a unit. *)
LEMMA NumReadsBack ==
  ASSUME NEW s \in Printable, NoLoneDigit(s), NEW m \in Seq(UnitChar), m = <<>> \/ m[1] # Separator,
         NEW rest, Ends(rest)
  PROVE  ReadBack(Num(s, m), rest)
<1>1. PICK n \in Nat : IsNumber(s, n) /\ Begins(s, n)
  BY NumTextIs
<1>2. s \in Text /\ n # 0 /\ n = Len(s) /\ s[n] \in Digits
  BY <1>1 DEF IsNumber
<1>3. m \in Text /\ rest \in Text
  BY TextTypes, EndsFacts
<1>4. s \notin Unlimited
  <2>1. "NaN" \notin Digits /\ "INF" \notin Digits
    BY DEF Digits, OneDigit, TwoDigits, Zeros
  <2>2. s = <<"NaN">> => n = 1 /\ s[n] = "NaN"
    BY <1>2
  <2>3. s = <<"INF">> => n = 1 /\ s[n] = "INF"
    BY <1>2
  <2>4. s = <<"-", "INF">> => n = 2 /\ s[n] = "INF"
    BY <1>2
  <2>. QED
    BY <1>2, <2>1, <2>2, <2>3, <2>4 DEF Unlimited
<1>5. ToZinc(Num(s, m)) = s \o m
  <2>1. Rounded(s) = s
    BY RoundedIs
  <2>. QED
    BY <1>4, <2>1 DEF ToZinc, NumText, Num, Value
<1>6. PICK u \in Text : u = m \o rest
  BY <1>3, JoinText
<1>7. (s \o m) \o rest = s \o u
  BY <1>2, <1>3, <1>6, JoinJoin
<1>8. Stops(u) /\ Cur(u) \notin {"-", ":"}
  BY <1>6, UnitIsRead
<1>9. Run(u, UnitChar) = Len(m) /\ SubSeq(u, 1, Len(m)) = m /\ Drop(u, Len(m)) = rest
  BY <1>6, UnitIsRead
<1>10. ReadVal(s \o u, FALSE) = Numbered([val |-> s, rest |-> u])
  BY <1>1, <1>8, NumberBegins
<1>11. IsNumeral(s)
  BY <1>1, NumeralText
<1>12. PICK g : g = [val |-> s, rest |-> u]
  OBVIOUS
<1>13. g.val = s /\ g.rest = u
  BY <1>12
<1>14. Numbered(g) = Got(Num(s, SubSeq(u, 1, Run(u, UnitChar))), Drop(u, Run(u, UnitChar)))
  BY <1>8, <1>11, <1>13 DEF Numbered
<1>. QED
  BY <1>3, <1>5, <1>7, <1>9, <1>10, <1>12, <1>14 DEF ReadBack

-----------------------------------------------------------------------------
(* Four symbols, and their places at the head of a text. *)
Four(a, b, c, d) == a \in Symbol /\ b \in Symbol /\ c \in Symbol /\ d \in Symbol

LEMMA FourFacts ==
  ASSUME NEW a, NEW b, NEW c, NEW d, Four(a, b, c, d), NEW t \in Text,
         NEW p, p = Pre(a, Pre(b, Pre(c, Pre(d, t))))
  PROVE  /\ p \in Text /\ Cur(p) = a /\ Peek(p) = b /\ p[2] = b /\ p[4] = d
         /\ Cur(Drop(p, 1)) = b /\ Peek(Drop(p, 1)) = c /\ Cur(Drop(p, 3)) = d /\ Drop(p, 4) = t
         /\ Cur(Drop(p, 2)) = c
<1>0. a \in Symbol /\ b \in Symbol /\ c \in Symbol /\ d \in Symbol
  BY DEF Four
<1>1. PICK x \in Text : x = Pre(d, t)
  BY <1>0, PreText
<1>2. PICK y \in Text : y = Pre(c, x)
  BY <1>0, PreText
<1>3. PICK z \in Text : z = Pre(b, y)
  BY <1>0, PreText
<1>4. PICK q \in Text : q = Pre(a, z)
  BY <1>0, PreText
<1>5. q = p
  BY <1>1, <1>2, <1>3, <1>4
<1>6. Drop(q, 1) = z /\ Cur(q) = a /\ Peek(q) = Cur(z)
  BY <1>0, <1>4, PreText
<1>7. Drop(z, 1) = y /\ Cur(z) = b /\ Peek(z) = Cur(y)
  BY <1>0, <1>3, PreText
<1>8. Drop(y, 1) = x /\ Cur(y) = c
  BY <1>0, <1>2, PreText
<1>9. Drop(x, 1) = t /\ Cur(x) = d
  BY <1>0, <1>1, PreText
<1>10. \A e \in Text : \A m, n \in Nat : Drop(Drop(e, m), n) = Drop(e, m + n)
  BY DropTwice DEF Text
<1>11. Drop(q, 2) = y
  <2>1. Drop(Drop(q, 1), 1) = Drop(q, 1 + 1)
    BY <1>10
  <2>2. 1 + 1 = 2
    OBVIOUS
  <2>. QED
    BY <1>6, <1>7, <2>1, <2>2
<1>12. Drop(q, 3) = x
  <2>1. Drop(Drop(q, 2), 1) = Drop(q, 2 + 1)
    BY <1>10
  <2>2. 2 + 1 = 3
    OBVIOUS
  <2>. QED
    BY <1>8, <1>11, <2>1, <2>2
<1>13. Drop(q, 4) = t
  <2>1. Drop(Drop(q, 3), 1) = Drop(q, 3 + 1)
    BY <1>10
  <2>2. 3 + 1 = 4
    OBVIOUS
  <2>. QED
    BY <1>9, <1>12, <2>1, <2>2
<1>14. PICK n \in Nat : n = Len(t)
  BY TextTypes
<1>15. Len(q) = n + 4
  <2>1. Len(Pre(d, t)) = Len(t) + 1
    BY <1>0, PrePlaces DEF Text
  <2>2. Len(Pre(c, x)) = Len(x) + 1
    BY <1>0, PrePlaces DEF Text
  <2>3. Len(Pre(b, y)) = Len(y) + 1
    BY <1>0, PrePlaces DEF Text
  <2>4. Len(Pre(a, z)) = Len(z) + 1
    BY <1>0, PrePlaces DEF Text
  <2>5. Len(x) = n + 1
    BY <1>1, <1>14, <2>1
  <2>6. Len(y) = n + 2
    BY <1>2, <2>2, <2>5
  <2>7. Len(z) = n + 3
    BY <1>3, <2>3, <2>6
  <2>. QED
    BY <1>4, <2>4, <2>7
<1>16. \A m \in Nat : m < n + 4 => Cur(Drop(q, m)) = q[m + 1]
  BY <1>15, DropFacts DEF Text
<1>17. Cur(Drop(q, 1)) = q[2]
  <2>1. 1 < n + 4 /\ 1 + 1 = 2
    OBVIOUS
  <2>. QED
    BY <1>16, <2>1
<1>18. Cur(Drop(q, 3)) = q[4]
  <2>1. 3 < n + 4 /\ 3 + 1 = 4
    OBVIOUS
  <2>. QED
    BY <1>16, <2>1
<1>. QED
  BY <1>4, <1>5, <1>6, <1>7, <1>8, <1>9, <1>11, <1>12, <1>13, <1>17, <1>18

(* One group of digits is a number. *)
LEMMA GroupIs ==
  ASSUME NEW d \in Digits
  PROVE  IsNumber(<<d>>, 1) /\ Begins(<<d>>, 1) /\ IsNumeral(<<d>>) /\ <<d>> \in Text
<1>1. IsMantissa(<<d>>, 1)
  BY MantissaIs
<1>2. PICK s : s = <<d>> /\ IsMantissa(s, 1)
  BY <1>1
<1>3. s[1] = d
  BY <1>2
<1>4. PICK n \in Nat : n = 1
  OBVIOUS
<1>5. IsNumber(s, n) /\ Begins(s, n)
  BY <1>2, <1>3, <1>4 DEF IsMantissa, Begins
<1>6. IsNumeral(s)
  BY <1>5, NumeralText
<1>7. s \in Text
  BY <1>5 DEF IsNumber
<1>. QED
  BY <1>2, <1>4, <1>5, <1>6, <1>7

(* The symbols of dates and times. *)
LEMMA GroupsAre ==
  /\ "2010" \in Digits /\ "2010" \in Symbol
  /\ \A d \in TwoDigits : d \in Digits /\ d \in Symbol
  /\ {"-", ":", ".", " ", "+"} \subseteq Symbol /\ "T" \in Symbol /\ "Z" \in Symbol
  /\ {"02", "05", "00", "005"} \subseteq Symbol
<1>1. "2010" \in Digits /\ TwoDigits \subseteq Digits /\ {"02", "05", "00", "005"} \subseteq Digits
  BY DEF Digits, TwoDigits
<1>2. {"-", ":", ".", " ", "+"} \subseteq Signs
  BY DEF Signs
<1>3. {"T", "Z"} \subseteq Upper
  BY DEF Upper
<1>. QED
  BY <1>1, <1>2, <1>3, SymbolsAre

(* A text with one symbol more at its head. *)
LEMMA HeadText ==
  ASSUME NEW a \in Symbol, NEW x \in Text, NEW n \in Nat, n = Len(x), NEW w \in Text,
         Len(w) = n + 1, w[1] = a, \A i \in 1..n : w[i + 1] = x[i]
  PROVE  w = Pre(a, x) /\ \A t \in Text : w \o t = Pre(a, x \o t)
<1>1. PICK p \in Text : p = Pre(a, x)
  BY PreText
<1>2. Len(p) = n + 1 /\ p[1] = a /\ \A i \in 1..n : p[i + 1] = x[i]
  <2>1. Len(Pre(a, x)) = Len(x) + 1 /\ Pre(a, x)[1] = a
    BY PrePlaces DEF Text
  <2>2. \A i \in 1..Len(x) : Pre(a, x)[i + 1] = x[i]
    BY PrePlaces DEF Text
  <2>. QED
    BY <1>1, <2>1, <2>2
<1>3. \A i \in 1..n + 1 : p[i] = w[i]
  <2> TAKE i \in 1..n + 1
  <2>1. i = 1 \/ (i - 1 \in 1..n /\ (i - 1) + 1 = i)
    OBVIOUS
  <2>2. i - 1 \in 1..n => p[(i - 1) + 1] = w[(i - 1) + 1]
    BY <1>2
  <2>3. p[1] = w[1]
    BY <1>2
  <2>. QED
    BY <2>1, <2>2, <2>3
<1>4. PICK l \in Nat : l = n + 1
  OBVIOUS
<1>5. Len(p) = l /\ Len(w) = l /\ \A i \in 1..l : p[i] = w[i]
  BY <1>2, <1>3, <1>4
<1>6. p = w
  BY <1>5, SameText
<1>7. \A t \in Text : Pre(a, x) \o t = Pre(a, x \o t)
  BY JoinPre
<1>. QED
  BY <1>1, <1>6, <1>7

LEMMA FourText ==
  ASSUME NEW a, NEW b, NEW c, NEW d, Four(a, b, c, d)
  PROVE  /\ <<a, b, c, d>> \in Text
         /\ \A t \in Text : <<a, b, c, d>> \o t = Pre(a, Pre(b, Pre(c, Pre(d, t))))
<1>11. a \in Symbol /\ b \in Symbol /\ c \in Symbol /\ d \in Symbol
  BY DEF Four
<1>1. <<a, b, c, d>> \in Text
  BY <1>11 DEF Text
<1>0. <<>> \in Text
  BY DEF Text
<1>2. PICK w \in Text : w = <<a, b, c, d>>
  BY <1>1
<1>3. <<b, c, d>> \in Text
  BY <1>0, <1>11, TripleText
<1>4. PICK x \in Text : x = <<b, c, d>>
  BY <1>3
<1>5. PICK n \in Nat : n = 3
  OBVIOUS
<1>6. n = Len(x) /\ x[1] = b /\ x[2] = c /\ x[3] = d
  BY <1>4, <1>5
<1>7. Len(w) = n + 1 /\ w[1] = a /\ w[2] = b /\ w[3] = c /\ w[4] = d
  BY <1>2, <1>5
<1>8. \A i \in 1..n : w[i + 1] = x[i]
  <2> TAKE i \in 1..n
  <2>1. (i = 1 /\ i + 1 = 2) \/ (i = 2 /\ i + 1 = 3) \/ (i = 3 /\ i + 1 = 4)
    BY <1>5
  <2>. QED
    BY <1>6, <1>7, <2>1
<1>9. w = Pre(a, x) /\ \A t \in Text : w \o t = Pre(a, x \o t)
  BY <1>6, <1>7, <1>8, <1>11, HeadText
<1>10. \A t \in Text : x \o t = Pre(b, Pre(c, Pre(d, t)))
  BY <1>4, <1>11, TripleJoin
<1>. QED
  BY <1>2, <1>4, <1>9, <1>10

LEMMA FiveHead ==
  ASSUME NEW a \in Symbol, NEW x \in Text, Len(x) = 4, NEW w \in Text, Len(w) = 5,
         w[1] = a, w[2] = x[1], w[3] = x[2], w[4] = x[3], w[5] = x[4]
  PROVE  \A t \in Text : w \o t = Pre(a, x \o t)
<1>1. PICK n \in Nat : n = 4
  OBVIOUS
<1>2. n = Len(x) /\ Len(w) = n + 1
  BY <1>1
<1>3. \A i \in 1..n : w[i + 1] = x[i]
  <2> TAKE i \in 1..n
  <2>1. (i = 1 /\ i + 1 = 2) \/ (i = 2 /\ i + 1 = 3) \/ (i = 3 /\ i + 1 = 4) \/ (i = 4 /\ i + 1 = 5)
    BY <1>1
  <2>. QED
    BY <2>1
<1>4. w = Pre(a, x)
  BY <1>2, <1>3, HeadText
<1>5. \A t \in Text : Pre(a, x) \o t = Pre(a, x \o t)
  BY JoinPre
<1>. QED
  BY <1>4, <1>5

(* Five symbols, likewise. *)
Five(a, b, c, d, e) == Four(a, b, c, d) /\ e \in Symbol

LEMMA FiveText ==
  ASSUME NEW a, NEW b, NEW c, NEW d, NEW e, Five(a, b, c, d, e)
  PROVE  /\ <<a, b, c, d, e>> \in Text
         /\ \A t \in Text : <<a, b, c, d, e>> \o t = Pre(a, Pre(b, Pre(c, Pre(d, Pre(e, t)))))
<1>11. a \in Symbol /\ b \in Symbol /\ c \in Symbol /\ d \in Symbol /\ e \in Symbol
  BY DEF Five, Four
<1>1. <<a, b, c, d, e>> \in Text
  BY <1>11 DEF Text
<1>2. PICK w : w = <<a, b, c, d, e>>
  OBVIOUS
<1>3. <<b, c, d, e>> \in Text
  BY <1>11 DEF Text
<1>4. PICK x : x = <<b, c, d, e>>
  OBVIOUS
<1>6. x \in Text /\ Len(x) = 4 /\ x[1] = b /\ x[2] = c /\ x[3] = d /\ x[4] = e
  BY <1>3, <1>4
<1>7. w \in Text /\ Len(w) = 5 /\ w[1] = a /\ w[2] = b /\ w[3] = c /\ w[4] = d /\ w[5] = e
  BY <1>1, <1>2
<1>9. \A t \in Text : w \o t = Pre(a, x \o t)
  <2>1. w[2] = x[1] /\ w[3] = x[2] /\ w[4] = x[3] /\ w[5] = x[4]
    BY <1>6, <1>7
  <2>. QED
    BY <1>6, <1>7, <1>11, <2>1, FiveHead, Zenon
<1>10. \A t \in Text : x \o t = Pre(b, Pre(c, Pre(d, Pre(e, t))))
  <2>1. Four(b, c, d, e)
    BY <1>11 DEF Four
  <2>. QED
    BY <1>4, <2>1, FourText
<1>. QED
  BY <1>1, <1>2, <1>9, <1>10, Zenon

(* The text of a date, from the dash behind the year. *)
DateTail(m, d, t) == Pre("-", Pre(m, Pre("-", Pre(d, t))))

(* The places where the reader looks for the month and the day. *)
Second(u) == u[2]
Fourth(u) == u[4]

(* What stands behind a year. *)
IsDateTail(u, m, d, t) ==
  m \in TwoDigits /\ d \in TwoDigits /\ t \in Text /\ u = DateTail(m, d, t)

LEMMA DateTailIs ==
  ASSUME NEW m, NEW d, NEW t, NEW u, IsDateTail(u, m, d, t)
  PROVE  /\ u \in Text /\ Cur(u) = "-" /\ Second(u) = m /\ Fourth(u) = d /\ Drop(u, 4) = t
         /\ TwoDigitsThen(Drop(u, 1), "-") /\ Cur(Drop(u, 3)) \in TwoDigits
         /\ <<"2010", "-", m, "-", d>> \o t = <<"2010">> \o u
<1>0. m \in TwoDigits /\ d \in TwoDigits /\ t \in Text /\ u = DateTail(m, d, t)
  BY DEF IsDateTail
<1>1. m \in Symbol /\ d \in Symbol /\ "-" \in Symbol /\ "2010" \in Symbol
  BY <1>0, GroupsAre
<1>3. PICK a \in Symbol : a = "-"
  BY <1>1
<1>4. u = Pre(a, Pre(m, Pre(a, Pre(d, t))))
  BY <1>0, <1>3 DEF DateTail
<1>5. /\ u \in Text /\ Cur(u) = a /\ u[2] = m /\ u[4] = d
      /\ Cur(Drop(u, 1)) = m /\ Peek(Drop(u, 1)) = a /\ Cur(Drop(u, 3)) = d /\ Drop(u, 4) = t
  <2>1. Four(a, m, a, d)
    BY <1>1 DEF Four
  <2>. QED
    BY <1>0, <1>4, <2>1, FourFacts
<1>6. TwoDigitsThen(Drop(u, 1), "-") /\ Cur(Drop(u, 3)) \in TwoDigits
  BY <1>0, <1>3, <1>5 DEF TwoDigitsThen
<1>9. <<"2010", "-", m, "-", d>> \o t = <<"2010">> \o u
  <2>1. PICK y \in Symbol : y = "2010"
    BY <1>1
  <2>2. <<y, a, m, a, d>> \o t = Pre(y, u)
    <3>1. <<y, a, m, a, d>> \o t = Pre(y, Pre(a, Pre(m, Pre(a, Pre(d, t)))))
      <4>1. Five(y, a, m, a, d)
        BY <1>1 DEF Five, Four
      <4>. QED
        BY <1>0, <4>1, FiveText
    <3>. QED
      BY <1>4, <3>1
  <2>. QED
    BY <1>3, <2>1, <2>2 DEF Pre
<1>. QED
  BY <1>3, <1>5, <1>6, <1>9 DEF Second, Fourth

LEMMA DateFourth ==
  ASSUME NEW m, NEW d, NEW t, NEW u, IsDateTail(u, m, d, t)
  PROVE  Fourth(u) = d
  BY DateTailIs

(* A date that no time follows. *)
LEMMA DateValIs ==
  ASSUME NEW m \in TwoDigits, NEW d \in TwoDigits, NEW t \in Text, Cur(t) # "T",
         NEW u, u = DateTail(m, d, t)
  PROVE  DateVal("2010", u) = Got(Value("date", <<"2010", m, d>>, <<>>), t)
<1>0. IsDateTail(u, m, d, t)
  BY DEF IsDateTail
<1>1. Second(u) = m /\ Fourth(u) = d /\ Drop(u, 4) = t
  BY <1>0, DateTailIs
<1>2. TwoDigitsThen(Drop(u, 1), "-") /\ Cur(Drop(u, 3)) \in TwoDigits
  BY <1>0, DateTailIs
<1>. QED
  BY <1>1, <1>2 DEF DateVal, Second, Fourth

(* A time that the reader takes, up to e. *)
WithTime(h, w, x, e) ==
  h \in TwoDigits /\ w \in Text /\ e \in Text /\ Cur(w) = ":" /\ TimeVal(h, w) = Got(x, e)

(* A date that a time follows. *)
LEMMA DateTimeValIs ==
  ASSUME NEW m \in TwoDigits, NEW d \in TwoDigits, NEW h, NEW w, NEW x, NEW e, WithTime(h, w, x, e),
         NEW u, u = DateTail(m, d, Pre("T", Pre(h, w)))
  PROVE  DateVal("2010", u) = ZoneVal(<<"2010", m, d>>, x, e)
<1>1. h \in TwoDigits /\ w \in Text /\ e \in Text /\ Cur(w) = ":" /\ TimeVal(h, w) = Got(x, e)
  BY DEF WithTime
<1>2. h \in Symbol /\ "T" \in Symbol
  BY <1>1, GroupsAre
<1>3. PICK y \in Text : y = Pre(h, w)
  BY <1>1, <1>2, PreText
<1>4. PICK t \in Text : t = Pre("T", y)
  BY <1>2, PreText
<1>5. Cur(y) = h /\ Drop(y, 1) = w
  BY <1>1, <1>2, <1>3, PreText
<1>6. Cur(t) = "T" /\ Peek(t) = Cur(y) /\ Drop(t, 1 + 1) = Drop(y, 1)
  BY <1>2, <1>4, PreText
<1>7. Drop(t, 2) = w
  BY <1>5, <1>6
<1>8. PICK g : g = TimeVal(h, w) /\ g.out = "ok" /\ g.val = x /\ g.rest = e
  BY <1>1 DEF Got
<1>9. Peek(t) \in TwoDigits /\ Peek(t) = h
  BY <1>1, <1>5, <1>6
<1>10. TimeVal(Peek(t), Drop(t, 2)) = g
  BY <1>7, <1>8, <1>9
<1>11. IsDateTail(u, m, d, t)
  BY <1>3, <1>4 DEF IsDateTail
<1>12. Second(u) = m /\ Fourth(u) = d /\ Drop(u, 4) = t
  <2>1. Drop(u, 4) = t
    BY <1>11, DateTailIs
  <2>2. Second(u) = m
    BY <1>11, DateTailIs
  <2>3. Fourth(u) = d
    BY <1>11, DateFourth
  <2>. QED
    BY <2>1, <2>2, <2>3
<1>13. TwoDigitsThen(Drop(u, 1), "-") /\ Cur(Drop(u, 3)) \in TwoDigits
  BY <1>11, DateTailIs
<1>. QED
  BY <1>1, <1>6, <1>7, <1>8, <1>9, <1>10, <1>12, <1>13 DEF DateVal, Second, Fourth

(* Dates. *)
LEMMA DateReadsBack ==
  ASSUME NEW m \in TwoDigits, NEW d \in TwoDigits, NEW rest, Ends(rest)
  PROVE  ReadBack(Value("date", <<"2010", m, d>>, <<>>), rest)
<1>1. rest \in Text /\ Cur(rest) # "T"
  BY EndsFacts
<1>2. PICK u : u = DateTail(m, d, rest)
  OBVIOUS
<1>3. /\ u \in Text /\ Cur(u) = "-" /\ <<"2010", "-", m, "-", d>> \o rest = <<"2010">> \o u
      /\ DateVal("2010", u) = Got(Value("date", <<"2010", m, d>>, <<>>), rest)
  <2>1. IsDateTail(u, m, d, rest)
    BY <1>1, <1>2 DEF IsDateTail
  <2>2. DateVal("2010", u) = Got(Value("date", <<"2010", m, d>>, <<>>), rest)
    BY <1>1, <1>2, DateValIs
  <2>. QED
    BY <2>1, <2>2, DateTailIs
<1>4. PICK v : v = Value("date", <<"2010", m, d>>, <<>>)
  OBVIOUS
<1>5. ToZinc(v) = <<"2010", "-", m, "-", d>>
  <2>1. v.kind = "date" /\ v.text = <<"2010", m, d>>
    BY <1>4 DEF Value
  <2>2. v.text[1] = "2010" /\ v.text[2] = m /\ v.text[3] = d
    BY <2>1
  <2>3. ToZinc(v) = DateText(v.text)
    BY <2>1 DEF ToZinc
  <2>. QED
    BY <2>2, <2>3 DEF DateText
<1>6. PICK g \in Digits : g = "2010"
  BY GroupsAre
<1>7. Stops(u)
  <2>1. "-" \notin Digits
    BY NoClass
  <2>. QED
    BY <1>3, <2>1 DEF Stops, Separator
<1>8. IsNumber(<<g>>, 1) /\ Begins(<<g>>, 1) /\ IsNumeral(<<g>>)
  BY GroupIs
<1>9. PICK s : s = <<g>>
  OBVIOUS
<1>10. ReadVal(s \o u, FALSE) = Numbered([val |-> s, rest |-> u])
  BY <1>7, <1>8, <1>9, NumberBegins
<1>11. PICK n : n = [val |-> s, rest |-> u]
  OBVIOUS
<1>12. n.val = <<"2010">> /\ n.val[1] = "2010" /\ n.rest = u /\ IsNumeral(n.val)
  BY <1>6, <1>8, <1>9, <1>11
<1>13. Numbered(n) = DateVal("2010", u)
  BY <1>3, <1>12 DEF Numbered
<1>14. ToZinc(v) \o rest = s \o u
  BY <1>3, <1>5, <1>6, <1>9
<1>. QED
  BY <1>1, <1>3, <1>4, <1>10, <1>11, <1>13, <1>14 DEF ReadBack

(* A time of the day, and what stands behind its hour. *)
Clock(h, m, s, ms) ==
  h \in TwoDigits /\ m \in TwoDigits /\ s \in TwoDigits /\ ms \in {"000", "005"}

(* The text of a time, from the colon behind the hour. *)
Millis(ms, t) == IF ms = "000" THEN t ELSE Pre(".", Pre(ms, t))
TimeTail(m, s, ms, t) == Pre(":", Pre(m, Pre(":", Pre(s, Millis(ms, t)))))

(* Milliseconds are printed unless they are none. *)
LEMMA MillisAre ==
  ASSUME NEW ms \in {"000", "005"}, NEW t \in Text
  PROVE  /\ Millis(ms, t) \in Text
         /\ Millis(ms, t) = (IF ms = "000" THEN <<>> ELSE <<".", ms>>) \o t
         /\ (IF ms = "000" THEN <<>> ELSE <<".", ms>>) \in Text
<1>0. <<>> \in Text
  BY DEF Text
<1>1. CASE ms = "000"
  <2>1. Millis(ms, t) = t
    BY <1>1 DEF Millis
  <2>2. <<>> \o t = t
    BY JoinText
  <2>. QED
    BY <1>0, <1>1, <2>1, <2>2
<1>2. CASE ms # "000"
  <2>1. "." \in Symbol /\ ms \in Symbol
    BY <1>2, GroupsAre
  <2>2. <<".", ms>> \in Text /\ <<".", ms>> \o t = Pre(".", Pre(ms, t))
    BY <2>1, PairText
  <2>3. Pre(ms, t) \in Text
    BY <2>1, PreText
  <2>4. Pre(".", Pre(ms, t)) \in Text
    BY <2>1, <2>3, PreText
  <2>. QED
    BY <1>2, <2>2, <2>4 DEF Millis
<1>. QED
  BY <1>1, <1>2

(* A time from its parts. *)
LEMMA FourJoined ==
  ASSUME NEW a, NEW b, NEW c, NEW d, Four(a, b, c, d)
  PROVE  <<a, b, c>> \o <<d>> = <<a, b, c, d>>
<1>1. a \in Symbol /\ b \in Symbol /\ c \in Symbol /\ d \in Symbol
  BY DEF Four
<1>2. <<d>> \in Text /\ <<>> \in Text /\ <<d>> = Pre(d, <<>>)
  <2>1. <<>> \in Text
    BY DEF Text
  <2>. QED
    BY <1>1, <2>1, JoinPre
<1>3. PICK x \in Text : x = <<d>>
  BY <1>2
<1>4. <<a, b, c>> \o x = Pre(a, Pre(b, Pre(c, x)))
  BY <1>1, TripleJoin
<1>5. <<a, b, c, d>> \in Text /\ \A t \in Text : <<a, b, c, d>> \o t = Pre(a, Pre(b, Pre(c, Pre(d, t))))
  BY FourText
<1>6. <<a, b, c, d>> \o <<>> = Pre(a, Pre(b, Pre(c, Pre(d, <<>>))))
  BY <1>2, <1>5
<1>7. PICK w \in Text : w = <<a, b, c, d>>
  BY <1>5
<1>8. w \o <<>> = w
  BY JoinText
<1>. QED
  BY <1>2, <1>3, <1>4, <1>6, <1>7, <1>8

(* What stands behind an hour is read as the rest of the time. *)
LEMMA TimeValIs ==
  ASSUME NEW h, NEW m, NEW s, NEW ms, Clock(h, m, s, ms), NEW t \in Text, Cur(t) # "."
  PROVE  /\ TimeTail(m, s, ms, t) \in Text /\ Cur(TimeTail(m, s, ms, t)) = ":"
         /\ TimeVal(h, TimeTail(m, s, ms, t)) = Got(<<h, m, s, ms>>, t)
<1>0. h \in TwoDigits /\ m \in TwoDigits /\ s \in TwoDigits /\ ms \in {"000", "005"}
  BY DEF Clock
<1>1. h \in Symbol /\ m \in Symbol /\ s \in Symbol
  BY <1>0, GroupsAre
<1>2. ":" \in Symbol /\ "." \in Symbol
  BY GroupsAre
<1>3. ms \in Symbol
  BY <1>0 DEF Symbol, Digits
<1>4. PICK a \in Symbol : a = ":"
  BY <1>2
<1>5. PICK w \in Text : w = Millis(ms, t)
  BY <1>0, MillisAre
<1>6. PICK u : u = TimeTail(m, s, ms, t)
  OBVIOUS
<1>7. u = Pre(a, Pre(m, Pre(a, Pre(s, w))))
  BY <1>4, <1>5, <1>6 DEF TimeTail
<1>8. /\ u \in Text /\ Cur(u) = a /\ u[2] = m /\ u[4] = s
      /\ Cur(Drop(u, 1)) = m /\ Peek(Drop(u, 1)) = a /\ Cur(Drop(u, 3)) = s /\ Drop(u, 4) = w
  <2>1. Four(a, m, a, s)
    BY <1>1 DEF Four
  <2>. QED
    BY <1>7, <2>1, FourFacts
<1>9. Cur(u) = ":" /\ TwoDigitsThen(Drop(u, 1), ":") /\ Cur(Drop(u, 3)) \in TwoDigits
  BY <1>0, <1>4, <1>8 DEF TwoDigitsThen
<1>10. Four(h, m, s, ms)
  BY <1>1, <1>3 DEF Four
<1>11. <<h, m, s>> \o <<ms>> = <<h, m, s, ms>>
  BY <1>10, FourJoined
<1>12. CASE ms = "000"
  <2>1. w = t
    BY <1>5, <1>12 DEF Millis
  <2>2. TimeVal(h, u) = Got(<<h, m, s>> \o <<"000">>, w)
    BY <1>8, <1>9, <2>1 DEF TimeVal
  <2>. QED
    BY <1>6, <1>8, <1>9, <1>11, <1>12, <2>1, <2>2
<1>13. CASE ms = "005"
  <2>1. PICK b \in Symbol : b = "."
    BY <1>2
  <2>2. w = Pre(b, Pre(ms, t))
    BY <1>5, <1>13, <2>1 DEF Millis
  <2>3. PICK y \in Text : y = Pre(ms, t)
    BY <1>3, PreText
  <2>4. Cur(w) = b /\ Peek(w) = Cur(y) /\ Drop(w, 1 + 1) = Drop(y, 1)
    BY <2>2, <2>3, PreText
  <2>5. Cur(y) = ms /\ Drop(y, 1) = t
    BY <1>3, <2>3, PreText
  <2>6. Cur(w) = "." /\ Peek(w) = "005" /\ Drop(w, 2) = t
    BY <1>13, <2>1, <2>4, <2>5
  <2>7. TimeVal(h, u) = Got(<<h, m, s>> \o <<"005">>, Drop(w, 2))
    BY <1>8, <1>9, <2>6 DEF TimeVal
  <2>. QED
    BY <1>6, <1>8, <1>9, <1>11, <1>13, <2>6, <2>7
<1>. QED
  BY <1>0, <1>12, <1>13

(* That is what the writer prints. *)
LEMMA TimeTextIs ==
  ASSUME NEW h, NEW m, NEW s, NEW ms, Clock(h, m, s, ms), NEW t \in Text
  PROVE  /\ TimeText(<<h, m, s, ms>>) \in Text
         /\ TimeText(<<h, m, s, ms>>) \o t = Pre(h, TimeTail(m, s, ms, t))
<1>0. h \in TwoDigits /\ m \in TwoDigits /\ s \in TwoDigits /\ ms \in {"000", "005"}
  BY DEF Clock
<1>1. h \in Symbol /\ m \in Symbol /\ s \in Symbol /\ ":" \in Symbol
  BY <1>0, GroupsAre
<1>2. PICK a \in Symbol : a = ":"
  BY <1>1
<1>3. PICK f \in Text : f = IF ms = "000" THEN <<>> ELSE <<".", ms>>
  BY <1>0, MillisAre
<1>4. PICK w \in Text : w = Millis(ms, t) /\ w = f \o t
  BY <1>0, <1>3, MillisAre
<1>5. <<h, a, m, a, s>> \in Text /\ \A x \in Text : <<h, a, m, a, s>> \o x = Pre(h, Pre(a, Pre(m, Pre(a, Pre(s, x)))))
  <2>1. Five(h, a, m, a, s)
    BY <1>1 DEF Five, Four
  <2>. QED
    BY <2>1, FiveText
<1>6. PICK e \in Text : e = <<h, a, m, a, s>>
  BY <1>5
<1>7. TimeText(<<h, m, s, ms>>) = e \o f
  <2>1. PICK x : x = <<h, m, s, ms>>
    OBVIOUS
  <2>2. x[1] = h /\ x[2] = m /\ x[3] = s /\ x[4] = ms
    BY <2>1
  <2>3. TimeText(x) = e \o f
    BY <1>2, <1>3, <1>6, <2>2 DEF TimeText
  <2>. QED
    BY <2>1, <2>3
<1>8. (e \o f) \o t = e \o w
  BY <1>4, JoinJoin
<1>9. e \o w = Pre(h, Pre(a, Pre(m, Pre(a, Pre(s, w)))))
  BY <1>5, <1>6
<1>10. e \o f \in Text
  BY JoinText
<1>. QED
  BY <1>2, <1>4, <1>7, <1>8, <1>9, <1>10 DEF TimeTail

(* Times. *)
LEMMA TimeReadsBack ==
  ASSUME NEW h, NEW m, NEW s, NEW ms, Clock(h, m, s, ms), NEW rest, Ends(rest)
  PROVE  ReadBack(Value("time", <<h, m, s, ms>>, <<>>), rest)
<1>1. rest \in Text /\ Cur(rest) # "."
  BY EndsFacts
<1>2. PICK u : u = TimeTail(m, s, ms, rest)
  OBVIOUS
<1>3. u \in Text /\ Cur(u) = ":" /\ TimeVal(h, u) = Got(<<h, m, s, ms>>, rest)
  BY <1>1, <1>2, TimeValIs
<1>4. PICK v : v = Value("time", <<h, m, s, ms>>, <<>>)
  OBVIOUS
<1>5. ToZinc(v) = TimeText(<<h, m, s, ms>>)
  BY <1>4 DEF ToZinc, Value
<1>0. h \in TwoDigits
  BY DEF Clock
<1>6. TimeText(<<h, m, s, ms>>) \o rest = <<h>> \o u
  <2>1. TimeText(<<h, m, s, ms>>) \o rest = Pre(h, TimeTail(m, s, ms, rest))
    BY <1>1, TimeTextIs
  <2>. QED
    BY <1>2, <2>1 DEF Pre
<1>7. Stops(u)
  <2>1. ":" \notin Digits
    BY NoClass
  <2>. QED
    BY <1>3, <2>1 DEF Stops, Separator
<1>8. h \in Digits
  BY <1>0, GroupsAre
<1>9. IsNumber(<<h>>, 1) /\ Begins(<<h>>, 1) /\ IsNumeral(<<h>>)
  BY <1>8, GroupIs
<1>10. PICK g : g = <<h>>
  OBVIOUS
<1>11. ReadVal(g \o u, FALSE) = Numbered([val |-> g, rest |-> u])
  BY <1>7, <1>9, <1>10, NumberBegins
<1>12. PICK n : n = [val |-> g, rest |-> u]
  OBVIOUS
<1>13. n.val = <<h>> /\ n.val[1] = h /\ n.rest = u /\ IsNumeral(n.val) /\ n.val \in {<<d>> : d \in TwoDigits}
  BY <1>0, <1>9, <1>10, <1>12
<1>14. PICK x : x = TimeVal(h, u) /\ x.out = "ok" /\ x.val = <<h, m, s, ms>> /\ x.rest = rest
  BY <1>3 DEF Got
<1>15. Numbered(n) = Got(Value("time", x.val, <<>>), x.rest)
  BY <1>3, <1>13, <1>14 DEF Numbered
<1>. QED
  BY <1>1, <1>4, <1>5, <1>6, <1>10, <1>11, <1>12, <1>14, <1>15 DEF ReadBack

(* A part of a text from its second symbol on. *)
LEMMA SecondOn ==
  ASSUME NEW c \in Symbol, NEW z \in Text, NEW n \in Nat, n <= Len(z)
  PROVE  SubSeq(Pre(c, z), 2, 1 + n) = SubSeq(z, 1, n)
<1>1. PICK p \in Text : p = Pre(c, z)
  BY PreText
<1>2. Len(p) = Len(z) + 1 /\ \A i \in 1..Len(z) : p[i + 1] = z[i]
  <2>1. Len(Pre(c, z)) = Len(z) + 1
    BY PrePlaces DEF Text
  <2>2. \A i \in 1..Len(z) : Pre(c, z)[i + 1] = z[i]
    BY PrePlaces DEF Text
  <2>. QED
    BY <1>1, <2>1, <2>2
<1>3. PICK l \in Nat : l = Len(z)
  BY TextTypes
<1>4. PICK x \in Text : x = SubSeq(p, 2, 1 + n)
  <2>1. SubSeq(p, 2, 1 + n) \in Text
    BY <1>2, <1>3 DEF Text
  <2>. QED
    BY <2>1
<1>5. PICK y \in Text : y = SubSeq(z, 1, n)
  <2>1. SubSeq(z, 1, n) \in Text
    BY <1>3 DEF Text
  <2>. QED
    BY <2>1
<1>6. Len(x) = n /\ \A i \in 1..n : x[i] = p[i + 1]
  BY <1>2, <1>3, <1>4 DEF Text
<1>7. Len(y) = n /\ \A i \in 1..n : y[i] = z[i]
  BY <1>3, <1>5 DEF Text
<1>8. \A i \in 1..n : x[i] = y[i]
  BY <1>2, <1>3, <1>6, <1>7
<1>9. x = y
  BY <1>6, <1>7, <1>8, SameText
<1>. QED
  BY <1>1, <1>4, <1>5, <1>9

(* The names of zones. *)
IsZone(zone, n) ==
  /\ zone \in Text /\ n \in Nat /\ n # 0 /\ n = Len(zone) /\ zone[1] \in Zones
  /\ \A i \in 1..n : zone[i] \in TzChar

(* The zones are texts that the reader takes whole. *)
LEMMA ZonesAre ==
  ASSUME NEW zone \in ZoneNames
  PROVE  \E n \in Nat : IsZone(zone, n)
<1>1. /\ "UTC" \in Zones /\ "New_York" \in Zones /\ "GMT" \in Zones
      /\ "UTC" \in TzChar /\ "New_York" \in TzChar /\ "GMT" \in TzChar /\ "+" \in TzChar
  BY DEF Zones, TzChar
<1>2. "2" \in TzChar
  BY DEF TzChar, Id, Digits, OneDigit, Zeros
<1>3. /\ "UTC" \in Symbol /\ "New_York" \in Symbol /\ "GMT" \in Symbol /\ "+" \in Symbol /\ "2" \in Symbol
  BY <1>1, <1>2, SymbolsAre
<1>4. ASSUME NEW c \in {"UTC", "New_York", "GMT"}, zone = <<c>> PROVE IsZone(zone, 1)
  <2>1. <<c>> \in Text
    BY <1>3 DEF Text
  <2>2. Len(zone) = 1 /\ zone[1] = c
    BY <1>4
  <2>3. \A i \in 1..1 : zone[i] \in TzChar
    BY <1>1, <2>2
  <2>. QED
    BY <1>1, <1>4, <2>1, <2>2, <2>3 DEF IsZone
<1>5. CASE zone = <<"GMT", "+", "2">>
  <2>1. PICK a \in Symbol : a = "GMT" /\ a \in TzChar /\ a \in Zones
    BY <1>1, <1>3
  <2>2. PICK b \in Symbol : b = "+" /\ b \in TzChar
    BY <1>1, <1>3
  <2>3. PICK c \in Symbol : c = "2" /\ c \in TzChar
    BY <1>2, <1>3
  <2>4. <<a, b, c>> \in Text
    BY DEF Text
  <2>5. zone \in Text /\ Len(zone) = 3 /\ zone[1] = a /\ zone[2] = b /\ zone[3] = c
    BY <1>5, <2>1, <2>2, <2>3, <2>4
  <2>6. \A i \in 1..3 : i = 1 \/ i = 2 \/ i = 3
    OBVIOUS
  <2>7. \A i \in 1..3 : zone[i] \in TzChar
    BY <2>1, <2>2, <2>3, <2>5, <2>6
  <2>8. PICK n \in Nat : n = 3
    OBVIOUS
  <2>9. IsZone(zone, n)
    BY <2>1, <2>5, <2>7, <2>8 DEF IsZone
  <2>. QED
    BY <2>9
<1>6. zone = <<"UTC">> \/ zone = <<"New_York">> \/ zone = <<"GMT">> \/ zone = <<"GMT", "+", "2">>
  BY DEF ZoneNames
<1>. QED
  BY <1>4, <1>5, <1>6

(* The zone behind a time, and the offset before it. *)
Named(zone, t) == Pre(" ", zone \o t)
(* The offset and the name of a zone, as they are printed. *)
Placed(zone, t) ==
  IF ZoneOffset(zone) = "0" THEN Pre("Z", Named(zone, t))
  ELSE Pre("+", Pre("02", Pre(":", Pre("00", Named(zone, t)))))

(* The name is read up to what ends the value. *)
LEMMA NamedIs ==
  ASSUME NEW zone, NEW n, IsZone(zone, n), NEW rest, Ends(rest)
  PROVE  LET b == Named(zone, rest) IN
         /\ b \in Text /\ Cur(b) = " " /\ Peek(b) \in Zones
         /\ SubSeq(b, 2, 1 + Run(Drop(b, 1), TzChar)) = zone
         /\ Drop(b, 1 + Len(zone)) = rest
<1>1. zone \in Text /\ n \in Nat /\ n # 0 /\ n = Len(zone) /\ zone[1] \in Zones
  BY DEF IsZone
<1>2. rest \in Text /\ Cur(rest) \notin TzChar
  BY EndsFacts
<1>3. PICK z \in Text : z = zone \o rest
  BY <1>1, <1>2, JoinText
<1>4. " " \in Symbol
  BY GroupsAre
<1>5. PICK b \in Text : b = Pre(" ", z)
  BY <1>4, PreText
<1>6. Cur(b) = " " /\ Peek(b) = Cur(z) /\ Drop(b, 1) = z
  BY <1>4, <1>5, PreText
<1>7. Cur(z) \in Zones
  <2>1. zone # <<>>
    BY <1>1, TextTypes
  <2>2. Cur(zone \o rest) = Cur(zone)
    BY <1>1, <1>2, <2>1, JoinText
  <2>3. Cur(zone) = zone[1]
    BY <1>1, <2>1, TextTypes
  <2>. QED
    BY <1>1, <1>3, <2>2, <2>3
<1>8. Run(z, TzChar) = n /\ SubSeq(z, 1, n) = zone /\ Drop(z, n) = rest
  <2>1. PICK C : C = TzChar
    OBVIOUS
  <2>2. (\A i \in 1..Len(zone) : zone[i] \in C) /\ Cur(rest) \notin C
    BY <1>1, <1>2, <2>1 DEF IsZone
  <2>3. Run(zone \o rest, C) = Len(zone) /\ SubSeq(zone \o rest, 1, Len(zone)) = zone /\ Drop(zone \o rest, Len(zone)) = rest
    BY <1>1, <1>2, <2>2, RunOfClass
  <2>. QED
    BY <1>1, <1>3, <2>1, <2>3
<1>9. SubSeq(b, 2, 1 + n) = zone
  <2>1. n <= Len(z)
    <3>1. Len(zone \o rest) = Len(zone) + Len(rest)
      BY <1>1, <1>2, JoinText
    <3>2. PICK l \in Nat : l = Len(rest)
      BY <1>2, TextTypes
    <3>. QED
      BY <1>1, <1>3, <3>1, <3>2
  <2>2. SubSeq(Pre(" ", z), 2, 1 + n) = SubSeq(z, 1, n)
    BY <1>1, <1>4, <2>1, SecondOn
  <2>. QED
    BY <1>5, <1>8, <2>2
<1>10. Drop(b, 1 + n) = rest
  <2>1. \A i \in Nat : Drop(Pre(" ", z), i + 1) = Drop(z, i)
    BY <1>4, PreText
  <2>2. 1 + n = n + 1
    BY <1>1
  <2>. QED
    BY <1>1, <1>5, <1>8, <2>1, <2>2
<1>11. b = Named(zone, rest)
  BY <1>3, <1>5 DEF Named
<1>12. SubSeq(b, 2, 1 + Run(Drop(b, 1), TzChar)) = zone
  BY <1>6, <1>8, <1>9
<1>13. Drop(b, 1 + Len(zone)) = rest
  BY <1>1, <1>10
<1>. QED
  BY <1>6, <1>7, <1>11, <1>12, <1>13

(* A date and a time with a zone. *)
LEMMA ZoneValIs ==
  ASSUME NEW zone \in ZoneNames, NEW rest, Ends(rest), NEW date, NEW time, time # <<>>
  PROVE  /\ Placed(zone, rest) \in Text /\ Cur(Placed(zone, rest)) # "."
         /\ ZoneVal(date, time, Placed(zone, rest))
              = Got(Value("datetime", date \o time, zone \o <<ZoneOffset(zone)>>), rest)
<1>1. PICK n \in Nat : IsZone(zone, n)
  BY ZonesAre
<1>2. PICK b : b = Named(zone, rest)
  OBVIOUS
<1>3. b \in Text /\ Cur(b) = " " /\ Peek(b) \in Zones
  BY <1>1, <1>2, NamedIs
<1>4. SubSeq(b, 2, 1 + Run(Drop(b, 1), TzChar)) = zone
  BY <1>1, <1>2, NamedIs
<1>5. Drop(b, 1 + Len(zone)) = rest
  BY <1>1, <1>2, NamedIs
<1>6. zone # <<>>
  BY <1>1, TextTypes DEF IsZone
<1>7. PICK v : v = Value("datetime", date \o time, zone \o <<ZoneOffset(zone)>>)
  OBVIOUS
<1>8. InZone(date, time, zone, rest) = Got(v, rest)
  BY <1>7 DEF InZone
<1>9. CASE ZoneOffset(zone) = "0"
  <2>1. "Z" \in Symbol
    BY GroupsAre
  <2>2. PICK e \in Text : e = Pre("Z", b)
    BY <1>3, <2>1, PreText
  <2>3. Cur(e) = "Z" /\ Drop(e, 1) = b
    BY <1>3, <2>1, <2>2, PreText
  <2>4. e = Placed(zone, rest)
    BY <1>2, <1>9, <2>2 DEF Placed
  <2>5. ZoneVal(date, time, e) = InZone(date, time, zone, rest)
    BY <1>3, <1>4, <1>5, <1>6, <2>3 DEF ZoneVal, IsUtc
  <2>. QED
    BY <1>7, <1>8, <2>3, <2>4, <2>5
<1>10. CASE ZoneOffset(zone) # "0"
  <2>1. "+" \in Symbol /\ "02" \in Symbol /\ ":" \in Symbol /\ "00" \in Symbol
    BY GroupsAre
  <2>2. PICK e : e = Pre("+", Pre("02", Pre(":", Pre("00", b))))
    OBVIOUS
  <2>3. PICK p, q, r, s : p = "+" /\ q = "02" /\ r = ":" /\ s = "00"
    OBVIOUS
  <2>4. Four(p, q, r, s) /\ e = Pre(p, Pre(q, Pre(r, Pre(s, b))))
    BY <2>1, <2>2, <2>3 DEF Four
  <2>10. b \in Text /\ e = Pre(p, Pre(q, Pre(r, Pre(s, b))))
    BY <1>3, <2>4
  <2>11. Four(p, q, r, s)
    BY <2>4
  <2>5. e \in Text /\ Cur(e) = p /\ Peek(e) = q /\ Cur(Drop(e, 3)) = s /\ Drop(e, 4) = b
    BY <2>10, <2>11, FourFacts
  <2>6. Cur(Drop(e, 2)) = r
    BY <2>10, <2>11, FourFacts
  <2>7. IsOffset(e) /\ ~IsUtc(e)
    BY <2>3, <2>5, <2>6 DEF IsOffset, IsUtc
  <2>8. e = Placed(zone, rest)
    BY <1>2, <1>10, <2>2 DEF Placed
  <2>9. ZoneVal(date, time, e) = InZone(date, time, zone, rest)
    BY <1>3, <1>4, <1>5, <1>6, <2>5, <2>7 DEF ZoneVal
  <2>. QED
    BY <1>7, <1>8, <2>3, <2>5, <2>8, <2>9
<1>. QED
  BY <1>9, <1>10

(* Four texts, and their joining. *)
Texts(a, b, c, d) == a \in Text /\ b \in Text /\ c \in Text /\ d \in Text

LEMMA JoinsFour ==
  ASSUME NEW a, NEW b, NEW c, NEW t, Texts(a, b, c, t)
  PROVE  ((a \o b) \o c) \o t = a \o (b \o (c \o t)) /\ (a \o b) \o c \in Text
<1>0. a \in Text /\ b \in Text /\ c \in Text /\ t \in Text
  BY DEF Texts
<1>1. PICK x \in Text : x = a \o b
  BY <1>0, JoinText
<1>2. PICK y \in Text : y = c \o t
  BY <1>0, JoinText
<1>3. (x \o c) \o t = x \o y
  BY <1>0, <1>2, JoinJoin
<1>4. (a \o b) \o y = a \o (b \o y)
  BY <1>0, JoinJoin
<1>5. x \o c \in Text
  BY <1>0, JoinText
<1>. QED
  BY <1>1, <1>2, <1>3, <1>4, <1>5

(* Seven texts, joined from the left and from the right. *)
OneByOne(a, b, c, d, e, f, t) == (((((a \o b) \o c) \o d) \o e) \o f) \o t
Behind(a, b, c, d, e, f, t) == a \o (b \o (c \o (d \o (e \o (f \o t)))))

LEMMA JoinSeven ==
  ASSUME NEW a, NEW b, NEW c, NEW d, Texts(a, b, c, d), NEW e, NEW f, NEW t, Texts(e, f, t, t)
  PROVE  OneByOne(a, b, c, d, e, f, t) = Behind(a, b, c, d, e, f, t)
<1>1. PICK x : x = (a \o b) \o c /\ x \in Text
  BY JoinsFour
<1>2. Texts(x, d, e, f) /\ d \in Text /\ e \in Text /\ f \in Text /\ t \in Text
  BY <1>1 DEF Texts
<1>3. PICK y : y = (x \o d) \o e /\ y \in Text
  BY <1>2, JoinsFour
<1>4. (y \o f) \o t = y \o (f \o t)
  <2>1. y \in Text /\ f \in Text /\ t \in Text
    BY <1>2, <1>3
  <2>. QED
    BY <2>1, JoinJoin
<1>5. PICK z : z = f \o t /\ z \in Text
  BY <1>2, JoinText
<1>6. Texts(x, d, e, z)
  BY <1>1, <1>2, <1>5 DEF Texts
<1>7. ((x \o d) \o e) \o z = x \o (d \o (e \o z))
  BY <1>6, JoinsFour
<1>8. PICK u : u = e \o z /\ u \in Text
  BY <1>2, <1>5, JoinText
<1>9. PICK w : w = d \o u /\ w \in Text
  BY <1>2, <1>8, JoinText
<1>10. Texts(a, b, c, w)
  BY <1>9 DEF Texts
<1>11. ((a \o b) \o c) \o w = a \o (b \o (c \o w))
  BY <1>10, JoinsFour
<1>. QED
  BY <1>1, <1>3, <1>4, <1>5, <1>7, <1>8, <1>9, <1>11, Zenon DEF OneByOne, Behind

(* Where a DateTime keeps its zone and its offset. *)
LEMMA ZonePlaces ==
  ASSUME NEW zone, NEW n, IsZone(zone, n), NEW o \in Symbol,
         NEW v, v.more = zone \o <<o>>
  PROVE  Zone(v) = zone /\ Offset(v) = o
<1>1. zone \in Text /\ n \in Nat /\ n = Len(zone)
  BY DEF IsZone
<1>2. <<o>> \in Text
  BY DEF Text
<1>3. PICK x \in Text : x = <<o>>
  BY <1>2
<1>4. x # <<>> /\ Len(x) = 1 /\ Cur(x) = o
  BY <1>3 DEF Cur
<1>5. PICK w \in Text : w = zone \o x
  BY <1>1, JoinText
<1>6. Len(w) = n + 1 /\ SubSeq(w, 1, n) = zone
  <2>1. Len(zone \o x) = Len(zone) + Len(x) /\ SubSeq(zone \o x, 1, Len(zone)) = zone
    BY <1>1, JoinText
  <2>. QED
    BY <1>1, <1>4, <1>5, <2>1
<1>7. w[n + 1] = o
  BY <1>1, <1>4, <1>5, JoinPlaces
<1>8. v.more = w /\ Len(w) - 1 = n
  BY <1>1, <1>3, <1>5, <1>6
<1>. QED
  BY <1>6, <1>7, <1>8 DEF Zone, Offset

(* A date and a time in one text, and their places. *)
DateAndTime(m, d, h, i, s, ms) == <<"2010", m, d>> \o <<h, i, s, ms>>

LEMMA DateTimePlaces ==
  ASSUME NEW m \in TwoDigits, NEW d \in TwoDigits,
         NEW h, NEW i, NEW s, NEW ms, Clock(h, i, s, ms), NEW t, t = DateAndTime(m, d, h, i, s, ms)
  PROVE  DateText(t) = <<"2010", "-", m, "-", d>> /\ SubSeq(t, 4, 7) = <<h, i, s, ms>>
<1>1. "2010" \in Symbol /\ m \in Symbol /\ d \in Symbol
  BY GroupsAre
<1>2. Four(h, i, s, ms)
  <2>1. h \in TwoDigits /\ i \in TwoDigits /\ s \in TwoDigits /\ ms \in {"000", "005"}
    BY DEF Clock
  <2>2. ms \in Symbol
    BY <2>1 DEF Symbol, Digits
  <2>. QED
    BY <2>1, <2>2, GroupsAre DEF Four
<1>3. PICK x : x = <<"2010", m, d>>
  OBVIOUS
<1>4. x \in Text /\ Len(x) = 3 /\ x[1] = "2010" /\ x[2] = m /\ x[3] = d
  BY <1>1, <1>3 DEF Text
<1>5. <<h, i, s, ms>> \in Text
  BY <1>2, FourText
<1>6. PICK y \in Text : y = <<h, i, s, ms>>
  BY <1>5
<1>7. Len(y) = 4
  BY <1>6
<1>8. PICK n \in Nat : n = 3 /\ n = Len(x)
  BY <1>4
<1>9. x \in Text
  BY <1>4
<1>10. \A j \in 1..n : (x \o y)[j] = x[j]
  BY <1>8, <1>9, JoinPlaces
<1>11. 1 \in 1..n /\ 2 \in 1..n /\ 3 \in 1..n
  BY <1>8
<1>12. (x \o y)[1] = x[1] /\ (x \o y)[2] = x[2] /\ (x \o y)[3] = x[3]
  BY <1>10, <1>11
<1>13. Len(x \o y) = Len(x) + Len(y) /\ Drop(x \o y, Len(x)) = y
  BY <1>9, JoinText
<1>14. SubSeq(x \o y, 4, 7) = y
  <2>1. Len(x) + Len(y) = 7 /\ Len(x) + 1 = 4
    BY <1>4, <1>7
  <2>. QED
    BY <1>13, <2>1 DEF Drop
<1>15. t = x \o y
  BY <1>3, <1>6 DEF DateAndTime
<1>16. t[1] = "2010" /\ t[2] = m /\ t[3] = d
  BY <1>4, <1>12, <1>15
<1>. QED
  BY <1>6, <1>14, <1>15, <1>16 DEF DateText

(* A time is not nothing. *)
LEMMA FourNotEmpty == \A a, b, c, d : <<a, b, c, d>> # <<>>
  OBVIOUS

(* The offset is printed as it is placed. *)
LEMMA OffsetTextIs ==
  ASSUME NEW zone \in ZoneNames, NEW t \in Text
  PROVE  /\ OffsetText(ZoneOffset(zone)) \in Text
         /\ OffsetText(ZoneOffset(zone)) \o Named(zone, t) = Placed(zone, t)
         /\ zone \in Text /\ ZoneOffset(zone) \in Symbol /\ Named(zone, t) \in Text
<1>1. zone \in Text
  BY ZonesAre DEF IsZone
<1>2. "Z" \in Symbol /\ " " \in Symbol
  BY GroupsAre
<1>3. ZoneOffset(zone) \in {"0", "+2"} /\ ZoneOffset(zone) \in Symbol
  BY DEF ZoneOffset, Symbol, Offsets
<1>4. PICK b \in Text : b = Named(zone, t)
  <2>1. PICK z \in Text : z = zone \o t
    BY <1>1, JoinText
  <2>2. Pre(" ", z) \in Text
    BY <1>2, PreText
  <2>. QED
    BY <2>1, <2>2 DEF Named
<1>5. CASE ZoneOffset(zone) = "0"
  <2>1. OffsetText(ZoneOffset(zone)) = <<"Z">>
    BY <1>5 DEF OffsetText
  <2>2. <<"Z">> \in Text
    <3>1. PICK c \in Symbol : c = "Z"
      BY <1>2
    <3>2. <<c>> \in Text
      BY DEF Text
    <3>. QED
      BY <3>1, <3>2
  <2>3. <<"Z">> \o b = Placed(zone, t)
    BY <1>4, <1>5 DEF Placed, Pre
  <2>. QED
    BY <1>1, <1>3, <1>4, <2>1, <2>2, <2>3
<1>6. CASE ZoneOffset(zone) = "+2"
  <2>1. OffsetText(ZoneOffset(zone)) = <<"+", "02", ":", "00">>
    BY <1>6 DEF OffsetText
  <2>2. PICK p, q, r, s : p = "+" /\ q = "02" /\ r = ":" /\ s = "00"
    OBVIOUS
  <2>3. Four(p, q, r, s)
    BY <2>2, GroupsAre DEF Four
  <2>4. <<p, q, r, s>> \in Text /\ \A x \in Text : <<p, q, r, s>> \o x = Pre(p, Pre(q, Pre(r, Pre(s, x))))
    BY <2>3, FourText
  <2>5. <<p, q, r, s>> \o b = Placed(zone, t)
    BY <1>4, <1>6, <2>2, <2>4 DEF Placed
  <2>. QED
    BY <1>1, <1>3, <1>4, <2>1, <2>2, <2>4, <2>5
<1>. QED
  BY <1>3, <1>5, <1>6

(* A date and time with the offset that its zone has. *)
IsDateTime(v, m, d, h, i, s, ms, zone) ==
  /\ m \in TwoDigits /\ d \in TwoDigits /\ Clock(h, i, s, ms) /\ zone \in ZoneNames
  /\ v = Value("datetime", DateAndTime(m, d, h, i, s, ms), zone \o <<ZoneOffset(zone)>>)

(* What the writer prints for it. *)
LEMMA DateTimeTextIs ==
  ASSUME NEW m, NEW d, NEW h, NEW i, NEW s, NEW ms, NEW zone, NEW v,
         IsDateTime(v, m, d, h, i, s, ms, zone), NEW rest \in Text
  PROVE  ToZinc(v) \o rest
           = <<"2010">> \o DateTail(m, d, Pre("T", Pre(h, TimeTail(i, s, ms, Placed(zone, rest)))))
<1>0. m \in TwoDigits /\ d \in TwoDigits /\ Clock(h, i, s, ms) /\ zone \in ZoneNames
  BY DEF IsDateTime
<1>1. v.kind = "datetime" /\ v.text = DateAndTime(m, d, h, i, s, ms) /\ v.more = zone \o <<ZoneOffset(zone)>>
  BY DEF IsDateTime, Value
<1>2. DateText(v.text) = <<"2010", "-", m, "-", d>> /\ SubSeq(v.text, 4, 7) = <<h, i, s, ms>>
  <2>1. m \in TwoDigits /\ d \in TwoDigits
    BY <1>0
  <2>2. Clock(h, i, s, ms)
    BY <1>0
  <2>. QED
    BY <1>1, <2>1, <2>2, DateTimePlaces
<1>3. PICK o \in Symbol : o = ZoneOffset(zone)
  BY <1>0, OffsetTextIs
<1>4. Zone(v) = zone /\ Offset(v) = o
  BY <1>0, <1>1, <1>3, ZonesAre, ZonePlaces
<1>5. PICK e : e = <<"2010", "-", m, "-", d>>
  OBVIOUS
<1>6. PICK f : f = TimeText(<<h, i, s, ms>>)
  OBVIOUS
<1>7. PICK g : g = OffsetText(o)
  OBVIOUS
<1>8. ToZinc(v) = ((((e \o <<"T">>) \o f) \o g) \o <<" ">>) \o zone
  <2>1. ToZinc(v) = DateTimeText(v)
    BY <1>1 DEF ToZinc
  <2>2. DateText(v.text) = e
    BY <1>2, <1>5
  <2>3. DateTimeText(v) = ((((DateText(v.text) \o <<"T">>) \o TimeText(SubSeq(v.text, 4, 7))) \o OffsetText(Offset(v))) \o <<" ">>) \o Zone(v)
    BY DEF DateTimeText
  <2>. QED
    BY <1>2, <1>4, <1>6, <1>7, <2>1, <2>2, <2>3
<1>9. e \in Text
  <2>1. PICK y, a : y = "2010" /\ a = "-"
    OBVIOUS
  <2>2. Five(y, a, m, a, d)
    BY <1>0, <2>1, GroupsAre DEF Five, Four
  <2>3. <<y, a, m, a, d>> \in Text
    BY <2>2, FiveText
  <2>. QED
    BY <1>5, <2>1, <2>3
<1>10. f \in Text
  BY <1>0, <1>6, TimeTextIs
<1>11. g \in Text /\ zone \in Text
  BY <1>0, <1>3, <1>7, OffsetTextIs
<1>12. <<"T">> \in Text /\ <<" ">> \in Text
  <2>1. \A c \in Symbol : <<c>> \in Text
    BY DEF Text
  <2>2. "T" \in Symbol /\ " " \in Symbol
    BY GroupsAre
  <2>. QED
    BY <2>1, <2>2, Zenon
<1>13. PICK x : x = <<"T">>
  OBVIOUS
<1>14. PICK y : y = <<" ">>
  OBVIOUS
<1>15. Texts(e, x, f, g) /\ Texts(y, zone, rest, rest)
  BY <1>9, <1>10, <1>11, <1>12, <1>13, <1>14 DEF Texts
<1>16. OneByOne(e, x, f, g, y, zone, rest) = Behind(e, x, f, g, y, zone, rest)
  <2>1. Texts(e, x, f, g)
    BY <1>15
  <2>2. Texts(y, zone, rest, rest)
    BY <1>15
  <2>. QED
    BY <2>1, <2>2, JoinSeven
<1>17. y \o (zone \o rest) = Named(zone, rest)
  BY <1>14 DEF Named, Pre
<1>18. g \o Named(zone, rest) = Placed(zone, rest)
  BY <1>0, <1>3, <1>7, OffsetTextIs
<1>19. PICK w \in Text : w = Placed(zone, rest)
  <2>1. Named(zone, rest) \in Text
    BY <1>0, OffsetTextIs
  <2>2. g \o Named(zone, rest) \in Text
    BY <1>11, <2>1, JoinText
  <2>. QED
    BY <1>18, <2>2
<1>20. f \o w = Pre(h, TimeTail(i, s, ms, w))
  BY <1>0, <1>6, TimeTextIs
<1>21. PICK l : l = Pre("T", Pre(h, TimeTail(i, s, ms, w)))
  OBVIOUS
<1>22. x \o (f \o w) = l
  BY <1>13, <1>20, <1>21 DEF Pre
<1>23. l \in Text
  <2>1. f \o w \in Text
    BY <1>10, JoinText
  <2>2. x \o (f \o w) \in Text
    BY <1>12, <1>13, <2>1, JoinText
  <2>. QED
    BY <1>22, <2>2
<1>24. e \o l = <<"2010">> \o DateTail(m, d, l)
  <2>1. PICK u : u = DateTail(m, d, l) /\ IsDateTail(u, m, d, l)
    BY <1>0, <1>23 DEF IsDateTail
  <2>. QED
    BY <1>5, <2>1, DateTailIs
<1>25. ToZinc(v) \o rest = OneByOne(e, x, f, g, y, zone, rest)
  BY <1>8, <1>13, <1>14, Zenon DEF OneByOne
<1>26. Behind(e, x, f, g, y, zone, rest) = e \o l
  BY <1>17, <1>18, <1>19, <1>22, Zenon DEF Behind
<1>. QED
  BY <1>16, <1>19, <1>21, <1>24, <1>25, <1>26, Zenon

(* Dates with times. *)
LEMMA DateTimeReadsBack ==
  ASSUME NEW m, NEW d, NEW h, NEW i, NEW s, NEW ms, NEW zone, NEW v,
         IsDateTime(v, m, d, h, i, s, ms, zone), NEW rest, Ends(rest)
  PROVE  ReadBack(v, rest)
<1>0. m \in TwoDigits /\ d \in TwoDigits /\ Clock(h, i, s, ms) /\ zone \in ZoneNames
  BY DEF IsDateTime
<1>1. rest \in Text
  BY EndsFacts
<1>2. PICK date : date = <<"2010", m, d>>
  OBVIOUS
<1>3. PICK time : time = <<h, i, s, ms>> /\ time # <<>>
  BY FourNotEmpty
<1>4. PICK e : e = Placed(zone, rest)
  OBVIOUS
<1>24. v = Value("datetime", date \o time, zone \o <<ZoneOffset(zone)>>)
  BY <1>2, <1>3 DEF IsDateTime, DateAndTime
<1>5. e \in Text /\ Cur(e) # "." /\ ZoneVal(date, time, e) = Got(v, rest)
  BY <1>0, <1>3, <1>4, <1>24, ZoneValIs
<1>6. PICK w : w = TimeTail(i, s, ms, e)
  OBVIOUS
<1>7. w \in Text /\ Cur(w) = ":" /\ TimeVal(h, w) = Got(time, e)
  BY <1>0, <1>3, <1>5, <1>6, TimeValIs
<1>8. h \in TwoDigits /\ h \in Symbol /\ "T" \in Symbol
  BY <1>0, GroupsAre DEF Clock
<1>9. PICK y \in Text : y = Pre(h, w)
  BY <1>7, <1>8, PreText
<1>10. PICK t \in Text : t = Pre("T", y)
  BY <1>8, PreText
<1>11. PICK u : u = DateTail(m, d, t)
  OBVIOUS
<1>12. u \in Text /\ Cur(u) = "-"
  <2>1. IsDateTail(u, m, d, t)
    BY <1>0, <1>11 DEF IsDateTail
  <2>. QED
    BY <2>1, DateTailIs
<1>13. DateVal("2010", u) = Got(v, rest)
  <2>1. WithTime(h, w, time, e)
    BY <1>5, <1>7, <1>8 DEF WithTime
  <2>2. u = DateTail(m, d, Pre("T", Pre(h, w)))
    BY <1>9, <1>10, <1>11
  <2>3. DateVal("2010", u) = ZoneVal(<<"2010", m, d>>, time, e)
    BY <1>0, <2>1, <2>2, DateTimeValIs
  <2>. QED
    BY <1>2, <1>5, <2>3
<1>14. ToZinc(v) \o rest = <<"2010">> \o u
  <2>1. ToZinc(v) \o rest
           = <<"2010">> \o DateTail(m, d, Pre("T", Pre(h, TimeTail(i, s, ms, Placed(zone, rest)))))
    BY <1>1, DateTimeTextIs
  <2>. QED
    BY <1>4, <1>6, <1>9, <1>10, <1>11, <2>1
<1>15. PICK g \in Digits : g = "2010"
  BY GroupsAre
<1>16. Stops(u)
  <2>1. "-" \notin Digits
    BY NoClass
  <2>. QED
    BY <1>12, <2>1 DEF Stops, Separator
<1>17. IsNumber(<<g>>, 1) /\ Begins(<<g>>, 1) /\ IsNumeral(<<g>>)
  BY GroupIs
<1>18. PICK x : x = <<g>>
  OBVIOUS
<1>19. ReadVal(x \o u, FALSE) = Numbered([val |-> x, rest |-> u])
  BY <1>16, <1>17, <1>18, NumberBegins
<1>20. PICK n : n = [val |-> x, rest |-> u]
  OBVIOUS
<1>21. n.val = <<"2010">> /\ n.val[1] = "2010" /\ n.rest = u /\ IsNumeral(n.val)
  BY <1>15, <1>17, <1>18, <1>20
<1>22. Numbered(n) = DateVal("2010", u)
  BY <1>12, <1>21 DEF Numbered
<1>23. ToZinc(v) \o rest = x \o u
  BY <1>14, <1>15, <1>18
<1>. QED
  BY <1>1, <1>13, <1>19, <1>20, <1>22, <1>23 DEF ReadBack

-----------------------------------------------------------------------------
(* What the reader leaves of a text is the end of that text, whatever it     *)
(* reads and whether it can read it.                                         *)
EndOf(u, t) == t \in Text /\ \E n \in Nat : u = Drop(t, n)

(* The end of an end. *)
LEMMA EndOfFacts ==
  ASSUME NEW t \in Text
  PROVE  /\ EndOf(t, t) /\ EndOf(<<>>, t)
         /\ \A u : EndOf(u, t) => u \in Text /\ \A n \in Nat : EndOf(Drop(u, n), t)
<1>1. PICK m \in Nat : m = Len(t)
  BY TextTypes
<1>2. 0 \in Nat
  OBVIOUS
<1>3. Drop(t, 0) = t /\ Drop(t, m) = <<>>
  <2>1. m >= Len(t)
    BY <1>1
  <2>. QED
    BY <1>2, <2>1, DropFacts DEF Text
<1>4. ASSUME NEW u, EndOf(u, t) PROVE u \in Text /\ \A n \in Nat : EndOf(Drop(u, n), t)
  <2>1. PICK k \in Nat : u = Drop(t, k)
    BY <1>4 DEF EndOf
  <2>2. u \in Text
    BY <2>1, TextTypes
  <2>3. ASSUME NEW n \in Nat PROVE EndOf(Drop(u, n), t)
    <3>1. Drop(u, n) = Drop(t, k + n) /\ k + n \in Nat
      BY <2>1, DropTwice DEF Text
    <3>. QED
      BY <3>1 DEF EndOf
  <2>. QED
    BY <2>2, <2>3
<1>. QED
  BY <1>2, <1>3, <1>4 DEF EndOf

(* The end of what is an end itself. *)
LEMMA EndOfTwice ==
  ASSUME NEW t, NEW u, NEW w, EndOf(u, t), EndOf(w, u)
  PROVE  EndOf(w, t)
<1>1. t \in Text
  BY DEF EndOf
<1>2. PICK n \in Nat : w = Drop(u, n)
  BY DEF EndOf
<1>. QED
  BY <1>1, <1>2, EndOfFacts

(* A run of symbols is as long as a number says. *)
LEMMA RunLength ==
  ASSUME NEW t \in Text, NEW C
  PROVE  Run(t, C) \in Nat
<1>1. Run(t, C) \in 0..Len(t)
  BY RunFacts DEF Text
<1>2. Len(t) \in Nat
  BY TextTypes
<1>. QED
  BY <1>1, <1>2

(* Blanks are passed over. *)
LEMMA SkipEndOf ==
  ASSUME NEW u, NEW t, EndOf(u, t)
  PROVE  EndOf(SkipSpace(u), t)
<1>1. t \in Text
  BY DEF EndOf
<1>2. u \in Text
  BY <1>1, EndOfFacts
<1>3. PICK n \in Nat : n = Run(u, {" ", "\t"})
  BY <1>2, RunLength
<1>. QED
  BY <1>1, <1>3, EndOfFacts DEF SkipSpace

(* A set of numbers that is not empty has its smallest. *)
LEMMA SmallestThere ==
  ASSUME NEW P \in SUBSET Nat, P # {}
  PROVE  Min(P) \in P
<1> DEFINE T == {n \in Nat : \A i \in P : n < i}
<1>1. SUFFICES ASSUME ~\E m \in P : \A n \in P : m <= n
               PROVE  FALSE
  <2>1. \A m \in P : (\A n \in P : m <= n) => Min(P) = m
    BY SmallestIs
  <2>. QED
    BY <2>1
<1>2. 0 \in T
  BY <1>1
<1>3. ASSUME NEW n \in Nat, n \in T PROVE n + 1 \in T
  <2>1. \A i \in P : n < i /\ n + 1 <= i
    BY <1>3
  <2>2. n + 1 \notin P
    BY <1>1, <2>1
  <2>3. \A i \in P : n + 1 < i
    BY <2>1, <2>2
  <2>. QED
    BY <2>3
<1>4. PICK i \in P : i \in Nat
  OBVIOUS
<1>5. i \in T
  <2> HIDE DEF T
  <2>. QED
    BY <1>2, <1>3, <1>4, Induction
<1>. QED
  BY <1>5

(* A number takes at least a symbol. *)
LEMMA NumeralEndOf ==
  ASSUME NEW t \in Text, t # <<>>
  PROVE  EndOf(Numeral(t).rest, t)
<1> DEFINE P == {i \in 1..Len(t) : i = Len(t) \/ ~Goes(t, i + 1)}
<1>1. PICK n \in Nat : n = Len(t) /\ n # 0
  BY TextTypes
<1>2. P \in SUBSET Nat /\ n \in P
  BY <1>1
<1>3. PICK k \in Nat : k = Min(P)
  <2> HIDE DEF P
  <2>. QED
    BY <1>2, SmallestThere
<1>4. Numeral(t).rest = Drop(t, k)
  BY <1>3 DEF Numeral
<1>. QED
  BY <1>4 DEF EndOf

(* What an outcome of the reader leaves of a text. *)
Leaves(r, t) == EndOf(r.rest, t)

(* A failure leaves nothing. *)
LEMMA OutcomesLeave ==
  ASSUME NEW t \in Text
  PROVE  /\ \A how : Leaves(Fail(how), t)
         /\ \A v, u : EndOf(u, t) => Leaves(Got(v, u), t)
         /\ \A r, s : \A n \in Nat : Leaves(r, t) => Leaves(Taken(r, s, n), t)
<1>1. \A how : Leaves(Fail(how), t)
  BY EndOfFacts DEF Fail, Leaves
<1>2. \A v, u : EndOf(u, t) => Leaves(Got(v, u), t)
  BY DEF Got, Leaves
<1>3. \A r, s : \A n \in Nat : Leaves(r, t) => Leaves(Taken(r, s, n), t)
  BY EndOfFacts DEF Taken, Leaves
<1>. QED
  BY <1>1, <1>2, <1>3

(* A turn of either loop over quoted text. *)
LEMMA TurnLeaves ==
  ASSUME NEW t \in Text, NEW r, Leaves(r, t), NEW q
  PROVE  Leaves(Turn(r, q), t)
<1>1. Leaves(Raise, t)
  BY OutcomesLeave DEF Raise
<1>2. \A s : Leaves(Taken(r, s, 1), t) /\ Leaves(Taken(r, s, 2), t) /\ Leaves(Taken(r, s, 3), t)
  <2>1. 1 \in Nat /\ 2 \in Nat /\ 3 \in Nat
    OBVIOUS
  <2>. QED
    BY <2>1, OutcomesLeave
<1>3. Leaves(EscapedChar(r), t)
  BY <1>1, <1>2 DEF EscapedChar
<1>4. Leaves(UriEscape(r), t)
  BY <1>1, <1>2, <1>3 DEF UriEscape
<1>5. \A v : Leaves(Got(v, Drop(r.rest, 1)), t)
  <2>1. EndOf(Drop(r.rest, 1), t)
    <3>1. 1 \in Nat
      OBVIOUS
    <3>. QED
      BY <3>1, EndOfFacts DEF Leaves
  <2>. QED
    BY <2>1, OutcomesLeave
<1>. QED
  BY <1>1, <1>2, <1>3, <1>4, <1>5 DEF Turn

(* The whole loop. *)
LEMMA UnquotedLeaves ==
  ASSUME NEW t \in Text, NEW u, EndOf(u, t), NEW q
  PROVE  Leaves(Unquoted(u, q), t)
<1>1. PICK n \in Nat : n = Len(u) + 1
  <2>1. u \in Text
    BY EndOfFacts
  <2>2. PICK m \in Nat : m = Len(u)
    BY <2>1, TextTypes
  <2>. QED
    BY <2>2
<1>2. PICK f : /\ f[0] = More(<<>>, u)
               /\ \A k \in 1..n : f[k] = Turn(f[k - 1], q)
               /\ Turns(u, q, n) = f[n]
  BY TurnsSteps
<1> DEFINE T == {k \in Nat : k <= n => Leaves(f[k], t)}
<1>3. 0 \in T
  <2>1. More(<<>>, u).rest = u
    BY DEF More
  <2>. QED
    BY <1>2, <2>1 DEF Leaves
<1>4. ASSUME NEW k \in Nat, k \in T PROVE k + 1 \in T
  <2>1. SUFFICES ASSUME k + 1 <= n PROVE Leaves(f[k + 1], t)
    OBVIOUS
  <2>2. k + 1 \in 1..n /\ (k + 1) - 1 = k /\ k <= n
    BY <2>1
  <2>3. f[k + 1] = Turn(f[k], q)
    BY <1>2, <2>2
  <2>4. Leaves(f[k], t)
    BY <1>4, <2>2
  <2>. QED
    BY <2>3, <2>4, TurnLeaves
<1>5. n \in T
  <2> HIDE DEF T
  <2>. QED
    BY <1>3, <1>4, Induction
<1>6. Leaves(f[n], t)
  BY <1>5
<1>. QED
  BY <1>1, <1>2, <1>6 DEF Unquoted

(* Quoted values. *)
LEMMA QuotedLeave ==
  ASSUME NEW t \in Text, NEW u, EndOf(u, t)
  PROVE  Leaves(StrVal(u), t) /\ Leaves(UriVal(u), t) /\ Leaves(RefVal(u), t)
<1>1. \A x, q : EndOf(x, t) => Leaves(Unquoted(x, q), t)
  BY UnquotedLeaves
<1>2. \A x, v : Leaves(x, t) => Leaves(Got(v, x.rest), t)
  BY OutcomesLeave DEF Leaves
<1>3. Leaves(StrVal(u), t)
  BY <1>1, <1>2 DEF StrVal
<1>4. Leaves(UriVal(u), t)
  BY <1>1, <1>2 DEF UriVal
<1>5. ASSUME NEW id, NEW x, EndOf(x, t) PROVE Leaves(RefWithDis(id, x), t)
  <2>1. EndOf(Drop(x, 1), t)
    <3>1. 1 \in Nat
      OBVIOUS
    <3>. QED
      BY <1>5, <3>1, EndOfFacts
  <2>2. PICK dis : dis = Unquoted(Drop(x, 1), "\"") /\ Leaves(dis, t)
    BY <1>1, <2>1
  <2>3. \A v : Leaves(Got(v, x), t) /\ Leaves(Got(v, dis.rest), t)
    BY <1>2, <1>5, <2>2, OutcomesLeave
  <2>. QED
    BY <2>2, <2>3 DEF RefWithDis
<1>6. Leaves(RefVal(u), t)
  <2>1. PICK n \in Nat : n = Run(u, RefChar)
    BY EndOfFacts, RunLength
  <2>2. EndOf(Drop(u, n), t)
    BY EndOfFacts
  <2>3. EndOf(SkipSpace(Drop(u, n)), t)
    BY <2>2, SkipEndOf
  <2>4. Leaves(Raise, t)
    BY OutcomesLeave DEF Raise
  <2>. QED
    BY <1>5, <2>1, <2>3, <2>4 DEF RefVal
<1>. QED
  BY <1>3, <1>4, <1>6

(* What stands in parentheses. *)
LEMMA ContentLeaves ==
  ASSUME NEW t \in Text, NEW u, EndOf(u, t)
  PROVE  Leaves(Content(u), t) /\ Leaves(BinVal(u), t) /\ Leaves(CoordVal(u), t)
<1>1. Leaves(Raise, t)
  BY OutcomesLeave DEF Raise
<1>2. Leaves(Content(u), t)
  <2>1. PICK x : x = Drop(u, 1) /\ EndOf(x, t)
    <3>1. 1 \in Nat
      OBVIOUS
    <3>. QED
      BY <3>1, EndOfFacts
  <2>2. PICK n \in Nat : n = Run(x, Range(x) \ {")", "\n", "\r"})
    BY <2>1, EndOfFacts, RunLength
  <2>3. EndOf(Drop(x, n + 1), t)
    <3>1. n + 1 \in Nat
      OBVIOUS
    <3>. QED
      BY <2>1, <3>1, EndOfFacts
  <2>4. \A v : Leaves(Got(v, Drop(x, n + 1)), t)
    BY <2>3, OutcomesLeave
  <2>. QED
    BY <1>1, <2>1, <2>2, <2>4 DEF Content
<1>3. PICK in : in = Content(u) /\ \A v : Leaves(Got(v, in.rest), t)
  <2>1. EndOf(Content(u).rest, t)
    BY <1>2 DEF Leaves
  <2>. QED
    BY <2>1, OutcomesLeave
<1>. QED
  BY <1>1, <1>2, <1>3 DEF BinVal, CoordVal

(* Words. *)
LEMMA WordLeaves ==
  ASSUME NEW t \in Text, NEW filter
  PROVE  Leaves(WordVal(t, filter), t)
<1>1. Leaves(Raise, t)
  BY OutcomesLeave DEF Raise
<1>2. PICK n \in Nat : n = 1 + Run(Drop(t, 1), Alpha)
  <2>1. Drop(t, 1) \in Text
    BY TextTypes
  <2>2. Run(Drop(t, 1), Alpha) \in Nat
    BY <2>1, RunLength
  <2>. QED
    BY <2>2
<1>3. PICK u : u = Drop(t, n) /\ EndOf(u, t)
  BY DEF EndOf
<1>4. \A v : Leaves(Got(v, u), t)
  BY <1>3, OutcomesLeave
<1>5. Leaves(BinVal(u), t) /\ Leaves(CoordVal(u), t)
  BY <1>3, ContentLeaves
<1>6. \A w : Leaves(Word(w, u), t)
  BY <1>1, <1>4, <1>5 DEF Word
<1>7. \A w : Leaves(FilterWord(w, u), t)
  BY <1>1, <1>4 DEF FilterWord
<1>. QED
  BY <1>2, <1>3, <1>6, <1>7 DEF WordVal

(* Times and dates. *)
LEMMA TimeLeaves ==
  ASSUME NEW t \in Text, NEW u, EndOf(u, t), NEW hour
  PROVE  Leaves(TimeVal(hour, u), t)
<1>1. Leaves(Raise, t)
  BY OutcomesLeave DEF Raise
<1>2. PICK x : x = Drop(u, 4) /\ EndOf(x, t) /\ EndOf(Drop(x, 2), t)
  <2>1. 2 \in Nat /\ 4 \in Nat
    OBVIOUS
  <2>. QED
    BY <2>1, EndOfFacts
<1>3. \A v : Leaves(Got(v, x), t) /\ Leaves(Got(v, Drop(x, 2)), t)
  BY <1>2, OutcomesLeave
<1>. QED
  BY <1>1, <1>2, <1>3 DEF TimeVal

(* The zone behind a time. *)
LEMMA ZoneLeaves ==
  ASSUME NEW t \in Text, NEW u, EndOf(u, t), NEW date, NEW time
  PROVE  Leaves(ZoneVal(date, time, u), t)
<1>1. Leaves(Raise, t)
  BY OutcomesLeave DEF Raise
<1>2. \A zone, x : EndOf(x, t) => Leaves(InZone(date, time, zone, x), t)
  BY OutcomesLeave DEF InZone
<1>3. PICK x : x = (IF IsUtc(u) THEN Drop(u, 1) ELSE Drop(u, 4)) /\ EndOf(x, t)
  <2>1. 1 \in Nat /\ 4 \in Nat
    OBVIOUS
  <2>. QED
    BY <2>1, EndOfFacts
<1>4. PICK zone : zone = SubSeq(x, 2, 1 + Run(Drop(x, 1), TzChar))
  OBVIOUS
<1>5. 1 + Len(zone) \in Nat
  <2>1. x \in Text /\ Drop(x, 1) \in Text
    BY <1>3, EndOfFacts, TextTypes
  <2>2. PICK n \in Nat : n = Run(Drop(x, 1), TzChar)
    BY <2>1, RunLength
  <2>3. Len(SubSeq(x, 2, 1 + n)) \in Nat
    BY <2>1, <2>2
  <2>4. PICK m \in Nat : m = Len(zone)
    BY <1>4, <2>2, <2>3
  <2>. QED
    BY <2>4
<1>6. EndOf(Drop(x, 1 + Len(zone)), t)
  BY <1>3, <1>5, EndOfFacts
<1>. QED
  BY <1>1, <1>2, <1>3, <1>4, <1>6 DEF ZoneVal

(* A date, a time with it. *)
LEMMA DateLeaves ==
  ASSUME NEW t \in Text, NEW u, EndOf(u, t), NEW year
  PROVE  Leaves(DateVal(year, u), t)
<1>1. Leaves(Raise, t)
  BY OutcomesLeave DEF Raise
<1>2. PICK x : x = Drop(u, 4) /\ EndOf(x, t) /\ EndOf(Drop(x, 2), t)
  <2>1. 2 \in Nat /\ 4 \in Nat
    OBVIOUS
  <2>. QED
    BY <2>1, EndOfFacts
<1>3. PICK time : time = TimeVal(Peek(x), Drop(x, 2)) /\ Leaves(time, t)
  BY <1>2, TimeLeaves
<1>4. \A v : Leaves(Got(v, x), t)
  BY <1>2, OutcomesLeave
<1>5. \A date : Leaves(ZoneVal(date, <<>>, Drop(x, 2)), t) /\ Leaves(ZoneVal(date, time.val, time.rest), t)
  <2>1. EndOf(time.rest, t)
    BY <1>3 DEF Leaves
  <2>. QED
    BY <1>2, <2>1, ZoneLeaves
<1>. QED
  BY <1>1, <1>2, <1>3, <1>4, <1>5 DEF DateVal

(* Numbers, and what begins like one. *)
LEMMA NumLeaves ==
  ASSUME NEW t \in Text, t # <<>>
  PROVE  Leaves(NumVal(t), t)
<1>1. Leaves(Raise, t)
  BY OutcomesLeave DEF Raise
<1>2. PICK n : n = Numeral(t) /\ EndOf(n.rest, t)
  BY NumeralEndOf
<1>3. PICK unit \in Nat : unit = Run(n.rest, UnitChar)
  BY <1>2, EndOfFacts, RunLength
<1>4. PICK time : time = TimeVal(n.val[1], n.rest) /\ Leaves(time, t)
  BY <1>2, TimeLeaves
<1>5. Leaves(DateVal(n.val[1], n.rest), t)
  BY <1>2, DateLeaves
<1>6. \A v : Leaves(Got(v, Drop(n.rest, unit)), t) /\ Leaves(Got(v, time.rest), t)
  <2>1. EndOf(Drop(n.rest, unit), t) /\ EndOf(time.rest, t)
    BY <1>2, <1>3, <1>4, EndOfFacts DEF Leaves
  <2>. QED
    BY <2>1, OutcomesLeave
<1>7. Leaves(Numbered(n), t)
  BY <1>1, <1>3, <1>4, <1>5, <1>6 DEF Numbered
<1>. QED
  BY <1>2, <1>7 DEF NumVal

(* Every value, whole or not. *)
LEMMA ReadLeaves ==
  ASSUME NEW t \in Text, NEW filter
  PROVE  Leaves(ReadVal(t, filter), t)
<1>1. Leaves(Raise, t)
  BY OutcomesLeave DEF Raise
<1>2. PICK u : u = Drop(t, 1) /\ EndOf(u, t)
  <2>1. 1 \in Nat
    OBVIOUS
  <2>. QED
    BY <2>1, EndOfFacts
<1>3. Leaves(StrVal(u), t) /\ Leaves(UriVal(u), t) /\ Leaves(RefVal(u), t)
  BY <1>2, QuotedLeave
<1>4. Leaves(WordVal(t, filter), t)
  BY WordLeaves
<1>5. Cur(t) \in Digits \/ Cur(t) = "-" => Leaves(NumVal(t), t)
  <2>1. Cur(<<>>) \notin Digits /\ Cur(<<>>) # "-"
    BY NoClass DEF Cur
  <2>. QED
    BY <2>1, NumLeaves
<1>. QED
  BY <1>1, <1>2, <1>3, <1>4, <1>5 DEF ReadVal
=============================================================================
