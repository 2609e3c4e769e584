---------------------------- MODULE Console_proofs ----------------------------
(***************************************************************************)
(* Theorems about the video console, for a ring and a display of any size. *)
(***************************************************************************)
EXTENDS Console, FiniteSetTheorems, TLAPS

-----------------------------------------------------------------------------
(* Going round the ring.                                                   *)

LEMMA WrapIs ==
  ASSUME NEW p \in 0 .. 2 * RingLength - 1
  PROVE  /\ Wrap(p) = IF p < RingLength THEN p ELSE p - RingLength
         /\ Wrap(p) \in Slots
<1>1. RingLength \in Nat /\ RingLength > 0  BY RingAssumption
<1>2. CASE p < RingLength
  <2>1. p % RingLength = p  BY <1>1, <1>2, SMT
  <2> QED BY <1>1, <1>2, <2>1 DEF Wrap, Slots
<1>3. CASE p >= RingLength
  <2>1. p % RingLength = p - RingLength  BY <1>1, <1>3, SMT
  <2> QED BY <1>1, <1>3, <2>1 DEF Wrap, Slots
<1> QED BY <1>1, <1>2, <1>3

LEMMA DistanceIs ==
  ASSUME NEW p \in Slots, NEW q \in Slots
  PROVE  /\ Distance(p, q) = IF p <= q THEN q - p ELSE q - p + RingLength
         /\ Distance(p, q) \in 0 .. RingLength - 1
<1> DEFINE a == q - p
<1>1. RingLength \in Nat /\ RingLength > 0 /\ a \in 1 - RingLength .. RingLength - 1
  BY RingAssumption DEF Slots
<1>2. CASE a >= 0
  <2>1. a % RingLength = a  BY <1>1, <1>2, SMT
  <2> QED BY <1>1, <1>2, <2>1 DEF Distance, Slots
<1>3. CASE a < 0
  <2>1. a % RingLength = a + RingLength  BY <1>1, <1>3, SMT
  <2> QED BY <1>1, <1>3, <2>1 DEF Distance, Slots
<1> QED BY <1>1, <1>2, <1>3

\* The n-th word after the one at p, and how far it is.
LEMMA Ahead ==
  ASSUME NEW p \in Slots, NEW n \in 0 .. RingLength - 1
  PROVE  /\ Wrap(p + n) \in Slots
         /\ Distance(p, Wrap(p + n)) = n
         /\ \A k \in 0 .. RingLength - 1 - n : Wrap(Wrap(p + n) + k) = Wrap(p + (n + k))
<1>1. RingLength \in Nat /\ p \in 0 .. RingLength - 1  BY RingAssumption DEF Slots
<1>2. p + n \in 0 .. 2 * RingLength - 1  BY <1>1
<1> DEFINE q == Wrap(p + n)
<1>3. /\ q = IF p + n < RingLength THEN p + n ELSE p + n - RingLength
      /\ q \in Slots
  BY <1>1, <1>2, WrapIs
<1>4. Distance(p, q) = n
  <2>1. Distance(p, q) = IF p <= q THEN q - p ELSE q - p + RingLength
    BY <1>3, DistanceIs
  <2> HIDE DEF q
  <2> QED BY <1>1, <1>3, <2>1
<1>5. ASSUME NEW k \in 0 .. RingLength - 1 - n
      PROVE  Wrap(q + k) = Wrap(p + (n + k))
  <2>1. q + k \in 0 .. 2 * RingLength - 1 /\ p + (n + k) \in 0 .. 2 * RingLength - 1
    BY <1>1, <1>3 DEF Slots
  <2>2. /\ Wrap(q + k) = IF q + k < RingLength THEN q + k ELSE q + k - RingLength
        /\ Wrap(p + (n + k)) = IF p + (n + k) < RingLength THEN p + (n + k)
                               ELSE p + (n + k) - RingLength
    BY <1>1, <1>3, <2>1, WrapIs DEF Slots
  <2>3. CASE p + n < RingLength
    <3>1. q = p + n /\ q + k = p + (n + k)  BY <1>1, <1>3, <2>3
    <3> QED BY <1>1, <2>2, <3>1
  <2>4. CASE p + n >= RingLength
    <3>1. q = p + n - RingLength /\ q + k < RingLength /\ p + (n + k) >= RingLength
      BY <1>1, <1>3, <2>4
    <3> QED BY <1>1, <2>2, <3>1
  <2> QED BY <1>1, <2>3, <2>4
<1> QED BY <1>3, <1>4, <1>5

LEMMA Back ==
  ASSUME NEW p \in Slots, NEW q \in Slots
  PROVE  Wrap(p + Distance(p, q)) = q
<1>1. RingLength \in Nat /\ p \in 0 .. RingLength - 1 /\ q \in 0 .. RingLength - 1
  BY RingAssumption DEF Slots
<1>2. /\ Distance(p, q) = IF p <= q THEN q - p ELSE q - p + RingLength
      /\ Distance(p, q) \in 0 .. RingLength - 1
  BY DistanceIs
<1>3. p + Distance(p, q) \in 0 .. 2 * RingLength - 1  BY <1>1, <1>2
<1> QED BY <1>1, <1>2, <1>3, WrapIs

\* Three places, the second not behind the first and the third not behind the
\* second: the distances add up.
LEMMA Between ==
  ASSUME NEW p \in Slots, NEW n \in 0 .. RingLength - 1, NEW q \in Slots,
         n <= Distance(p, q)
  PROVE  Distance(Wrap(p + n), q) = Distance(p, q) - n
<1> DEFINE d == Distance(p, q)
<1>1. d \in 0 .. RingLength - 1 /\ RingLength \in Nat  BY DistanceIs, RingAssumption
<1>2. Wrap(p + n) \in Slots  BY Ahead
<1>3. d - n \in 0 .. RingLength - 1 - n  BY <1>1
<1>4. Wrap(Wrap(p + n) + (d - n)) = Wrap(p + (n + (d - n)))  BY <1>3, Ahead
<1>5. n + (d - n) = d  BY <1>1
<1>6. Wrap(Wrap(p + n) + (d - n)) = q  BY <1>4, <1>5, Back
<1>7. d - n \in 0 .. RingLength - 1  BY <1>1
<1>8. Distance(Wrap(p + n), Wrap(Wrap(p + n) + (d - n))) = d - n  BY <1>2, <1>7, Ahead
<1> QED BY <1>6, <1>8

-----------------------------------------------------------------------------
(* Commands one after the other.                                           *)

\* The n words of m from p on are commands with the words that they say follow
\* them: the places where one starts, counted from p.
Chain(m, p, n) ==
  \E B \in SUBSET (0 .. n) :
    /\ 0 \in B /\ n \in B
    /\ \A b \in B \ {n} :
         LET word == m[Wrap(p + b)]
         IN word[1] # "body" /\ word[2] \in Nat /\ b + word[2] + 1 \in B

\* So do the words of a sequence.
Program(s) ==
  /\ s \in Seq(Words) /\ Len(s) \in Nat
  /\ \E B \in SUBSET (0 .. Len(s)) :
       /\ 0 \in B /\ Len(s) \in B
       /\ \A b \in B \ {Len(s)} :
            s[b + 1][1] # "body" /\ s[b + 1][2] \in Nat /\ b + s[b + 1][2] + 1 \in B

LEMMA ChainNone ==
  ASSUME NEW m, NEW p
  PROVE  Chain(m, p, 0)
<1> DEFINE B == {0}
<1>1. B \in SUBSET (0 .. 0) /\ 0 \in B /\ B \ {0} = {}  OBVIOUS
<1> QED BY <1>1 DEF Chain

\* Only the words it is made of count.
LEMMA ChainKept ==
  ASSUME NEW m, NEW o, NEW p, NEW n \in Nat, Chain(m, p, n),
         \A k \in 0 .. n - 1 : o[Wrap(p + k)] = m[Wrap(p + k)]
  PROVE  Chain(o, p, n)
<1>1. PICK B \in SUBSET (0 .. n) :
        /\ 0 \in B /\ n \in B
        /\ \A b \in B \ {n} : LET word == m[Wrap(p + b)]
             IN word[1] # "body" /\ word[2] \in Nat /\ b + word[2] + 1 \in B
  BY DEF Chain
<1>2. \A b \in B \ {n} : b \in 0 .. n - 1  OBVIOUS
<1>3. \A b \in B \ {n} : LET word == o[Wrap(p + b)]
        IN word[1] # "body" /\ word[2] \in Nat /\ b + word[2] + 1 \in B
  BY <1>1, <1>2
<1> QED BY <1>1, <1>3 DEF Chain

LEMMA ChainJoined ==
  ASSUME NEW m, NEW p \in Slots, NEW n \in Nat, NEW k \in Nat, n + k < RingLength,
         Chain(m, p, n), Chain(m, Wrap(p + n), k)
  PROVE  Chain(m, p, n + k)
<1>1. RingLength \in Nat /\ n \in 0 .. RingLength - 1  BY RingAssumption
<1>2. PICK B \in SUBSET (0 .. n) :
        /\ 0 \in B /\ n \in B
        /\ \A b \in B \ {n} : LET word == m[Wrap(p + b)]
             IN word[1] # "body" /\ word[2] \in Nat /\ b + word[2] + 1 \in B
  BY DEF Chain
<1>3. PICK C \in SUBSET (0 .. k) :
        /\ 0 \in C /\ k \in C
        /\ \A b \in C \ {k} : LET word == m[Wrap(Wrap(p + n) + b)]
             IN word[1] # "body" /\ word[2] \in Nat /\ b + word[2] + 1 \in C
  BY DEF Chain
<1> DEFINE D == B \cup {n + c : c \in C}
<1>4. D \in SUBSET (0 .. n + k) /\ 0 \in D /\ n + k \in D
  <2>1. \A b \in B : b \in 0 .. n + k  BY <1>2
  <2>2. \A c \in C : n + c \in 0 .. n + k  BY <1>3
  <2> QED BY <2>1, <2>2, <1>2, <1>3
<1>5. ASSUME NEW b \in D \ {n + k}
      PROVE  LET word == m[Wrap(p + b)]
             IN word[1] # "body" /\ word[2] \in Nat /\ b + word[2] + 1 \in D
  <2>1. CASE b \in B \ {n}  BY <2>1, <1>2
  <2>2. CASE b \notin B \ {n}
    <3>1. PICK c \in C : b = n + c
      <4>1. CASE b \in B
        <5>1. b = n + 0  BY <2>2, <4>1
        <5> QED BY <5>1, <1>3
      <4> QED BY <4>1
    <3>2. c \in C \ {k} /\ c \in 0 .. RingLength - 1 - n  BY <3>1, <1>1, <1>3
    <3>3. Wrap(Wrap(p + n) + c) = Wrap(p + b)  BY <3>1, <3>2, <1>1, Ahead
    <3> DEFINE word == m[Wrap(p + b)]
    <3>4. word[1] # "body" /\ word[2] \in Nat /\ c + word[2] + 1 \in C
      BY <3>2, <3>3, <1>3
    <3>5. b + word[2] + 1 = n + (c + word[2] + 1)  BY <3>1, <3>2, <3>4
    <3> QED BY <3>4, <3>5
  <2> QED BY <2>1, <2>2
<1> QED BY <1>4, <1>5 DEF Chain

\* The first of the commands, and what is left behind it.
LEMMA ChainStep ==
  ASSUME NEW m, NEW p \in Slots, NEW n \in 1 .. RingLength - 1, Chain(m, p, n)
  PROVE  /\ m[p][1] # "body" /\ m[p][2] \in Nat /\ m[p][2] + 1 <= n
         /\ Chain(m, Wrap(p + m[p][2] + 1), n - (m[p][2] + 1))
<1>1. RingLength \in Nat /\ p \in 0 .. RingLength - 1  BY RingAssumption DEF Slots
<1>2. PICK B \in SUBSET (0 .. n) :
        /\ 0 \in B /\ n \in B
        /\ \A b \in B \ {n} : LET word == m[Wrap(p + b)]
             IN word[1] # "body" /\ word[2] \in Nat /\ b + word[2] + 1 \in B
  BY DEF Chain
<1>3. Wrap(p + 0) = p
  BY <1>1, WrapIs
<1> DEFINE a == m[p][2] + 1
<1>4. m[p][1] # "body" /\ m[p][2] \in Nat /\ a \in B
  <2>1. 0 \in B \ {n}  BY <1>2
  <2>2. m[p][1] # "body" /\ m[p][2] \in Nat /\ 0 + m[p][2] + 1 \in B  BY <2>1, <1>2, <1>3
  <2> QED BY <2>2
<1>5. a \in 1 .. n /\ p + m[p][2] + 1 = p + a  BY <1>4, <1>2, <1>1
<1> DEFINE C == {c \in 0 .. n - a : c + a \in B}
<1>6. C \in SUBSET (0 .. n - a) /\ 0 \in C /\ n - a \in C
  <2>1. 0 \in 0 .. n - a /\ 0 + a = a /\ n - a \in 0 .. n - a /\ (n - a) + a = n  BY <1>5
  <2> HIDE DEF a
  <2> QED BY <2>1, <1>4, <1>2
<1>7. ASSUME NEW c \in C \ {n - a}
      PROVE  LET word == m[Wrap(Wrap(p + a) + c)]
             IN word[1] # "body" /\ word[2] \in Nat /\ c + word[2] + 1 \in C
  <2> HIDE DEF a
  <2>1. c + a \in B \ {n} /\ c \in 0 .. n - a  BY <1>5
  <2>2. a \in 0 .. RingLength - 1 /\ c \in 0 .. RingLength - 1 - a /\ a + c = c + a  BY <2>1, <1>5, <1>1
  <2>3. Wrap(Wrap(p + a) + c) = Wrap(p + (c + a))  BY <2>2, Ahead
  <2> DEFINE word == m[Wrap(p + (c + a))]
  <2>4. word[1] # "body" /\ word[2] \in Nat /\ (c + a) + word[2] + 1 \in B  BY <2>1, <1>2
  <2> HIDE DEF word
  <2>5. (c + word[2] + 1) + a = (c + a) + word[2] + 1 /\ c + word[2] + 1 \in Nat
    BY <2>1, <2>4, <1>5
  <2>6. c + word[2] + 1 \in 0 .. n - a  BY <2>4, <2>5, <1>5, <1>2
  <2>7. c + word[2] + 1 \in C  BY <2>4, <2>5, <2>6
  <2> QED BY <2>3, <2>4, <2>7 DEF word
<1>8. Chain(m, Wrap(p + a), n - a)  BY <1>6, <1>7 DEF Chain
<1> QED BY <1>4, <1>5, <1>8

LEMMA ProgramOne ==
  ASSUME NEW op \in {"set", "depth", "strip", "copy", "rect"}, NEW n \in Nat
  PROVE  Program(P(op, n, n))
<1> DEFINE body == [i \in 1 .. n |-> Body]
           s == P(op, n, n)
<1>1. <<op, n>> \in Words /\ Body \in Words  BY DEF Words, Body
<1>2. <<<<op, n>>>> \in Seq(Words) /\ body \in Seq(Words)  BY <1>1
<1>3. Len(<<<<op, n>>>>) = 1 /\ Len(body) = n  OBVIOUS
<1>4. s = <<<<op, n>>>> \o body  BY DEF P
<1>5. s \in Seq(Words) /\ Len(s) = n + 1 /\ s[1] = <<op, n>>
  <2> HIDE DEF body, s
  <2> QED BY <1>2, <1>3, <1>4
<1> DEFINE B == {0, n + 1}
<1>6. B \in SUBSET (0 .. n + 1) /\ 0 \in B /\ n + 1 \in B  OBVIOUS
<1>7. \A b \in B \ {n + 1} :
        s[b + 1][1] # "body" /\ s[b + 1][2] \in Nat /\ b + s[b + 1][2] + 1 \in B
  <2> HIDE DEF s
  <2> SUFFICES ASSUME NEW b \in B \ {n + 1}
               PROVE  s[b + 1][1] # "body" /\ s[b + 1][2] \in Nat /\ b + s[b + 1][2] + 1 \in B
    OBVIOUS
  <2>1. b = 0 /\ b + 1 = 1  OBVIOUS
  <2>2. s[b + 1] = <<op, n>>  BY <2>1, <1>5
  <2>3. s[b + 1][1] = op /\ s[b + 1][2] = n  BY <2>2
  <2> QED BY <2>1, <2>3
<1> HIDE DEF s, B
<1>8. Len(s) \in Nat  BY <1>5
<1>9. Program(s)  BY <1>5, <1>6, <1>7, <1>8 DEF Program
<1> QED BY <1>9 DEF s

LEMMA ProgramJoined ==
  ASSUME NEW s, NEW t, Program(s), Program(t)
  PROVE  Program(s \o t) /\ Len(s \o t) = Len(s) + Len(t)
<1> DEFINE n == Len(s)  k == Len(t)  u == s \o t
<1>1. s \in Seq(Words) /\ t \in Seq(Words) /\ n \in Nat /\ k \in Nat  BY DEF Program
<1>2. /\ u \in Seq(Words) /\ Len(u) = n + k
      /\ \A i \in 1 .. n : u[i] = s[i]
      /\ \A i \in 1 .. k : u[n + i] = t[i]
  BY <1>1
<1>3. PICK B \in SUBSET (0 .. n) :
        /\ 0 \in B /\ n \in B
        /\ \A b \in B \ {n} :
             s[b + 1][1] # "body" /\ s[b + 1][2] \in Nat /\ b + s[b + 1][2] + 1 \in B
  BY DEF Program
<1>4. PICK C \in SUBSET (0 .. k) :
        /\ 0 \in C /\ k \in C
        /\ \A b \in C \ {k} :
             t[b + 1][1] # "body" /\ t[b + 1][2] \in Nat /\ b + t[b + 1][2] + 1 \in C
  BY DEF Program
<1> DEFINE D == B \cup {n + c : c \in C}
<1> HIDE DEF n, k, u
<1>5. D \in SUBSET (0 .. n + k) /\ 0 \in D /\ n + k \in D
  <2>1. \A b \in B : b \in 0 .. n + k  BY <1>1, <1>3
  <2>2. \A c \in C : n + c \in 0 .. n + k  BY <1>1, <1>4
  <2> QED BY <2>1, <2>2, <1>3, <1>4
<1>6. ASSUME NEW b \in D \ {n + k}
      PROVE  u[b + 1][1] # "body" /\ u[b + 1][2] \in Nat /\ b + u[b + 1][2] + 1 \in D
  <2>1. CASE b \in B \ {n}
    <3>1. n \in Nat /\ b \in 0 .. n /\ b # n  BY <2>1, <1>1, <1>3
    <3>2. b + 1 \in 1 .. n  BY <3>1, Z3
    <3>3. u[b + 1] = s[b + 1]  BY <3>2, <1>2
    <3> QED BY <2>1, <3>3, <1>3
  <2>2. CASE b \notin B \ {n}
    <3>1. PICK c \in C : b = n + c
      <4>1. CASE b \in B
        <5>1. b = n  BY <2>2, <4>1
        <5>2. n + 0 = n  BY <1>1
        <5> QED BY <5>1, <5>2, <1>4
      <4> QED BY <4>1
    <3>2. c \in C \ {k} /\ c + 1 \in 1 .. k /\ b + 1 = n + (c + 1)  BY <3>1, <1>1, <1>4
    <3>3. u[b + 1] = t[c + 1]  BY <3>2, <1>2
    <3> DEFINE word == u[b + 1]
    <3>4. word[1] # "body" /\ word[2] \in Nat /\ c + word[2] + 1 \in C
      BY <3>2, <3>3, <1>4
    <3>5. b + word[2] + 1 = n + (c + word[2] + 1)  BY <3>1, <3>2, <3>4, <1>1
    <3> QED BY <3>4, <3>5
  <2> QED BY <2>1, <2>2
<1>7. n + k \in Nat  BY <1>1
<1> HIDE DEF D
<1>8. /\ D \in SUBSET (0 .. Len(u)) /\ 0 \in D /\ Len(u) \in D
      /\ \A b \in D \ {Len(u)} :
           u[b + 1][1] # "body" /\ u[b + 1][2] \in Nat /\ b + u[b + 1][2] + 1 \in D
  BY <1>2, <1>5, <1>6
<1>9. Program(u)
  <2>1. u \in Seq(Words) /\ Len(u) \in Nat  BY <1>2, <1>7
  <2> QED BY <1>8, <2>1 DEF Program
<1> QED BY <1>2, <1>9 DEF n, k, u

\* What writeRing leaves: the words from the write pointer on, and the others as
\* they were.
LEMMA Written ==
  ASSUME NEW s \in Seq(Words), Len(s) < RingLength, TypeOK, WriteRing(s)
  PROVE  /\ ring' \in [Slots -> Words] /\ writePtr' \in Slots
         /\ Distance(writePtr, writePtr') = Len(s)
         /\ \A k \in 0 .. Len(s) - 1 : ring'[Wrap(writePtr + k)] = s[k + 1]
         /\ \A i \in Slots : Distance(writePtr, i) >= Len(s) => ring'[i] = ring[i]
<1> DEFINE n == Len(s)
<1>1. n \in 0 .. RingLength - 1 /\ writePtr \in Slots /\ ring \in [Slots -> Words]
  BY RingAssumption DEF TypeOK
<1>2. /\ writePtr' = Wrap(writePtr + n)
      /\ ring' = [i \in Slots |-> IF Distance(writePtr, i) < n
                                  THEN s[Distance(writePtr, i) + 1] ELSE ring[i]]
  BY DEF WriteRing
<1>3. writePtr' \in Slots /\ Distance(writePtr, writePtr') = n
  BY <1>1, <1>2, Ahead
<1>4. \A i \in Slots : Distance(writePtr, i) \in 0 .. RingLength - 1
  BY <1>1, DistanceIs
<1>5. \A d \in 0 .. n - 1 : s[d + 1] \in Words
  BY <1>1
<1> HIDE DEF n
<1>6. ring' \in [Slots -> Words]
  <2>1. ASSUME NEW i \in Slots
        PROVE  (IF Distance(writePtr, i) < n
                THEN s[Distance(writePtr, i) + 1] ELSE ring[i]) \in Words
    <3>1. CASE Distance(writePtr, i) < n
      <4>1. Distance(writePtr, i) \in 0 .. n - 1  BY <3>1, <1>1, <1>4
      <4> QED BY <3>1, <4>1, <1>5
    <3>2. CASE ~(Distance(writePtr, i) < n)  BY <3>2, <1>1
    <3> QED BY <3>1, <3>2
  <2> QED BY <2>1, <1>2
<1>7. ASSUME NEW k \in 0 .. n - 1
      PROVE  ring'[Wrap(writePtr + k)] = s[k + 1]
  <2>1. RingLength \in Nat /\ n \in Nat /\ n < RingLength  BY <1>1, RingAssumption
  <2>2. k \in 0 .. RingLength - 1 /\ k < n  BY <2>1
  <2>3. Wrap(writePtr + k) \in Slots /\ Distance(writePtr, Wrap(writePtr + k)) = k
    BY <2>2, <1>1, Ahead
  <2> QED BY <2>2, <2>3, <1>2
<1>8. ASSUME NEW i \in Slots, Distance(writePtr, i) >= n
      PROVE  ring'[i] = ring[i]
  <2> DEFINE d == Distance(writePtr, i)
  <2>1. ~(d < n)
    <3>1. d \in 0 .. RingLength - 1 /\ d >= n  BY <1>4, <1>8
    <3> HIDE DEF d
    <3> QED BY <1>1, <3>1
  <2> QED BY <2>1, <1>2
<1> QED BY <1>3, <1>6, <1>7, <1>8 DEF n

LEMMA ProgramWritten ==
  ASSUME NEW s, Program(s), Len(s) < RingLength, TypeOK, WriteRing(s)
  PROVE  Chain(ring', writePtr, Len(s))
<1> DEFINE n == Len(s)
<1>1. s \in Seq(Words) /\ n \in Nat  BY DEF Program
<1>2. \A k \in 0 .. n - 1 : ring'[Wrap(writePtr + k)] = s[k + 1]
  BY <1>1, Written
<1>3. PICK B \in SUBSET (0 .. n) :
        /\ 0 \in B /\ n \in B
        /\ \A b \in B \ {n} :
             s[b + 1][1] # "body" /\ s[b + 1][2] \in Nat /\ b + s[b + 1][2] + 1 \in B
  BY DEF Program
<1> HIDE DEF n
<1>4. \A b \in B \ {n} : ring'[Wrap(writePtr + b)] = s[b + 1]
  <2>1. \A b \in B \ {n} : b \in 0 .. n - 1  BY <1>1, <1>3
  <2> QED BY <2>1, <1>2
<1>5. \A b \in B \ {n} : LET word == ring'[Wrap(writePtr + b)]
        IN word[1] # "body" /\ word[2] \in Nat /\ b + word[2] + 1 \in B
  BY <1>3, <1>4
<1>6. Chain(ring', writePtr, n)  BY <1>3, <1>5 DEF Chain
<1> QED BY <1>6 DEF n

-----------------------------------------------------------------------------
(* What the driver writes.                                                 *)

Setup == InitState \o InitTargets \o InitPrograms

LEMMA Programs == Program(InitME) /\ Program(Setup) /\ Program(Frame)
<1>1. \A n \in Nat : Program(Set(n))  BY ProgramOne DEF Set
<1>2. Program(Set(1)) /\ Program(Set(2)) /\ Program(Set(3)) /\ Program(Set(4))
      /\ Program(Set(5)) /\ Program(Set(7))
  BY <1>1
<1>3. \A s, t : Program(s) /\ Program(t) => Program(s \o t)  BY ProgramJoined
<1>4. Program(InitME)  BY ProgramOne DEF InitME
<1>5. Program(P("depth", 2, 2)) /\ Program(P("strip", 2, 2)) /\ Program(P("copy", 2, 2))
      /\ Program(P("rect", 2, 2)) /\ Program(P("set", 23, 23)) /\ Program(P("set", 14, 14))
  BY ProgramOne
<1>6. Program(InitState)  BY <1>2, <1>3, Zenon DEF InitState
<1>7. Program(InitTargets)  BY <1>2, <1>3, Zenon DEF InitTargets
<1>8. Program(InitPrograms)
  <2>1. 2 + 21 = 23 /\ 2 + 7 * 3 = 23 /\ 2 + 12 = 14 /\ 2 + 4 * 3 = 14  OBVIOUS
  <2>2. InitPrograms = P("set", 23, 23) \o Set(2) \o P("set", 14, 14)
    BY <2>1 DEF InitPrograms
  <2> QED BY <1>2, <1>3, <1>5, <2>2, Zenon
<1>9. Program(Setup)  BY <1>3, <1>6, <1>7, <1>8, Zenon DEF Setup
<1>10. Program(Frame)  BY <1>3, <1>5, Zenon DEF Frame
<1> QED BY <1>4, <1>9, <1>10

-----------------------------------------------------------------------------
(* Types, and what goes with where the two starts are.                     *)

Phases ==
  /\ pe = "map" => surface = LoaderSurface /\ xc = "off"
  /\ pe \in {"start", "patch", "up", "failed"} => surface = BufferAfter(LoaderSurface)
  /\ xc # "off" => pe = "up"
  /\ xc \in {"off", "shaders", "hardware", "wild"} => ~firmware
  /\ xc \in {"off", "shaders", "hardware"} => writePtr = 0
  /\ xcArmed => xc = "running" /\ xcHandler = "none"
  /\ xcHandler # "none" => xc = "running"

\* Only between its two halves has stopFramebuffer disabled the timer and not
\* said so: what else enables it waits for that.
TimerInv ==
  /\ xc = "cancel" => ~peEnabled
  /\ stopped => ~peEnabled /\ xc \in {"arm", "running"}

Inv == TypeOK /\ Phases /\ TimerInv /\ BuffersAgree

LEMMA Lengths ==
  /\ Len(InitME) \in Nat /\ Len(Setup) \in Nat /\ Len(Frame) \in Nat
  /\ Len(InitME) + Len(Setup) + Len(Frame) < RingLength
  /\ Backlog + Len(Setup) + Len(Frame) < RingLength
  /\ InitME \in Seq(Words) /\ Setup \in Seq(Words) /\ Frame \in Seq(Words)
  /\ RingLength \in Nat
<1>1. /\ Len(InitME) \in Nat /\ Len(Setup) \in Nat /\ Len(Frame) \in Nat
      /\ InitME \in Seq(Words) /\ Setup \in Seq(Words) /\ Frame \in Seq(Words)
  BY Programs DEF Program
<1>2. /\ Len(InitME) + (Len(Setup) + Len(Frame)) < RingLength
      /\ Backlog + (Len(Setup) + Len(Frame)) < RingLength
      /\ RingLength \in Nat /\ Backlog \in Nat
  BY RoomAssumption, RingAssumption DEF RingHolds, Setup
<1> HIDE DEF Setup
<1> QED BY <1>1, <1>2

LEMMA InvInit == Init => Inv
<1> SUFFICES ASSUME Init PROVE Inv
  OBVIOUS
<1>1. 0 \in Slots  BY RingAssumption DEF Slots
<1>2. ring \in [Slots -> Words]  BY DEF Init, Body, Words
<1>3. /\ ring \in [Slots -> Words] /\ memory \in [Slots -> Words]
      /\ writePtr \in Slots /\ regPtr \in Slots /\ readPtr \in Slots
  BY <1>1, <1>2 DEF Init
<1>4. /\ spoiled = {} /\ stale = {} /\ old = Regions /\ gpuAddr = 0 /\ fbAddr = 0 /\ surface = 1
      /\ pe = "map" /\ peEnabled = FALSE /\ peArmed = FALSE /\ peHandler = "none"
      /\ stopped = FALSE /\ xc = "off" /\ xcArmed = FALSE /\ xcHandler = "none"
      /\ firmware = FALSE /\ mode = "none" /\ lost = FALSE
  BY DEF Init, LoaderSurface
<1>5. TypeOK
  <2>1. spoiled \subseteq Pixels /\ stale \subseteq Regions /\ old \subseteq Regions
        /\ {firmware, lost} \subseteq BOOLEAN
    BY <1>4, Zenon
  <2>2. surface \in 1 .. 2 /\ gpuAddr \in 0 .. 2 /\ fbAddr \in 0 .. 1  BY <1>4
  <2> QED BY <1>3, <1>4, <2>1, <2>2 DEF TypeOK
<1> QED BY <1>5 DEF Init, Inv, Phases, TimerInv, BuffersAgree, LoaderSurface

LEMMA InvNext == Inv /\ [Next]_vars => Inv'
<1> SUFFICES ASSUME Inv, [Next]_vars PROVE Inv'
  OBVIOUS
<1> USE DEF Inv, TypeOK, Phases, TimerInv, BuffersAgree, LoaderSurface, BufferAfter,
        peVars, timer, xcVars, ringVars, xcTimer, gpuVars, picture
<1>1. CASE MapGPU
  <2>1. spoiled' \subseteq Pixels  BY <1>1 DEF MapGPU, Garbled
  <2>2. CASE pe' = "unmapped"  BY <1>1, <2>1, <2>2 DEF MapGPU
  <2>3. CASE pe' # "unmapped"
    <3>1. /\ pe = "map" /\ pe' = "start" /\ peEnabled' = TRUE /\ surface' = 2
          /\ stale' = {} /\ UNCHANGED <<old, peArmed, peHandler, stopped>>
          /\ UNCHANGED <<xc, xcVars, ringVars, xcTimer, gpuVars>>
      BY <1>1, <2>3 DEF MapGPU, SurfaceSwitched
    <3> QED BY <2>1, <3>1
  <2> QED BY <2>2, <2>3
<1>2. CASE PEStartFramebuffer  BY <1>2 DEF PEStartFramebuffer, StartFramebuffer
<1>3. CASE PEFinish  BY <1>3 DEF PEFinish
<1>4. CASE CallStartFB  BY <1>4 DEF CallStartFB, StartFramebuffer
<1>5. CASE PEExpire  BY <1>5 DEF PEExpire
<1>6. CASE RefreshFramebuffer  BY <1>6 DEF RefreshFramebuffer
<1>7. CASE HandleFramebufferTimer  BY <1>7 DEF HandleFramebufferTimer, PERearm
<1>8. CASE MapRegisters  BY <1>8 DEF MapRegisters, BufferBefore
<1>9. CASE InitShaders  BY <1>9 DEF InitShaders
<1>10. CASE InitHardware
  <2>1. CASE xc' = "wild"  BY <1>10, <2>1 DEF InitHardware
  <2>2. CASE xc' # "wild"
    <3>1. WriteRing(InitME) /\ Len(InitME) < RingLength  BY <1>10, <2>2, Lengths DEF InitHardware
    <3>2. ring' \in [Slots -> Words] /\ writePtr' \in Slots /\ memory' = memory
      BY <3>1, Lengths, Written DEF WriteRing
    <3>3. 0 \in Slots  BY RingAssumption DEF Slots
    <3>4. /\ xc = "hardware" /\ xc' = "sync" /\ firmware' \in BOOLEAN
          /\ regPtr' = 0 /\ readPtr' = 0 /\ UNCHANGED <<mode, lost>>
          /\ UNCHANGED <<peVars, timer, gpuAddr, fbAddr, xcTimer, picture>>
      BY <1>10, <2>2 DEF InitHardware, LoadFirmware
    <3>5. TypeOK'  BY <3>2, <3>3, <3>4
    <3>6. Phases' /\ TimerInv' /\ BuffersAgree'  BY <3>4
    <3> QED BY <3>5, <3>6
  <2> QED BY <2>1, <2>2
<1>11. CASE SyncHardware  BY <1>11 DEF SyncHardware, SyncData
<1>12. CASE KickHardware  BY <1>12 DEF KickHardware
<1>13. CASE InitFramebuffer
  <2>1. WriteRing(Setup) /\ Len(Setup) < RingLength  BY <1>13, Lengths DEF InitFramebuffer, Setup
  <2>2. ring' \in [Slots -> Words] /\ writePtr' \in Slots /\ memory' = memory
    BY <2>1, Lengths, Written DEF WriteRing
  <2>3. /\ xc = "framebuffer" /\ xc' = "timer"
        /\ UNCHANGED <<peVars, timer, xcVars, xcTimer, gpuVars, picture>>
    BY <1>13 DEF InitFramebuffer
  <2> QED BY <2>2, <2>3
<1>14. CASE InitTimer  BY <1>14 DEF InitTimer
<1>15. CASE StopFramebuffer  BY <1>15 DEF StopFramebuffer, Disabled
<1>16. CASE CancelFramebuffer  BY <1>16 DEF CancelFramebuffer
<1>17. CASE ArmTimer  BY <1>17 DEF ArmTimer
<1>18. CASE HandleTimer
  <2>1. WriteRing(Frame) /\ Len(Frame) < RingLength  BY <1>18, Lengths DEF HandleTimer
  <2>2. ring' \in [Slots -> Words] /\ writePtr' \in Slots /\ memory' = memory
    BY <2>1, Lengths, Written DEF WriteRing
  <2>3. /\ xc = "running" /\ xcArmed' = FALSE /\ xcHandler' = "sync"
        /\ UNCHANGED <<peVars, timer, xc, xcVars, gpuVars, picture>>
    BY <1>18 DEF HandleTimer
  <2>4. memory' \in [Slots -> Words] /\ xcArmed' \in BOOLEAN  BY <2>2, <2>3
  <2>5. TypeOK'
    <3> HIDE DEF Phases, TimerInv, BuffersAgree
    <3> QED BY <2>2, <2>3, <2>4
  <2>6. Phases' /\ TimerInv' /\ BuffersAgree'  BY <2>3
  <2> QED BY <2>5, <2>6
<1>19. CASE SyncTimer  BY <1>19 DEF SyncTimer, SyncData
<1>20. CASE KickTimer  BY <1>20 DEF KickTimer
<1>21. CASE GpuStep
  <2> DEFINE op == memory[readPtr][1]
             n  == memory[readPtr][2]
  <2>1. memory[readPtr] \in Words  OBVIOUS
  <2>2. n \in Nat  BY <2>1 DEF Words
  <2>3. readPtr' \in Slots
    <3>1. CASE op = "body" \/ Unread < n + 1  BY <1>21, <3>1 DEF GpuStep
    <3>2. CASE ~(op = "body" \/ Unread < n + 1)
      <4>1. Unread \in 0 .. RingLength - 1  BY DistanceIs DEF Unread
      <4>2. n + 1 \in 0 .. RingLength - 1  BY <2>2, <3>2, <4>1, RingAssumption
      <4>3. readPtr' = Wrap(readPtr + n + 1)  BY <1>21, <3>2 DEF GpuStep
      <4>4. readPtr + n + 1 = readPtr + (n + 1)  BY <2>2 DEF Slots
      <4> QED BY <4>2, <4>3, <4>4, Ahead
    <3> QED BY <3>1, <3>2
  <2>4. mode' \in {"none", "depth", "copy"} /\ lost' \in BOOLEAN
    BY <1>21 DEF GpuStep
  <2>5. stale' \subseteq Regions /\ old' \subseteq Regions
    BY <1>21 DEF GpuStep
  <2>6. UNCHANGED <<peVars, timer, xc, xcVars, ringVars, xcTimer, regPtr>>
    BY <1>21 DEF GpuStep
  <2> QED BY <2>3, <2>4, <2>5, <2>6
<1>22. CASE Draw  BY <1>22 DEF Draw
<1>23. CASE UNCHANGED vars  BY <1>23 DEF vars
<1> QED BY <1>1, <1>2, <1>3, <1>4, <1>5, <1>6, <1>7, <1>8, <1>9, <1>10, <1>11, <1>12,
           <1>13, <1>14, <1>15, <1>16, <1>17, <1>18, <1>19, <1>20, <1>21, <1>22, <1>23
        DEF Next, PETimer, XCStart, XCTimer

\* Every reachable state has the types of TypeOK, and what the controller and the
\* console have to do with each other depends on how far their starts are.
THEOREM TypeCorrect == Spec => [](TypeOK /\ Phases)
<1>1. Inv => TypeOK /\ Phases  BY DEF Inv
<1> QED BY <1>1, InvInit, InvNext, PTL DEF Spec

\* Once stopFramebuffer is through, the timer stays quiet, whatever its handler
\* does meanwhile.
THEOREM TimerStaysQuiet == Spec => []StopHolds
<1>1. Inv => StopHolds  BY DEF Inv, TimerInv, StopHolds
<1> QED BY <1>1, InvInit, InvNext, PTL DEF Spec

\* The buffer the controller draws to is the one the display shows, and the one
\* it draws from is the console's.
THEOREM BuffersAlwaysAgree == Spec => []BuffersAgree
<1>1. Inv => BuffersAgree  BY DEF Inv
<1> QED BY <1>1, InvInit, InvNext, PTL DEF Spec

\* Someone has a timer for the screen: the platform expert once its start has gone
\* that far, until the controller's start takes it away; and the controller as soon
\* as it runs.  The handler of each sets it again.
ScreenTimed ==
  /\ pe \in {"patch", "up", "failed"} =>
       \/ peEnabled /\ (peArmed \/ peHandler # "none")
       \/ xc \in {"cancel", "arm", "running"}
  /\ xc = "running" => xcArmed \/ xcHandler # "none"

LEMMA TimedStep == TypeOK /\ ScreenTimed /\ [Next]_vars => ScreenTimed'
<1> SUFFICES ASSUME TypeOK, ScreenTimed, [Next]_vars PROVE ScreenTimed'
  OBVIOUS
<1> USE DEF ScreenTimed, peVars, timer, xcVars, xcTimer
<1>1. CASE MapGPU              BY <1>1 DEF MapGPU
<1>2. CASE PEStartFramebuffer  BY <1>2 DEF PEStartFramebuffer, StartFramebuffer
<1>3. CASE PEFinish            BY <1>3 DEF PEFinish
<1>4. CASE CallStartFB         BY <1>4 DEF CallStartFB, StartFramebuffer
<1>5. CASE PETimer
  <2>1. CASE PEExpire           BY <2>1 DEF PEExpire
  <2>2. CASE RefreshFramebuffer
    BY <2>2 DEF RefreshFramebuffer
  <2>3. CASE HandleFramebufferTimer
    BY <2>3 DEF HandleFramebufferTimer, PERearm
  <2> QED  BY <1>5, <2>1, <2>2, <2>3 DEF PETimer
<1>6. CASE XCStart
  <2>1. CASE MapRegisters \/ InitShaders \/ InitHardware
    BY <2>1 DEF MapRegisters, InitShaders, InitHardware
  <2>2. CASE SyncHardware \/ KickHardware \/ InitFramebuffer \/ InitTimer
    BY <2>2 DEF SyncHardware, KickHardware, InitFramebuffer, InitTimer
  <2>3. CASE StopFramebuffer    BY <2>3 DEF StopFramebuffer
  <2>4. CASE CancelFramebuffer  BY <2>4 DEF CancelFramebuffer
  <2>5. CASE ArmTimer           BY <2>5 DEF ArmTimer
  <2> QED  BY <1>6, <2>1, <2>2, <2>3, <2>4, <2>5 DEF XCStart
<1>7. CASE XCTimer
  <2>1. CASE HandleTimer  BY <2>1 DEF HandleTimer
  <2>2. CASE SyncTimer    BY <2>2 DEF SyncTimer
  <2>3. CASE KickTimer    BY <2>3 DEF KickTimer
  <2> QED  BY <1>7, <2>1, <2>2, <2>3 DEF XCTimer
<1>8. CASE GpuStep  BY <1>8 DEF GpuStep
<1>9. CASE Draw     BY <1>9 DEF Draw
<1>10. CASE UNCHANGED vars  BY <1>10 DEF vars
<1> QED
  BY <1>1, <1>2, <1>3, <1>4, <1>5, <1>6, <1>7, <1>8, <1>9, <1>10 DEF Next

\* Neither the failures of the two starts nor the handover between them leave the
\* screen with nobody whose timer goes off to refresh it.
THEOREM ScreenAlwaysTimed == Spec => []ScreenTimed
<1>1. Init => ScreenTimed  BY DEF Init, ScreenTimed
<1> QED  BY TypeCorrect, TimedStep, <1>1, PTL DEF Spec

-----------------------------------------------------------------------------
(* The GPU stays in step with the driver.                                  *)

\* Words written that the GPU was not told of.
Pending == Distance(regPtr, writePtr)

\* From the word the GPU reads next to the last one written the ring holds whole
\* commands, as the GPU sees them up to the pointer it was given, and the driver
\* has not come round to the first of them.
Chained ==
  /\ Unread + Pending < RingLength
  /\ Chain(memory, readPtr, Unread)
  /\ Chain(ring, regPtr, Pending)
  /\ \A k \in 0 .. Unread - 1 : ring[Wrap(readPtr + k)] = memory[Wrap(readPtr + k)]

\* How much is written and not said, by where the driver is.
Lagging ==
  /\ xc = "kick" \/ xcHandler = "kick" => memory = ring
  /\ xc \in {"sync", "kick"} => Unread = 0 /\ Pending = Len(InitME)
  /\ xc = "framebuffer" => Unread <= Len(InitME) /\ Pending = 0
  /\ xc \in {"timer", "stop", "cancel", "arm", "running"} /\ xcHandler = "none" =>
       Pending <= Len(Setup)

CommandInv == GpuInStep /\ (firmware => Chained /\ Lagging)

LEMMA Counts ==
  ASSUME TypeOK
  PROVE  /\ RingLength \in Nat /\ RingLength > 0
         /\ Unread \in 0 .. RingLength - 1 /\ Pending \in 0 .. RingLength - 1
         /\ Wrap(readPtr + Unread) = regPtr
         /\ Wrap(regPtr + Pending) = writePtr
BY DistanceIs, Back, RingAssumption DEF TypeOK, Unread, Pending

\* A place k words from p is far behind one that is n words from p, for k < n.
LEMMA Behind ==
  ASSUME NEW p \in Slots, NEW n \in 0 .. RingLength - 1, NEW k \in 0 .. n - 1
  PROVE  Distance(Wrap(p + n), Wrap(p + k)) = RingLength - (n - k)
<1>1. RingLength \in Nat /\ p \in 0 .. RingLength - 1 /\ k \in 0 .. RingLength - 1
  BY RingAssumption DEF Slots
<1>2. p + n \in 0 .. 2 * RingLength - 1 /\ p + k \in 0 .. 2 * RingLength - 1
  BY <1>1
<1> DEFINE q == Wrap(p + n)  r == Wrap(p + k)
<1>3. /\ q = IF p + n < RingLength THEN p + n ELSE p + n - RingLength
      /\ r = IF p + k < RingLength THEN p + k ELSE p + k - RingLength
      /\ q \in Slots /\ r \in Slots
  BY <1>1, <1>2, WrapIs
<1>4. Distance(q, r) = IF q <= r THEN r - q ELSE r - q + RingLength
  BY <1>3, DistanceIs
<1> HIDE DEF q, r
<1>5. Distance(q, r) = RingLength - (n - k)
  <2>1. CASE p + n < RingLength  BY <1>1, <1>3, <1>4, <2>1
  <2>2. CASE p + n >= RingLength /\ p + k < RingLength  BY <1>1, <1>3, <1>4, <2>2
  <2>3. CASE p + k >= RingLength  BY <1>1, <1>3, <1>4, <2>3
  <2> QED BY <1>1, <2>1, <2>2, <2>3
<1> QED BY <1>5 DEF q, r

\* writeRing puts a program behind what is in the ring.
LEMMA ChainedWrite ==
  ASSUME NEW s, TypeOK, Chained, Program(s), WriteRing(s),
         Unread + Pending + Len(s) < RingLength, UNCHANGED <<regPtr, readPtr>>
  PROVE  Chained' /\ Pending' = Pending + Len(s) /\ Unread' = Unread
<1> DEFINE n == Len(s)
<1>1. s \in Seq(Words) /\ n \in Nat /\ n < RingLength
  BY Counts DEF Program
<1>2. /\ ring' \in [Slots -> Words] /\ writePtr' \in Slots
      /\ writePtr' = Wrap(writePtr + n)
      /\ \A i \in Slots : Distance(writePtr, i) >= n => ring'[i] = ring[i]
      /\ memory' = memory
  BY <1>1, Written DEF WriteRing
<1>3. Chain(ring', writePtr, n)  BY <1>1, ProgramWritten
<1>4. readPtr \in Slots /\ regPtr \in Slots /\ writePtr \in Slots  BY DEF TypeOK
<1> DEFINE u == Unread  w == Pending
<1>5. /\ u \in 0 .. RingLength - 1 /\ w \in 0 .. RingLength - 1 /\ RingLength \in Nat
      /\ u + w + n < RingLength
      /\ Wrap(readPtr + u) = regPtr /\ Wrap(regPtr + w) = writePtr
  BY Counts
<1>6. Unread' = u  BY DEF Unread
<1>7. Chain(memory', readPtr', u)  BY <1>2 DEF Chained
<1> HIDE DEF n, u, w
<1>8. ASSUME NEW k \in 0 .. w - 1
      PROVE  ring'[Wrap(regPtr + k)] = ring[Wrap(regPtr + k)]
  <2>1. k \in 0 .. RingLength - 1  BY <1>5
  <2>2. Wrap(regPtr + k) \in Slots  BY <2>1, <1>4, Ahead
  <2>3. Distance(writePtr, Wrap(regPtr + k)) = RingLength - (w - k)
    BY <1>4, <1>5, Behind
  <2>4. RingLength - (w - k) >= n  BY <1>1, <1>5
  <2> QED BY <1>2, <2>2, <2>3, <2>4
<1>9. ASSUME NEW k \in 0 .. u - 1
      PROVE  ring'[Wrap(readPtr + k)] = ring[Wrap(readPtr + k)]
  <2>1. k \in 0 .. RingLength - 1 /\ u + w \in 0 .. RingLength - 1 /\ k \in 0 .. u + w - 1
        /\ w \in 0 .. RingLength - 1 - u
    BY <1>1, <1>5
  <2>2. Wrap(readPtr + k) \in Slots  BY <2>1, <1>4, Ahead
  <2>3. Wrap(readPtr + (u + w)) = writePtr
    <3>1. Wrap(Wrap(readPtr + u) + w) = Wrap(readPtr + (u + w))  BY <2>1, <1>4, <1>5, Ahead
    <3> QED BY <3>1, <1>5
  <2>4. Distance(writePtr, Wrap(readPtr + k)) = RingLength - ((u + w) - k)
    <3> DEFINE v == u + w
    <3>1. v \in 0 .. RingLength - 1 /\ k \in 0 .. v - 1  BY <1>1, <1>5, <2>1
    <3> HIDE DEF v
    <3>2. Distance(Wrap(readPtr + v), Wrap(readPtr + k)) = RingLength - (v - k)
      BY <1>4, <3>1, Behind
    <3> QED BY <3>2, <2>3 DEF v
  <2>5. RingLength - ((u + w) - k) >= n  BY <1>1, <1>5
  <2> QED BY <1>2, <2>2, <2>4, <2>5
<1>10. Chain(ring', regPtr, w)
  <2>1. Chain(ring, regPtr, w)  BY DEF Chained, w
  <2> QED BY <2>1, <1>5, <1>8, ChainKept
<1>11. Chain(ring', regPtr, w + n)
  BY <1>1, <1>3, <1>4, <1>5, <1>10, ChainJoined
<1>12. Pending' = w + n
  <2>1. n \in 0 .. RingLength - 1 - w /\ w + n \in 0 .. RingLength - 1  BY <1>1, <1>5
  <2>2. writePtr' = Wrap(regPtr + (w + n))
    <3>1. Wrap(Wrap(regPtr + w) + n) = Wrap(regPtr + (w + n))  BY <2>1, <1>4, <1>5, Ahead
    <3> QED BY <3>1, <1>2, <1>5
  <2>3. Distance(regPtr, Wrap(regPtr + (w + n))) = w + n  BY <2>1, <1>4, Ahead
  <2> QED BY <2>2, <2>3 DEF Pending
<1>13. \A k \in 0 .. u - 1 : ring'[Wrap(readPtr' + k)] = memory'[Wrap(readPtr' + k)]
  BY <1>2, <1>9 DEF Chained, u
<1>14. u + (w + n) < RingLength  BY <1>1, <1>5
<1>15. Chained'
  <2>1. Unread' + Pending' < RingLength  BY <1>6, <1>12, <1>14
  <2>2. Chain(memory', readPtr', Unread')  BY <1>6, <1>7
  <2>3. Chain(ring', regPtr', Pending')  BY <1>11, <1>12
  <2> QED BY <2>1, <2>2, <2>3, <1>6, <1>13 DEF Chained
<1> QED BY <1>6, <1>12, <1>15 DEF n, u, w

\* The GPU is told of all that is written, once the ring is in memory.
LEMMA ChainedKick ==
  ASSUME TypeOK, Chained, memory = ring, regPtr' = writePtr,
         UNCHANGED <<ring, memory, writePtr, readPtr>>
  PROVE  Chained' /\ Pending' = 0 /\ Unread' = Unread + Pending
<1> DEFINE u == Unread  w == Pending
<1>1. /\ u \in 0 .. RingLength - 1 /\ w \in 0 .. RingLength - 1 /\ RingLength \in Nat
      /\ RingLength > 0
      /\ Wrap(readPtr + u) = regPtr /\ Wrap(regPtr + w) = writePtr
  BY Counts
<1>2. readPtr \in Slots /\ regPtr \in Slots /\ writePtr \in Slots  BY DEF TypeOK
<1>3. u + w < RingLength /\ Chain(memory, readPtr, u) /\ Chain(ring, regPtr, w)
  BY DEF Chained
<1> HIDE DEF u, w
<1>4. w \in 0 .. RingLength - 1 - u /\ u + w \in 0 .. RingLength - 1  BY <1>1, <1>3
<1>5. Chain(memory, readPtr, u + w)  BY <1>1, <1>2, <1>3, ChainJoined
<1>6. Wrap(readPtr + (u + w)) = writePtr
  <2>1. Wrap(Wrap(readPtr + u) + w) = Wrap(readPtr + (u + w))  BY <1>1, <1>2, <1>4, Ahead
  <2> QED BY <2>1, <1>1
<1>7. Unread' = u + w
  <2>1. Distance(readPtr, Wrap(readPtr + (u + w))) = u + w  BY <1>2, <1>4, Ahead
  <2> QED BY <1>6, <2>1 DEF Unread
<1>8. Pending' = 0
  <2>1. writePtr \in Nat /\ writePtr <= writePtr /\ writePtr - writePtr = 0
    BY <1>2 DEF Slots
  <2>2. Distance(writePtr, writePtr) = 0
    BY <1>2, <2>1, DistanceIs
  <2> QED BY <2>2 DEF Pending
<1>9. Chained'
  <2>1. Unread' + Pending' < RingLength  BY <1>3, <1>7, <1>8, <1>1
  <2>2. Chain(memory', readPtr', Unread')  BY <1>5, <1>7
  <2>3. Chain(ring', regPtr', Pending')  BY <1>8, ChainNone
  <2>4. ring' = memory'  OBVIOUS
  <2> QED BY <2>1, <2>2, <2>3, <2>4 DEF Chained
<1> QED BY <1>7, <1>8, <1>9 DEF u, w

\* syncData only makes the GPU see what is in the ring.
LEMMA ChainedSync ==
  ASSUME TypeOK, Chained, SyncData, UNCHANGED <<regPtr, readPtr>>
  PROVE  Chained' /\ Pending' = Pending /\ Unread' = Unread
<1>1. memory' = ring /\ ring' = ring /\ writePtr' = writePtr  BY DEF SyncData
<1>2. Unread' = Unread /\ Pending' = Pending  BY <1>1 DEF Unread, Pending
<1>3. Unread \in Nat  BY Counts
<1>4. Chain(ring, readPtr, Unread)  BY <1>3, ChainKept DEF Chained
<1> QED BY <1>1, <1>2, <1>4 DEF Chained

\* The GPU takes a command.
LEMMA ChainedRead ==
  ASSUME TypeOK, Chained, GpuStep
  PROVE  /\ Chained' /\ lost' = lost
         /\ Pending' = Pending /\ Unread' \in Nat /\ Unread' <= Unread
<1> DEFINE u == Unread  n == memory[readPtr][2]
<1>1. /\ u \in 0 .. RingLength - 1 /\ Pending \in 0 .. RingLength - 1 /\ RingLength \in Nat
      /\ Wrap(readPtr + u) = regPtr
  BY Counts
<1>2. readPtr \in Slots /\ regPtr \in Slots /\ writePtr \in Slots  BY DEF TypeOK
<1>3. u # 0
  <2>1. readPtr # regPtr  BY DEF GpuStep
  <2>2. Wrap(readPtr + 0) = readPtr
    BY <1>1, <1>2, WrapIs DEF Slots
  <2> QED BY <1>1, <2>1, <2>2
<1>4. u \in 1 .. RingLength - 1  BY <1>1, <1>3
<1>5. Chain(memory, readPtr, u)  BY DEF Chained
<1>6. /\ memory[readPtr][1] # "body" /\ n \in Nat /\ n + 1 <= u
      /\ Chain(memory, Wrap(readPtr + n + 1), u - (n + 1))
  BY <1>2, <1>4, <1>5, ChainStep
<1>7. ~(Unread < n + 1)  BY <1>6, <1>1
<1>8. readPtr' = Wrap(readPtr + n + 1) /\ lost' = lost
  BY <1>6, <1>7 DEF GpuStep
<1>9. UNCHANGED <<regPtr, ring, memory, writePtr>>  BY DEF GpuStep, ringVars
<1> HIDE DEF u, n
<1>10. n + 1 \in 0 .. RingLength - 1 /\ readPtr + n + 1 = readPtr + (n + 1)
  BY <1>1, <1>2, <1>6 DEF Slots
<1>11. Distance(Wrap(readPtr + (n + 1)), regPtr) = u - (n + 1)
  BY <1>2, <1>6, <1>10, Between DEF u, Unread
<1>12. Unread' = u - (n + 1)  BY <1>8, <1>9, <1>10, <1>11 DEF Unread
<1>13. Pending' = Pending  BY <1>9 DEF Pending
<1>14. Unread' \in Nat /\ Unread' <= u  BY <1>12, <1>1, <1>6
<1>15. ASSUME NEW k \in 0 .. u - (n + 1) - 1
       PROVE  ring[Wrap(readPtr' + k)] = memory[Wrap(readPtr' + k)]
  <2>1. k \in 0 .. RingLength - 1 - (n + 1) /\ (n + 1) + k \in 0 .. u - 1  BY <1>1, <1>6
  <2>2. Wrap(readPtr' + k) = Wrap(readPtr + ((n + 1) + k))
    BY <1>2, <1>8, <1>10, <2>1, Ahead
  <2> QED BY <2>1, <2>2 DEF Chained, u
<1>16. Chained'
  <2>1. Unread' + Pending' < RingLength
    <3>1. u + Pending < RingLength  BY DEF Chained, u
    <3>2. Pending \in Nat /\ u \in Nat /\ RingLength \in Nat  BY <1>1
    <3>3. \A a, b, c, d \in Nat : a <= b /\ b + c < d => a + c < d  OBVIOUS
    <3> QED BY <3>1, <3>2, <3>3, <1>13, <1>14
  <2>2. Chain(memory', readPtr', Unread')  BY <1>6, <1>8, <1>9, <1>12
  <2>3. Chain(ring', regPtr', Pending')  BY <1>9, <1>13 DEF Chained
  <2> QED BY <2>1, <2>2, <2>3, <1>9, <1>12, <1>15 DEF Chained
<1> QED BY <1>8, <1>13, <1>14, <1>16 DEF u

LEMMA CommandInit == Init => CommandInv
BY DEF Init, CommandInv, GpuInStep

\* Steps that leave the ring, its pointers and the GPU alone.
LEMMA CommandKept ==
  ASSUME CommandInv, UNCHANGED <<ringVars, regPtr, readPtr, lost>>,
         firmware' = firmware, xcHandler' = xcHandler,
         \/ xc' = xc
         \/ /\ xc' \notin {"sync", "kick", "framebuffer", "running"}
            /\ xc' \in {"timer", "stop", "cancel", "arm"} =>
                 xc \in {"timer", "stop", "cancel", "arm"}
         \/ xc' = "running" /\ xc = "arm"
  PROVE  CommandInv'
<1> SUFFICES ASSUME firmware PROVE Chained' /\ Lagging'
  BY DEF CommandInv, GpuInStep
<1>1. Chained /\ Lagging  BY DEF CommandInv
<1>2. UNCHANGED <<ring, memory, writePtr, regPtr, readPtr, lost>>  BY DEF ringVars
<1>3. Unread' = Unread /\ Pending' = Pending  BY <1>2 DEF Unread, Pending
<1>4. Chained'  BY <1>1, <1>2, <1>3 DEF Chained
<1>5. Lagging'  BY <1>1, <1>2, <1>3 DEF Lagging
<1> QED BY <1>1, <1>2, <1>4, <1>5

LEMMA CommandNext == Inv /\ CommandInv /\ [Next]_vars => CommandInv'
<1> SUFFICES ASSUME Inv, CommandInv, [Next]_vars PROVE CommandInv'
  OBVIOUS
<1> USE DEF peVars, timer, xcVars, xcTimer, gpuVars, picture
<1>24. TypeOK /\ Phases /\ ~lost  BY DEF Inv, CommandInv, GpuInStep
<1>1. CASE MapGPU  BY <1>1, CommandKept DEF MapGPU
<1>2. CASE PEStartFramebuffer  BY <1>2, CommandKept DEF PEStartFramebuffer
<1>3. CASE PEFinish  BY <1>3, CommandKept DEF PEFinish
<1>4. CASE CallStartFB  BY <1>4, CommandKept DEF CallStartFB
<1>5. CASE PEExpire  BY <1>5, CommandKept DEF PEExpire
<1>6. CASE RefreshFramebuffer  BY <1>6, CommandKept DEF RefreshFramebuffer
<1>7. CASE HandleFramebufferTimer  BY <1>7, CommandKept DEF HandleFramebufferTimer
<1>8. CASE MapRegisters  BY <1>8, CommandKept DEF MapRegisters
<1>9. CASE InitShaders  BY <1>9, CommandKept DEF InitShaders
<1>10. CASE InitHardware
  <2>1. CASE xc' = "wild"  BY <1>10, <2>1, CommandKept DEF InitHardware
  <2>2. CASE xc' # "wild"
    <3>1. /\ xc = "hardware" /\ xc' = "sync" /\ regPtr' = 0 /\ readPtr' = 0
          /\ UNCHANGED <<lost, xcHandler>> /\ WriteRing(InitME)
      BY <1>10, <2>2 DEF InitHardware
    <3>2. writePtr = 0 /\ xcHandler = "none" /\ 0 \in Slots
      BY <3>1, <1>24, RingAssumption DEF Phases, Slots
    <3>3. Program(InitME) /\ Len(InitME) < RingLength /\ InitME \in Seq(Words)
          /\ Len(InitME) \in Nat
      BY Programs, Lengths
    <3>4. Chain(ring', 0, Len(InitME)) /\ Distance(0, writePtr') = Len(InitME)
      BY <1>24, <3>1, <3>2, <3>3, ProgramWritten, Written
    <3>5. Pending' = Len(InitME)  BY <3>1, <3>4 DEF Pending
    <3>6. Unread' = 0
      <4>1. Distance(0, 0) = 0  BY <3>2, DistanceIs
      <4> QED BY <4>1, <3>1 DEF Unread
    <3>7. Chained'
      <4>1. Unread' + Pending' < RingLength  BY <3>3, <3>5, <3>6
      <4>2. Chain(memory', readPtr', Unread')  BY <3>6, ChainNone
      <4>3. Chain(ring', regPtr', Pending')  BY <3>1, <3>4, <3>5
      <4>4. 0 .. Unread' - 1 = {}  BY <3>6
      <4> QED BY <4>1, <4>2, <4>3, <4>4 DEF Chained
    <3>8. Lagging'  BY <3>1, <3>2, <3>5, <3>6 DEF Lagging
    <3> QED BY <1>24, <3>1, <3>7, <3>8 DEF CommandInv, GpuInStep
  <2> QED BY <2>1, <2>2
<1>11. CASE SyncHardware
  <2>1. /\ xc = "sync" /\ xc' = "kick" /\ SyncData
        /\ UNCHANGED <<firmware, lost, regPtr, readPtr, xcHandler>>
    BY <1>11 DEF SyncHardware
  <2>2. memory' = ring'  BY <2>1 DEF SyncData
  <2>3. ASSUME firmware PROVE Chained' /\ Lagging'
    <3>1. Chained' /\ Pending' = Pending /\ Unread' = Unread
      BY <1>24, <2>1, <2>3, ChainedSync DEF CommandInv
    <3> QED BY <2>1, <2>2, <2>3, <3>1 DEF CommandInv, Lagging
  <2> QED BY <1>24, <2>1, <2>3 DEF CommandInv, GpuInStep
<1>12. CASE KickHardware
  <2>1. /\ xc = "kick" /\ xc' = "framebuffer" /\ regPtr' = writePtr
        /\ UNCHANGED <<ring, memory, writePtr, readPtr, firmware, lost, xcHandler>>
    BY <1>12 DEF KickHardware, ringVars
  <2>2. ASSUME firmware PROVE Chained' /\ Lagging'
    <3>1. Chained /\ memory = ring /\ Unread = 0 /\ Pending = Len(InitME)
      BY <2>1, <2>2 DEF CommandInv, Lagging
    <3>2. Chained' /\ Pending' = 0 /\ Unread' = Unread + Pending
      BY <1>24, <2>1, <3>1, ChainedKick
    <3>3. xcHandler = "none"  BY <1>24, <2>1 DEF Phases
    <3>4. Unread' <= Len(InitME)  BY <3>1, <3>2, Lengths
    <3> QED BY <2>1, <3>2, <3>3, <3>4 DEF Lagging
  <2> QED BY <1>24, <2>1, <2>2 DEF CommandInv, GpuInStep
<1>13. CASE InitFramebuffer
  <2>1. /\ xc = "framebuffer" /\ xc' = "timer" /\ WriteRing(Setup)
        /\ UNCHANGED <<regPtr, readPtr, firmware, lost, xcHandler>>
    BY <1>13 DEF InitFramebuffer, Setup
  <2>2. ASSUME firmware PROVE Chained' /\ Lagging'
    <3>1. Chained /\ Unread <= Len(InitME) /\ Pending = 0
      BY <2>1, <2>2 DEF CommandInv, Lagging
    <3>2. Unread + Pending + Len(Setup) < RingLength
      <4>1. Unread \in Nat  BY <1>24, Counts
      <4> QED BY <3>1, <4>1, Lengths
    <3>3. Chained' /\ Pending' = Pending + Len(Setup)
      BY <1>24, <2>1, <3>1, <3>2, Programs, ChainedWrite
    <3>4. Pending' <= Len(Setup)  BY <3>1, <3>3, Lengths
    <3>5. xcHandler = "none"  BY <1>24, <2>1 DEF Phases
    <3> QED BY <2>1, <3>3, <3>4, <3>5 DEF Lagging
  <2> QED BY <1>24, <2>1, <2>2 DEF CommandInv, GpuInStep
<1>14. CASE InitTimer  BY <1>14, CommandKept DEF InitTimer
<1>15. CASE StopFramebuffer  BY <1>15, CommandKept DEF StopFramebuffer
<1>16. CASE CancelFramebuffer  BY <1>16, CommandKept DEF CancelFramebuffer
<1>17. CASE ArmTimer  BY <1>17, CommandKept DEF ArmTimer
<1>18. CASE HandleTimer
  <2>1. /\ xcArmed /\ (firmware => Unread <= Backlog) /\ xcHandler' = "sync"
        /\ WriteRing(Frame)
        /\ UNCHANGED <<regPtr, readPtr, firmware, lost, xc>>
    BY <1>18 DEF HandleTimer
  <2>2. xc = "running" /\ xcHandler = "none"  BY <1>24, <2>1 DEF Phases
  <2>3. ASSUME firmware PROVE Chained' /\ Lagging'
    <3>1. Chained /\ Unread <= Backlog /\ Pending <= Len(Setup)
      BY <2>1, <2>2, <2>3 DEF CommandInv, Lagging
    <3>2. Unread + Pending + Len(Frame) < RingLength
      <4>1. Unread \in Nat /\ Pending \in Nat /\ Backlog \in Nat
        BY <1>24, Counts, RingAssumption
      <4> QED BY <3>1, <4>1, Lengths
    <3>3. Chained'
      BY <1>24, <2>1, <3>1, <3>2, Programs, ChainedWrite
    <3> QED BY <2>1, <2>2, <3>3 DEF Lagging
  <2> QED BY <1>24, <2>1, <2>3 DEF CommandInv, GpuInStep
<1>19. CASE SyncTimer
  <2>1. /\ xcHandler = "sync" /\ xcHandler' = "kick" /\ SyncData
        /\ UNCHANGED <<firmware, lost, regPtr, readPtr, xc>>
    BY <1>19 DEF SyncTimer
  <2>2. memory' = ring'  BY <2>1 DEF SyncData
  <2>3. xc = "running"  BY <1>24, <2>1 DEF Phases
  <2>4. ASSUME firmware PROVE Chained' /\ Lagging'
    <3>1. Chained'
      BY <1>24, <2>1, <2>4, ChainedSync DEF CommandInv
    <3> QED BY <2>1, <2>2, <2>3, <3>1 DEF Lagging
  <2> QED BY <1>24, <2>1, <2>4 DEF CommandInv, GpuInStep
<1>20. CASE KickTimer
  <2>1. /\ xcHandler = "kick" /\ xcHandler' = "none" /\ regPtr' = writePtr
        /\ UNCHANGED <<ring, memory, writePtr, readPtr, firmware, lost, xc>>
    BY <1>20 DEF KickTimer, ringVars
  <2>2. xc = "running"  BY <1>24, <2>1 DEF Phases
  <2>3. ASSUME firmware PROVE Chained' /\ Lagging'
    <3>1. Chained /\ memory = ring  BY <2>1, <2>3 DEF CommandInv, Lagging
    <3>2. Chained' /\ Pending' = 0  BY <1>24, <2>1, <3>1, ChainedKick
    <3>3. Pending' <= Len(Setup)  BY <3>2, Lengths
    <3> QED BY <2>1, <2>2, <3>2, <3>3 DEF Lagging
  <2> QED BY <1>24, <2>1, <2>3 DEF CommandInv, GpuInStep
<1>21. CASE GpuStep
  <2>1. firmware /\ UNCHANGED <<ring, memory, firmware, xc, xcHandler>>
    BY <1>21 DEF GpuStep, ringVars
  <2>2. Chained /\ Lagging  BY <2>1 DEF CommandInv
  <2>3. /\ Chained' /\ lost' = lost
        /\ Pending' = Pending /\ Unread' \in Nat /\ Unread' <= Unread
    BY <1>24, <1>21, <2>2, ChainedRead
  <2>4. Lagging'
    <3>1. Unread \in Nat  BY <1>24, Counts
    <3>2. Unread = 0 => Unread' = 0  BY <3>1, <2>3
    <3>3. Unread <= Len(InitME) => Unread' <= Len(InitME)
      <4>1. Len(InitME) \in Nat  BY Lengths
      <4> QED BY <3>1, <4>1, <2>3
    <3> QED BY <2>1, <2>2, <2>3, <3>2, <3>3 DEF Lagging
  <2> QED BY <1>24, <2>1, <2>3, <2>4 DEF CommandInv, GpuInStep
<1>22. CASE Draw  BY <1>22, CommandKept DEF Draw
<1>23. CASE UNCHANGED vars  BY <1>23, CommandKept DEF vars
<1> QED BY <1>1, <1>2, <1>3, <1>4, <1>5, <1>6, <1>7, <1>8, <1>9, <1>10, <1>11, <1>12,
           <1>13, <1>14, <1>15, <1>16, <1>17, <1>18, <1>19, <1>20, <1>21, <1>22, <1>23
        DEF Next, PETimer, XCStart, XCTimer

\* In a ring of any size the GPU finds a command wherever it looks for one, with
\* all its words: what syncRingBuffer tells it of is in memory, and neither
\* writeRing nor the GPU gets out of step when the ring wraps.
THEOREM GpuAlwaysInStep == Spec => []GpuInStep
<1>1. Inv /\ CommandInv /\ [Next]_vars => (Inv /\ CommandInv)'  BY InvNext, CommandNext
<1>2. CommandInv => GpuInStep  BY DEF CommandInv
<1> QED BY <1>1, <1>2, InvInit, CommandInit, PTL DEF Spec

-----------------------------------------------------------------------------
(* The picture.                                                            *)

\* The buffer holds the display's rows, taken 32 at a time.
DisplayFits == 32 * (Width * ((Height + 31) \div 32)) <= FbWords

\* A row or column of a tile, and where a pixel is in its tile.
Side   == 0 .. 31
Places == 0 .. 1023
Spot(a, b) ==
  LET s == (a % 4) + 4 * (b % 2) + 8 * (a \div 4) + 64 * (b \div 2)
  IN IF (b \div 8) % 2 = 1 THEN Flip(s) ELSE s

\* Which of its tile's eight columns of four it is moved to.
Column(a, b) ==
  IF b \div 8 \in {1, 3}
  THEN IF a \div 4 >= 4 THEN a \div 4 - 4 ELSE a \div 4 + 4
  ELSE a \div 4

\* The place, once the column is known.
PlaceIn(a, b, k) == k \in 0 .. 7 /\ Spot(a, b) = (a % 4) + 4 * (b % 2) + 64 * (b \div 2) + 8 * k

LEMMA SpotIs ==
  ASSUME NEW a \in Side, NEW b \in Side
  PROVE  Spot(a, b) \in Places /\ PlaceIn(a, b, Column(a, b))
<1> DEFINE c == a \div 4  r == a % 4  d == b \div 2  e == b % 2
           s == r + 4 * e + 8 * c + 64 * d
           k == Column(a, b)
<1>1. /\ c \in 0 .. 7 /\ r \in 0 .. 3 /\ d \in 0 .. 15 /\ e \in 0 .. 1
      /\ b \div 8 \in 0 .. 3
  BY Z3 DEF Side
<1>2. (b \div 8) % 2 = 1 <=> b \div 8 \in {1, 3}
  <2> DEFINE o == b \div 8
  <2>1. o \in {0, 1, 2, 3}  BY <1>1
  <2> HIDE DEF o
  <2>2. o % 2 = 1 <=> o \in {1, 3}  BY <2>1
  <2> QED BY <2>2 DEF o
<1>3. k = IF b \div 8 \in {1, 3} THEN (IF c >= 4 THEN c - 4 ELSE c + 4) ELSE c
  BY DEF Column
<1>4. Spot(a, b) = IF b \div 8 \in {1, 3} THEN Flip(s) ELSE s
  BY <1>2 DEF Spot
<1> HIDE DEF c, r, d, e, k
<1>5. s \in 0 .. 1023  BY <1>1
<1>6. Flip(s) = r + 4 * e + 64 * d + 8 * (IF c >= 4 THEN c - 4 ELSE c + 4)
  <2>1. s \div 32 = 2 * d + (IF c >= 4 THEN 1 ELSE 0)
    BY <1>1, Z3
  <2>2. (2 * d + (IF c >= 4 THEN 1 ELSE 0)) % 2 = (IF c >= 4 THEN 1 ELSE 0)
    BY <1>1, Z3
  <2>3. (s \div 32) % 2 = 1 <=> c >= 4
    BY <1>1, <2>1, <2>2
  <2> HIDE DEF s
  <2>4. Flip(s) = IF c >= 4 THEN s - 32 ELSE s + 32  BY <2>3 DEF Flip
  <2>5. CASE c >= 4  BY <1>1, <2>4, <2>5 DEF s
  <2>6. CASE ~(c >= 4)  BY <1>1, <2>4, <2>6 DEF s
  <2> QED BY <2>5, <2>6
<1>7. k \in 0 .. 7 /\ Spot(a, b) = r + 4 * e + 64 * d + 8 * k
  <2>1. CASE b \div 8 \in {1, 3}
    <3>1. k = (IF c >= 4 THEN c - 4 ELSE c + 4) /\ Spot(a, b) = Flip(s)
      BY <1>3, <1>4, <2>1
    <3>2. k \in 0 .. 7  BY <1>1, <3>1
    <3> QED BY <1>6, <3>1, <3>2
  <2>2. CASE b \div 8 \notin {1, 3}
    <3>1. k = c /\ Spot(a, b) = s  BY <1>3, <1>4, <2>2
    <3> QED BY <1>1, <3>1
  <2> QED BY <2>1, <2>2
<1>8. Spot(a, b) \in 0 .. 1023
  <2> DEFINE i == Spot(a, b)
  <2> HIDE DEF i, s
  <2>1. i = r + 4 * e + 64 * d + 8 * k /\ k \in 0 .. 7  BY <1>7 DEF i
  <2>2. i \in 0 .. 1023  BY <1>1, <2>1
  <2> QED BY <2>2 DEF i
<1>9. Spot(a, b) \in Places  BY <1>8 DEF Places
<1>10. PlaceIn(a, b, k)  BY <1>7 DEF c, r, d, e, PlaceIn
<1> QED BY <1>9, <1>10 DEF k

LEMMA SpotUnique ==
  ASSUME NEW a \in Side, NEW b \in Side, NEW c \in Side, NEW d \in Side,
         Spot(a, b) = Spot(c, d)
  PROVE  a = c /\ b = d
<1> DEFINE e == Column(a, b)  f == Column(c, d)
           a4 == a \div 4  a1 == a % 4  b2 == b \div 2  b1 == b % 2
           c4 == c \div 4  c1 == c % 4  d2 == d \div 2  d1 == d % 2
<1>1. /\ a4 \in 0 .. 7 /\ a1 \in 0 .. 3 /\ b2 \in 0 .. 15 /\ b1 \in 0 .. 1
      /\ a = 4 * a4 + a1 /\ b = 2 * b2 + b1
      /\ c4 \in 0 .. 7 /\ c1 \in 0 .. 3 /\ d2 \in 0 .. 15 /\ d1 \in 0 .. 1
      /\ c = 4 * c4 + c1 /\ d = 2 * d2 + d1
  BY Z3 DEF Side
<1>2. /\ e \in 0 .. 7 /\ Spot(a, b) = a1 + 4 * b1 + 64 * b2 + 8 * e
      /\ f \in 0 .. 7 /\ Spot(c, d) = c1 + 4 * d1 + 64 * d2 + 8 * f
  <2>1. PlaceIn(a, b, e) /\ PlaceIn(c, d, f)  BY SpotIs, Zenon
  <2> QED BY <2>1 DEF PlaceIn
<1>3. a1 + 4 * b1 + 64 * b2 + 8 * e = c1 + 4 * d1 + 64 * d2 + 8 * f
  BY <1>2
<1>4. e = IF b \div 8 \in {1, 3} THEN (IF a4 >= 4 THEN a4 - 4 ELSE a4 + 4) ELSE a4
  BY DEF Column
<1>5. f = IF d \div 8 \in {1, 3} THEN (IF c4 >= 4 THEN c4 - 4 ELSE c4 + 4) ELSE c4
  BY DEF Column
<1> HIDE DEF a4, a1, b2, b1, c4, c1, d2, d1, e, f
<1>6. a1 = c1 /\ b1 = d1 /\ b2 = d2 /\ e = f  BY <1>1, <1>2, <1>3
<1>7. b = d  BY <1>1, <1>6
<1>8. a4 = c4
  <2>1. a4 \in 0 .. 7 /\ c4 \in 0 .. 7  BY <1>1
  <2>2. CASE b \div 8 \in {1, 3}
    <3>1. /\ e = IF a4 >= 4 THEN a4 - 4 ELSE a4 + 4
          /\ f = IF c4 >= 4 THEN c4 - 4 ELSE c4 + 4
      BY <1>4, <1>5, <1>7, <2>2
    <3>2. \A p, q \in 0 .. 7 :
            (IF p >= 4 THEN p - 4 ELSE p + 4) = (IF q >= 4 THEN q - 4 ELSE q + 4) => p = q
      OBVIOUS
    <3> QED BY <1>6, <2>1, <3>1, <3>2
  <2>3. CASE b \div 8 \notin {1, 3}
    <3>1. e = a4 /\ f = c4  BY <1>4, <1>5, <1>7, <2>3
    <3> QED BY <1>6, <3>1
  <2> QED BY <2>2, <2>3
<1>9. a = c  BY <1>1, <1>6, <1>8
<1> QED BY <1>7, <1>9

\* The tiles of a row, and the tile a pixel is in.
RowTiles == Width \div 32
TileOf(x, y) == RowTiles * (y \div 32) + (x \div 32)

LEMMA Growing ==
  ASSUME NEW d \in Nat, NEW x \in Nat, NEW y \in Nat, x <= y
  PROVE  d * x \in Nat /\ d * y \in Nat /\ d * x <= d * y
<1>1. PICK k \in Nat : y = x + k
  BY SMT
<1>2. d * y = d * x + d * k /\ d * k \in Nat /\ d * x \in Nat
  BY <1>1, SMT
<1> QED BY <1>2, SMT

LEMMA TilesIs ==
  /\ RowTiles \in Nat /\ Width = 32 * RowTiles
  /\ \A x \in 0 .. Width - 1 : x \div 32 \in 0 .. RowTiles - 1 /\ x % 32 \in Side
                               /\ x = 32 * (x \div 32) + (x % 32)
<1>1. Width \in Nat /\ Width % 32 = 0  BY DisplayAssumption
<1>2. RowTiles \in Nat /\ Width = 32 * RowTiles  BY <1>1, Z3 DEF RowTiles
<1>3. ASSUME NEW x \in 0 .. Width - 1
      PROVE  x \div 32 \in 0 .. RowTiles - 1 /\ x % 32 \in Side
             /\ x = 32 * (x \div 32) + (x % 32)
  <2>1. x \in Nat /\ x < 32 * RowTiles  BY <1>1, <1>2
  <2>2. x \div 32 \in Nat /\ x % 32 \in Side /\ x = 32 * (x \div 32) + (x % 32)
    BY <2>1, Z3 DEF Side
  <2> DEFINE c == x \div 32  a == x % 32
  <2> HIDE DEF c, a, Side
  <2>3. c \in Nat /\ a \in Side /\ x = 32 * c + a  BY <2>2 DEF c, a, Side
  <2>4. c < RowTiles  BY <1>2, <2>1, <2>3 DEF Side
  <2> QED BY <1>2, <2>2, <2>4 DEF c
<1> QED BY <1>2, <1>3

LEMMA IndexIs ==
  ASSUME NEW x \in 0 .. Width - 1, NEW y \in Nat
  PROVE  /\ TileOf(x, y) \in Nat
         /\ Index(x, y) = 1024 * TileOf(x, y) + Spot(x % 32, y % 32)
<1> DEFINE a == x % 32  b == y % 32  c == x \div 32  r == y \div 32
           t == RowTiles * r
           s == (a % 4) + 4 * (b % 2) + 8 * (a \div 4) + 64 * (b \div 2)
<1>1. x \in Nat /\ c \in Nat /\ r \in Nat /\ a \in Side /\ b \in Side
  BY DisplayAssumption, TilesIs, Z3 DEF Side
<1>2. t \in Nat
  <2> HIDE DEF r
  <2> QED BY <1>1, TilesIs, Growing
<1>3. r * 32 * Width = 1024 * t
  <2> HIDE DEF r
  <2>1. r * 32 * Width = 32 * (r * Width)  BY <1>1, DisplayAssumption, Z3
  <2>2. r * Width = 32 * (r * RowTiles)  BY <1>1, TilesIs, Z3
  <2>3. r * RowTiles = t /\ r * RowTiles \in Nat  BY <1>1, <1>2, TilesIs, Z3
  <2> QED BY <2>1, <2>2, <2>3
<1>4. x % 4 = a % 4 /\ y % 2 = b % 2 /\ (y \div 8) % 2 = (b \div 8) % 2
  <2>1. x % 4 = (x % 32) % 4  BY <1>1, Z3
  <2>2. y % 2 = (y % 32) % 2  BY Z3
  <2>3. (y \div 8) % 2 = ((y % 32) \div 8) % 2  BY Z3
  <2> QED BY <2>1, <2>2, <2>3
<1>5. s \in 0 .. 1023
  <2> HIDE DEF a, b
  <2>1. a % 4 \in 0 .. 3 /\ b % 2 \in 0 .. 1 /\ a \div 4 \in 0 .. 7 /\ b \div 2 \in 0 .. 15
    BY <1>1, Z3 DEF Side
  <2> DEFINE a1 == a % 4  b1 == b % 2  a4 == a \div 4  b2 == b \div 2
  <2> HIDE DEF a1, b1, a4, b2
  <2>2. a1 + 4 * b1 + 8 * a4 + 64 * b2 \in 0 .. 1023
    BY <2>1 DEF a1, b1, a4, b2
  <2> QED BY <2>2 DEF a1, b1, a4, b2
<1>6. Tile(x, y) = 1024 * (t + c) + s
  <2>1. Tile(x, y) = r * 32 * Width + c * 1024 + (x % 4) + 4 * (y % 2)
                     + 8 * (a \div 4) + 64 * (b \div 2)
    BY DEF Tile
  <2> DEFINE a1 == a % 4  b1 == b % 2  a4 == a \div 4  b2 == b \div 2
  <2>2. Tile(x, y) = 1024 * t + c * 1024 + a1 + 4 * b1 + 8 * a4 + 64 * b2
    BY <2>1, <1>3, <1>4
  <2>3. a1 \in Nat /\ b1 \in Nat /\ a4 \in Nat /\ b2 \in Nat
    BY <1>1, Z3
  <2>4. s = a1 + 4 * b1 + 8 * a4 + 64 * b2  OBVIOUS
  <2> HIDE DEF a1, b1, a4, b2, t, c, s
  <2> QED BY <2>2, <2>3, <2>4, <1>1, <1>2
<1> DEFINE q == t + c
<1>7. q \in Nat  BY <1>1, <1>2
<1>8. Flip(1024 * q + s) = 1024 * q + Flip(s)
  <2> HIDE DEF q, s
  <2>1. (1024 * q + s) \div 32 = 32 * q + s \div 32  BY <1>5, <1>7, Z3
  <2>2. (32 * q + s \div 32) % 2 = (s \div 32) % 2  BY <1>5, <1>7, Z3
  <2> QED BY <1>5, <1>7, <2>1, <2>2 DEF Flip, q
<1>9. Index(x, y) = IF (b \div 8) % 2 = 1 THEN Flip(1024 * q + s) ELSE 1024 * q + s
  BY <1>4, <1>6 DEF Index
<1>10. Spot(a, b) = IF (b \div 8) % 2 = 1 THEN Flip(s) ELSE s
  BY DEF Spot
<1>11. Index(x, y) = 1024 * q + Spot(a, b)
  BY <1>8, <1>9, <1>10
<1>12. TileOf(x, y) = q  BY DEF TileOf
<1> QED BY <1>7, <1>11, <1>12

\* No two pixels of the display share a place.
LEMMA PlacesApart ==
  ASSUME NEW p \in Pixels, NEW q \in Pixels, Index(p[1], p[2]) = Index(q[1], q[2])
  PROVE  p = q
<1> DEFINE x == p[1]  y == p[2]  u == q[1]  v == q[2]
<1>1. x \in 0 .. Width - 1 /\ y \in Nat /\ u \in 0 .. Width - 1 /\ v \in Nat
      /\ p = <<x, y>> /\ q = <<u, v>>
  BY DisplayAssumption DEF Pixels
<1> HIDE DEF x, y, u, v
<1> DEFINE c == x \div 32  a == x % 32  r == y \div 32  b == y % 32
           d == u \div 32  e == u % 32  o == v \div 32  f == v % 32
<1>2. /\ c \in 0 .. RowTiles - 1 /\ a \in Side /\ x = 32 * c + a
      /\ d \in 0 .. RowTiles - 1 /\ e \in Side /\ u = 32 * d + e
  BY <1>1, TilesIs
<1>3. /\ r \in Nat /\ b \in Side /\ y = 32 * r + b
      /\ o \in Nat /\ f \in Side /\ v = 32 * o + f
  BY <1>1, Z3 DEF Side
<1> HIDE DEF c, a, r, b, d, e, o, f
<1>4. Spot(a, b) \in Places /\ Spot(e, f) \in Places
  <2>1. a \in Side /\ b \in Side /\ e \in Side /\ f \in Side
    BY <1>2, <1>3
  <2>2. \A i, j \in Side : Spot(i, j) \in Places  BY SpotIs, Zenon
  <2> QED BY <2>1, <2>2, Zenon
<1>5. /\ TileOf(x, y) \in Nat /\ TileOf(u, v) \in Nat
      /\ 1024 * TileOf(x, y) + Spot(a, b) = 1024 * TileOf(u, v) + Spot(e, f)
  BY <1>1, IndexIs DEF x, y, u, v, a, b, e, f
<1>6. TileOf(x, y) = TileOf(u, v) /\ Spot(a, b) = Spot(e, f)
  <2> DEFINE i == TileOf(x, y)  j == TileOf(u, v)  k == Spot(a, b)  l == Spot(e, f)
  <2> HIDE DEF i, j, k, l
  <2>1. /\ i \in Nat /\ j \in Nat /\ k \in 0 .. 1023 /\ l \in 0 .. 1023
        /\ 1024 * i + k = 1024 * j + l
    BY <1>4, <1>5 DEF i, j, k, l, Places
  <2>2. i = j /\ k = l  BY <2>1
  <2> QED BY <2>2 DEF i, j, k, l
<1>7. a = e /\ b = f
  <2>1. a \in Side /\ b \in Side /\ e \in Side /\ f \in Side
        /\ Spot(a, b) = Spot(e, f)
    BY <1>2, <1>3, <1>6
  <2> QED BY ONLY <2>1, SpotUnique
<1>8. RowTiles * r + c = RowTiles * o + d  BY <1>6 DEF TileOf, r, c, o, d
<1>9. RowTiles \in Nat  BY TilesIs
<1>10. ~(r < o)
  <2> SUFFICES ASSUME r < o PROVE FALSE
    OBVIOUS
  <2>1. RowTiles * (r + 1) <= RowTiles * o  BY <1>3, <1>9, Growing
  <2>2. RowTiles * (r + 1) = RowTiles * r + RowTiles  BY <1>3, <1>9, Z3
  <2>3. RowTiles * r \in Nat /\ RowTiles * o \in Nat  BY <1>3, <1>9, Growing
  <2> QED BY <1>2, <1>8, <1>9, <2>1, <2>2, <2>3
<1>11. ~(o < r)
  <2> SUFFICES ASSUME o < r PROVE FALSE
    OBVIOUS
  <2>1. RowTiles * (o + 1) <= RowTiles * r  BY <1>3, <1>9, Growing
  <2>2. RowTiles * (o + 1) = RowTiles * o + RowTiles  BY <1>3, <1>9, Z3
  <2>3. RowTiles * r \in Nat /\ RowTiles * o \in Nat  BY <1>3, <1>9, Growing
  <2> QED BY <1>2, <1>8, <1>9, <2>1, <2>2, <2>3
<1>12. r = o  BY <1>3, <1>10, <1>11
<1>13. c = d
  <2>1. RowTiles * r \in Nat  BY <1>3, <1>9, Growing
  <2> QED BY <1>2, <1>8, <1>12, <2>1
<1> QED BY <1>1, <1>2, <1>3, <1>7, <1>12, <1>13

\* And all of them are in the buffer.
LEMMA PlacesInside ==
  ASSUME DisplayFits, NEW p \in Pixels
  PROVE  Index(p[1], p[2]) < FbWords
<1> DEFINE x == p[1]  y == p[2]  r == y \div 32  c == x \div 32
           rows == (Height + 31) \div 32
<1>1. x \in 0 .. Width - 1 /\ y \in 0 .. Height - 1 /\ Height \in Nat /\ Width \in Nat
  BY DisplayAssumption DEF Pixels
<1> HIDE DEF x, y
<1>2. r \in Nat /\ rows \in Nat /\ r + 1 <= rows /\ y % 32 \in Side /\ y \in Nat
  BY <1>1, Z3 DEF Side
<1>3. c \in 0 .. RowTiles - 1 /\ x % 32 \in Side /\ RowTiles \in Nat /\ Width = 32 * RowTiles
  BY <1>1, TilesIs
<1>4. Spot(x % 32, y % 32) \in Places
  <2>1. \A i, j \in Side : Spot(i, j) \in Places  BY SpotIs, Zenon
  <2> QED BY <1>2, <1>3, <2>1
<1>5. Index(x, y) = 1024 * (RowTiles * r + c) + Spot(x % 32, y % 32)
  BY <1>1, <1>2, IndexIs DEF TileOf
<1>6. 32 * (Width * rows) <= FbWords  BY DEF DisplayFits
<1> HIDE DEF r, c, rows
<1>7. /\ RowTiles * (r + 1) <= RowTiles * rows
      /\ RowTiles * rows \in Nat
  BY <1>2, <1>3, Growing
<1>8. RowTiles * (r + 1) = RowTiles * r + RowTiles /\ RowTiles * r \in Nat
  BY <1>2, <1>3, Z3
<1>9. Width * rows = 32 * (RowTiles * rows)  BY <1>2, <1>3, Z3
<1>10. 1024 * (RowTiles * rows) <= FbWords
  BY <1>6, <1>7, <1>9
<1>11. RowTiles * r + c + 1 <= RowTiles * rows
  BY <1>3, <1>7, <1>8
<1>12. FbWords \in Nat  BY BufferAssumption
<1> DEFINE t == RowTiles * r  k == RowTiles * rows  i == Spot(x % 32, y % 32)
<1> HIDE DEF t, k, i
<1>13. Index(x, y) = 1024 * (t + c) + i /\ t \in Nat /\ k \in Nat /\ i \in 0 .. 1023
       /\ t + c + 1 <= k /\ 1024 * k <= FbWords
  BY <1>4, <1>5, <1>7, <1>8, <1>10, <1>11 DEF t, k, i, Places
<1>14. Index(x, y) < FbWords  BY <1>3, <1>12, <1>13
<1> QED BY <1>14 DEF x, y

LEMMA NothingGarbled ==
  ASSUME DisplayFits
  PROVE  Garbled = {}
<1> DEFINE At(p) == Index(p[1], p[2])
           used  == {At(p) : p \in Pixels}
           f     == [p \in Pixels |-> At(p)]
<1>1. IsFiniteSet(Pixels)
  <2>1. IsFiniteSet(0 .. Width - 1) /\ IsFiniteSet(0 .. Height - 1)
    BY DisplayAssumption, FS_Interval
  <2> QED BY <2>1, FS_Product DEF Pixels
<1>2. f \in Surjection(Pixels, used)  BY DEF Surjection
<1>3. f \in Injection(Pixels, used)
  <2>1. \A p, q \in Pixels : f[p] = f[q] => p = q  BY PlacesApart
  <2> QED BY <1>2, <2>1 DEF Injection, Surjection, IsInjective
<1>4. Cardinality(used) = Cardinality(Pixels)  BY <1>1, <1>2, <1>3, FS_Surjection
<1>5. \A i \in used : i < FbWords  BY PlacesInside
<1> QED BY <1>4, <1>5 DEF Garbled

\* mapGPU keeps the picture of a display of any height, and any width that is
\* made of whole tiles, in a buffer that holds it.
THEOREM ImageAlwaysKept ==
  ASSUME DisplayFits
  PROVE  Spec => []ImageKept
<1>1. Init => ImageKept  BY DEF Init, ImageKept
<1>2. ImageKept /\ [Next]_vars => ImageKept'
  <2> SUFFICES ASSUME ImageKept, [Next]_vars PROVE ImageKept'
    OBVIOUS
  <2> USE DEF ImageKept, peVars
  <2>1. CASE MapGPU  BY <2>1, NothingGarbled DEF MapGPU
  <2>2. CASE PEStartFramebuffer  BY <2>2 DEF PEStartFramebuffer
  <2>3. CASE PEFinish  BY <2>3 DEF PEFinish
  <2>4. CASE CallStartFB  BY <2>4 DEF CallStartFB
  <2>5. CASE PETimer
    BY <2>5 DEF PETimer, PEExpire, RefreshFramebuffer, HandleFramebufferTimer
  <2>6. CASE XCStart
    BY <2>6 DEF XCStart, MapRegisters, InitShaders, InitHardware, SyncHardware, KickHardware,
         InitFramebuffer, InitTimer, StopFramebuffer, CancelFramebuffer, ArmTimer
  <2>7. CASE XCTimer  BY <2>7 DEF XCTimer, HandleTimer, SyncTimer, KickTimer
  <2>8. CASE GpuStep  BY <2>8 DEF GpuStep
  <2>9. CASE Draw  BY <2>9 DEF Draw
  <2>10. CASE UNCHANGED vars  BY <2>10 DEF vars
  <2> QED BY <2>1, <2>2, <2>3, <2>4, <2>5, <2>6, <2>7, <2>8, <2>9, <2>10 DEF Next
<1> QED BY <1>1, <1>2, PTL DEF Spec
=============================================================================
