----------------------------- MODULE ListProofs -----------------------------
(***************************************************************************)
(* Induction over numbers and sequences, and what Only and the operators   *)
(* on sequences that the documents are made with return, for every         *)
(* sequence.                                                               *)
(*                                                                         *)
(* A function defined by recursion on a number is known to be one because  *)
(* a function with these values exists (RecursionIsDefined, by UpTo, by    *)
(* the least element of a set of numbers); what holds of every sequence    *)
(* holds of the empty one and is kept by Append (SequencesGrow).           *)
(***************************************************************************)
EXTENDS Filtering, SequencesExt, FiniteSetTheorems, WellFoundedInduction, TLAPS

-----------------------------------------------------------------------------
(* Induction, and functions defined by recursion on a number *)

\* A set of numbers has a least one.
LEMMA LeastNumber ==
  ASSUME NEW T, T \subseteq Nat, T # {}
  PROVE  \E n \in T : \A k \in T : n <= k
<1>1. PICK n \in T : \A k \in T : ~(<<k, n>> \in OpToRel(<, Nat))
  BY WFMin, NatLessThanWellFounded
<1>2. \A j, k \in Nat : j < k => <<j, k>> \in OpToRel(<, Nat)
  BY Zenon DEF OpToRel
<1>3. \A k \in T : ~(k < n)
  BY <1>1, <1>2, Zenon
<1>4. \A k \in T : n <= k
  BY ONLY <1>3, T \subseteq Nat, n \in T
<1> QED
  BY <1>4

\* What holds of 0, and of each number if of the one before, holds up to any N.
LEMMA UpTo ==
  ASSUME NEW N \in Nat, NEW S, 0 \in S, \A n \in 1..N : n - 1 \in S => n \in S
  PROVE  \A n \in 0..N : n \in S
<1> DEFINE T == (0..N) \ S
<1> SUFFICES ASSUME T # {} PROVE FALSE
  OBVIOUS
<1>1. T \subseteq Nat
  OBVIOUS
<1>2. \E n \in T : \A k \in T : n <= k
  <2> HIDE DEF T
  <2> QED
    BY <1>1, LeastNumber
<1>3. PICK n \in T : \A k \in T : n <= k
  BY <1>2
<1>4. n \in 1..N /\ n - 1 \in 0..N
  BY <1>3
<1> QED
  BY <1>3, <1>4

\* A value to begin with and a step for each number define a function.
Steps(N, T) == [1..N -> [T -> T]]
Follows(f, N, T, start, step) ==
  f \in [0..N -> T] /\ f[0] = start /\ \A n \in 1..N : f[n] = step[n][f[n - 1]]

LEMMA RecursionIsDefined ==
  ASSUME NEW N \in Nat, NEW T, NEW start \in T, NEW step \in Steps(N, T)
  PROVE  \E f : Follows(f, N, T, start, step)
<1> USE DEF Steps
<1> DEFINE Good(k, f) == f[0] = start /\ \A n \in 1..k : f[n] = step[n][f[n - 1]]
           S == {k \in 0..N : \E f \in [0..k -> T] : Good(k, f)}
<1>1. 0 \in S
  <2> DEFINE g == [i \in 0..0 |-> start]
  <2>1. g \in [0..0 -> T] /\ Good(0, g)
    OBVIOUS
  <2> HIDE DEF g, Good
  <2> QED
    BY <2>1
<1>2. ASSUME NEW n \in 1..N, n - 1 \in S PROVE n \in S
  <2>1. PICK f \in [0..(n - 1) -> T] : Good(n - 1, f)
    BY <1>2
  <2> DEFINE g == [i \in 0..n |-> IF i = n THEN step[n][f[n - 1]] ELSE f[i]]
  <2>2. g \in [0..n -> T]
    OBVIOUS
  <2>3. Good(n, g)
    BY <2>1
  <2> HIDE DEF g, Good
  <2> QED
    BY <2>2, <2>3
<1> HIDE DEF S
<1>3. \A n \in 0..N : n \in S
  BY <1>1, <1>2, UpTo
<1> QED
  BY <1>3 DEF S, Follows

-----------------------------------------------------------------------------
(* Only *)

\* Elements are taken one after the other.
Taking(f, E, seq, S) ==
  /\ f \in [0..Len(seq) -> Seq(E)] /\ f[0] = <<>>
  /\ \A i \in 1..Len(seq) :
       f[i] = IF seq[i] \in S THEN Append(f[i - 1], seq[i]) ELSE f[i - 1]

LEMMA OnlyIsDefined ==
  ASSUME NEW E, NEW seq \in Seq(E), NEW S
  PROVE  \E f : Taking(f, E, seq, S) /\ Only(seq, S) = f[Len(seq)]
<1> DEFINE L == Len(seq)
           Q == Seq(E)
           step == [i \in 1..L |-> [t \in Q |->
                      IF seq[i] \in S THEN Append(t, seq[i]) ELSE t]]
           Body(g) == [i \in 0..L |->
                         IF i = 0 THEN <<>>
                         ELSE IF seq[i] \in S THEN Append(g[i - 1], seq[i]) ELSE g[i - 1]]
           f == CHOOSE g : g = Body(g)
<1>0. L \in Nat /\ <<>> \in Q /\ \A i \in 1..L : seq[i] \in E
  OBVIOUS
<1>a. \A t \in Q, i \in 1..L : Append(t, seq[i]) \in Q
  BY <1>0
<1>b. Only(seq, S) = f[L]
  BY DEF Only
<1> HIDE DEF L, Q
<1>1. step \in Steps(L, Q)
  BY <1>a DEF Steps
<1>c. \A i \in 1..L, t \in Q : step[i][t] = IF seq[i] \in S THEN Append(t, seq[i]) ELSE t
  OBVIOUS
<1> HIDE DEF step
<1>2. \E h \in [0..L -> Q] : h[0] = <<>> /\ \A i \in 1..L : h[i] = step[i][h[i - 1]]
  <2> DEFINE start == <<>>
  <2>1. L \in Nat
    BY <1>0
  <2>2. start \in Q
    BY <1>0
  <2> HIDE DEF start
  <2>3. \E h : Follows(h, L, Q, start, step)
    BY <2>1, <2>2, <1>1, RecursionIsDefined
  <2> QED
    BY <2>3 DEF start, Follows
<1>3. PICK h \in [0..L -> Q] : h[0] = <<>> /\ \A i \in 1..L : h[i] = step[i][h[i - 1]]
  BY <1>2
<1>4. \A i \in 1..L : h[i] = IF seq[i] \in S THEN Append(h[i - 1], seq[i]) ELSE h[i - 1]
  <2>1. \A i \in 1..L : h[i - 1] \in Q
    BY <1>0, <1>3
  <2> QED
    BY <2>1, <1>3, <1>c
<1>5. h = Body(h)
  <2>1. \A i \in 0..L : h[i] = Body(h)[i]
    <3> SUFFICES ASSUME NEW i \in 0..L PROVE h[i] = Body(h)[i]
      OBVIOUS
    <3>1. CASE i = 0
      BY <1>3, <3>1
    <3>2. CASE i # 0
      <4>1. i \in 1..L
        BY <1>0, <3>2
      <4> QED
        BY <4>1, <3>2, <1>4
    <3> QED
      BY <3>1, <3>2
  <2>2. h = [i \in 0..L |-> h[i]]
    BY <1>3
  <2> QED
    BY <2>1, <2>2
<1>6. f = Body(f)
  <2> HIDE DEF Body
  <2> QED
    BY <1>5
<1> HIDE DEF f
<1>7. f[0] = <<>>
  BY <1>0, <1>6
<1>8. \A i \in 1..L : f[i] = IF seq[i] \in S THEN Append(f[i - 1], seq[i]) ELSE f[i - 1]
  <2> SUFFICES ASSUME NEW i \in 1..L
               PROVE  f[i] = IF seq[i] \in S THEN Append(f[i - 1], seq[i]) ELSE f[i - 1]
    OBVIOUS
  <2>1. i \in 0..L /\ i # 0
    BY <1>0
  <2>2. f[i] = Body(f)[i]
    BY <1>6
  <2> QED
    BY <2>1, <2>2
<1>9. \A n \in 0..L : f[n] \in Q
  <2> DEFINE P == {i \in 0..L : f[i] \in Q}
  <2> HIDE DEF Body
  <2>1. 0 \in P
    BY <1>0, <1>7
  <2>2. ASSUME NEW n \in 1..L, n - 1 \in P PROVE n \in P
    BY <1>0, <1>8, <1>a, <2>2
  <2>3. \A n \in 0..L : n \in P
    <3> HIDE DEF P
    <3> QED
      BY <1>0, <2>1, <2>2, UpTo
  <2> QED
    BY <2>3 DEF P
<1>10. f \in [0..L -> Q]
  <2>1. f = [i \in 0..L |-> f[i]]
    BY <1>6
  <2> QED
    BY <1>9, <2>1
<1> QED
  BY <1>b, <1>7, <1>8, <1>10 DEF L, Q, Taking

\* What holds of the empty sequence, and of each sequence if of all but its last element.
LEMMA SequencesGrow ==
  ASSUME NEW E, NEW P, <<>> \in P,
         \A s \in Seq(E), e \in E : s \in P => Append(s, e) \in P
  PROVE  \A s \in Seq(E) : s \in P
<1> SUFFICES ASSUME NEW s \in Seq(E) PROVE s \in P
  OBVIOUS
<1> DEFINE L == Len(s)
           S == {n \in 0..L : SubSeq(s, 1, n) \in P}
<1>0. L \in Nat
  OBVIOUS
<1>1. 0 \in S
  <2>1. SubSeq(s, 1, 0) = <<>>
    OBVIOUS
  <2>2. SubSeq(s, 1, 0) \in P
    BY <2>1, Zenon
  <2>3. 0 \in 0..L
    BY <1>0
  <2> QED
    BY <2>2, <2>3, Zenon
<1>2. ASSUME NEW n \in 1..L, n - 1 \in S PROVE n \in S
  <2>1. SubSeq(s, 1, n - 1) \in Seq(E) /\ s[n] \in E
    OBVIOUS
  <2>2. SubSeq(s, 1, n) = Append(SubSeq(s, 1, n - 1), s[n])
    OBVIOUS
  <2>3. SubSeq(s, 1, n - 1) \in P
    BY <1>2
  <2>4. Append(SubSeq(s, 1, n - 1), s[n]) \in P
    BY <2>1, <2>3
  <2>5. n \in 0..L
    BY <1>0
  <2> QED
    BY <2>2, <2>4, <2>5
<1>3. \A n \in 0..L : n \in S
  <2> HIDE DEF S, L
  <2> QED
    BY <1>0, <1>1, <1>2, UpTo
<1>4. SubSeq(s, 1, L) \in P
  BY <1>0, <1>3
<1>5. SubSeq(s, 1, L) = s
  OBVIOUS
<1> QED
  BY <1>4, <1>5

LEMMA AppendedSet ==
  ASSUME NEW E, NEW s \in Seq(E), NEW e \in E
  PROVE  ToSet(Append(s, e)) = ToSet(s) \cup {e}
<1> DEFINE t == Append(s, e)
<1>1. /\ Len(s) \in Nat /\ DOMAIN s = 1..Len(s) /\ DOMAIN t = 1..(Len(s) + 1)
      /\ t[Len(s) + 1] = e /\ \A i \in 1..Len(s) : t[i] = s[i]
  OBVIOUS
<1> HIDE DEF t
<1>2. ToSet(t) = ToSet(s) \cup {e}
  BY <1>1 DEF ToSet
<1> QED
  BY <1>2 DEF t

LEMMA EmptySet ==
  ToSet(<<>>) = {}
BY DEF ToSet

LEMMA OnlyEmpty ==
  ASSUME NEW S
  PROVE  Only(<<>>, S) = <<>>
<1> DEFINE E == {} e == <<>>
<1>1. e \in Seq(E) /\ Len(e) = 0
  OBVIOUS
<1> HIDE DEF e
<1>2. PICK f : Taking(f, E, e, S) /\ Only(e, S) = f[Len(e)]
  BY <1>1, OnlyIsDefined
<1>3. f[0] = <<>>
  BY <1>2 DEF Taking
<1> QED
  BY <1>1, <1>2, <1>3 DEF e

LEMMA OnlyAppend ==
  ASSUME NEW E, NEW s \in Seq(E), NEW e \in E, NEW S
  PROVE  Only(Append(s, e), S) = IF e \in S THEN Append(Only(s, S), e) ELSE Only(s, S)
<1> DEFINE L == Len(s)
           t == Append(s, e)
<1>1. L \in Nat /\ t \in Seq(E) /\ Len(t) = L + 1 /\ t[L + 1] = e
  OBVIOUS
<1>2. \A i \in 1..L : t[i] = s[i]
  OBVIOUS
<1> HIDE DEF t
<1>3. PICK f : Taking(f, E, s, S) /\ Only(s, S) = f[Len(s)]
  BY OnlyIsDefined
<1>4. PICK g : Taking(g, E, t, S) /\ Only(t, S) = g[Len(t)]
  BY <1>1, OnlyIsDefined
<1>a. ASSUME NEW i \in 1..L PROVE f[i] = IF s[i] \in S THEN Append(f[i - 1], s[i]) ELSE f[i - 1]
  BY <1>3 DEF Taking
<1>b. ASSUME NEW i \in 1..(L + 1)
       PROVE  g[i] = IF t[i] \in S THEN Append(g[i - 1], t[i]) ELSE g[i - 1]
  <2>1. i \in 1..Len(t)
    BY <1>1
  <2> QED
    BY <1>4, <2>1 DEF Taking
<1>c. f[0] = <<>> /\ g[0] = <<>>
  BY <1>3, <1>4 DEF Taking
<1> DEFINE Q == {n \in 0..L : f[n] = g[n]}
<1>5. 0 \in Q
  BY <1>1, <1>c
<1>6. ASSUME NEW n \in 1..L, n - 1 \in Q PROVE n \in Q
  <2>1. n \in 1..(L + 1) /\ n \in 0..L /\ t[n] = s[n]
    BY <1>1, <1>2
  <2>2. f[n - 1] = g[n - 1]
    BY <1>6
  <2>3. f[n] = g[n]
    BY <1>a, <1>b, <2>1, <2>2
  <2> QED
    BY <2>1, <2>3
<1>7. \A n \in 0..L : n \in Q
  <2> HIDE DEF Q, L
  <2> QED
    BY <1>1, <1>5, <1>6, UpTo
<1>8. f[L] = g[L]
  BY <1>1, <1>7
<1>9. g[L + 1] = IF t[L + 1] \in S THEN Append(g[L + 1 - 1], t[L + 1]) ELSE g[L + 1 - 1]
  <2> DEFINE k == L + 1
  <2>1. k \in 1..(L + 1)
    BY <1>1
  <2> HIDE DEF k
  <2>2. g[k] = IF t[k] \in S THEN Append(g[k - 1], t[k]) ELSE g[k - 1]
    BY <1>b, <2>1
  <2> QED
    BY <2>2 DEF k
<1>10. L + 1 - 1 = L
  BY <1>1
<1> QED
  BY <1>1, <1>3, <1>4, <1>8, <1>9, <1>10 DEF t

\* What is taken: the elements that are in the set.
LEMMA OnlyTakes ==
  ASSUME NEW E, NEW s \in Seq(E), NEW S
  PROVE  Only(s, S) \in Seq(E) /\ ToSet(Only(s, S)) = ToSet(s) \cap S
<1> DEFINE P == {q \in Seq(E) : Only(q, S) \in Seq(E) /\ ToSet(Only(q, S)) = ToSet(q) \cap S}
<1>1. <<>> \in P
  <2>1. Only(<<>>, S) \in Seq(E)
    <3>1. <<>> \in Seq(E)
      OBVIOUS
    <3> QED
      BY <3>1, OnlyEmpty, Zenon
  <2>2. ToSet(Only(<<>>, S)) = ToSet(<<>>) \cap S
    BY OnlyEmpty, EmptySet
  <2> QED
    BY <2>1, <2>2
<1>2. ASSUME NEW q \in Seq(E), NEW e \in E, q \in P PROVE Append(q, e) \in P
  <2> DEFINE o == Only(q, S)
             t == Append(q, e)
  <2>1. o \in Seq(E) /\ ToSet(o) = ToSet(q) \cap S /\ t \in Seq(E)
    BY <1>2
  <2>a. ToSet(t) = ToSet(q) \cup {e}
    BY AppendedSet
  <2>2. Only(t, S) = IF e \in S THEN Append(o, e) ELSE o
    BY OnlyAppend
  <2> HIDE DEF o
  <2>3. ToSet(t) = ToSet(q) \cup {e} /\ ToSet(Append(o, e)) = ToSet(o) \cup {e}
    BY <2>1, <2>a, AppendedSet
  <2>4. Append(o, e) \in Seq(E)
    BY <2>1
  <2> HIDE DEF t
  <2>5. Only(t, S) \in Seq(E) /\ ToSet(Only(t, S)) = ToSet(t) \cap S
    BY <2>1, <2>2, <2>3, <2>4
  <2> QED
    BY <2>1, <2>5 DEF t
<1> HIDE DEF P
<1>3. \A q \in Seq(E) : q \in P
  BY <1>1, <1>2, SequencesGrow
<1> QED
  BY <1>3 DEF P

\* Sets that agree on the elements take the same.
LEMMA OnlyAgrees ==
  ASSUME NEW E, NEW s \in Seq(E), NEW S, NEW T, ToSet(s) \cap S = ToSet(s) \cap T
  PROVE  Only(s, S) = Only(s, T)
<1> DEFINE P == {q \in Seq(E) : ToSet(q) \cap S = ToSet(q) \cap T => Only(q, S) = Only(q, T)}
<1>1. <<>> \in P
  BY OnlyEmpty
<1>2. ASSUME NEW q \in Seq(E), NEW e \in E, q \in P PROVE Append(q, e) \in P
  <2> DEFINE t == Append(q, e)
  <2>1. t \in Seq(E) /\ ToSet(t) = ToSet(q) \cup {e}
    BY AppendedSet
  <2>2. Only(t, S) = IF e \in S THEN Append(Only(q, S), e) ELSE Only(q, S)
    BY OnlyAppend
  <2>3. Only(t, T) = IF e \in T THEN Append(Only(q, T), e) ELSE Only(q, T)
    BY OnlyAppend
  <2> HIDE DEF t
  <2>4. ASSUME ToSet(t) \cap S = ToSet(t) \cap T PROVE Only(t, S) = Only(t, T)
    <3>1. ToSet(q) \cap S = ToSet(q) \cap T /\ (e \in S <=> e \in T)
      BY <2>1, <2>4
    <3>2. Only(q, S) = Only(q, T)
      BY <1>2, <3>1
    <3> QED
      BY <2>2, <2>3, <3>1, <3>2
  <2> QED
    BY <2>1, <2>4 DEF t
<1> HIDE DEF P
<1>3. \A q \in Seq(E) : q \in P
  BY <1>1, <1>2, SequencesGrow
<1> QED
  BY <1>3 DEF P

LEMMA OnlyNothing ==
  ASSUME NEW E, NEW s \in Seq(E)
  PROVE  Only(s, {}) = <<>>
<1> DEFINE P == {q \in Seq(E) : Only(q, {}) = <<>>}
<1>1. <<>> \in P
  BY OnlyEmpty
<1>2. ASSUME NEW q \in Seq(E), NEW e \in E, q \in P PROVE Append(q, e) \in P
  BY <1>2, OnlyAppend
<1> HIDE DEF P
<1>3. \A q \in Seq(E) : q \in P
  BY <1>1, <1>2, SequencesGrow
<1> QED
  BY <1>3 DEF P

\* A set that has all of the elements takes them all.
LEMMA OnlyAll ==
  ASSUME NEW E, NEW s \in Seq(E), NEW S, ToSet(s) \subseteq S
  PROVE  Only(s, S) = s
<1> DEFINE P == {q \in Seq(E) : ToSet(q) \subseteq S => Only(q, S) = q}
<1>1. <<>> \in P
  BY OnlyEmpty
<1>2. ASSUME NEW q \in Seq(E), NEW e \in E, q \in P PROVE Append(q, e) \in P
  <2>1. Append(q, e) \in Seq(E) /\ ToSet(Append(q, e)) = ToSet(q) \cup {e}
    BY AppendedSet
  <2>2. Only(Append(q, e), S) = IF e \in S THEN Append(Only(q, S), e) ELSE Only(q, S)
    BY OnlyAppend
  <2> QED
    BY <1>2, <2>1, <2>2
<1> HIDE DEF P
<1>3. \A q \in Seq(E) : q \in P
  BY <1>1, <1>2, SequencesGrow
<1> QED
  BY <1>3 DEF P

\* Taking twice is taking what both sets have.
LEMMA OnlyTwice ==
  ASSUME NEW E, NEW s \in Seq(E), NEW S, NEW T
  PROVE  Only(Only(s, S), T) = Only(s, S \cap T)
<1> DEFINE P == {q \in Seq(E) : Only(Only(q, S), T) = Only(q, S \cap T)}
<1>1. <<>> \in P
  BY OnlyEmpty
<1>2. ASSUME NEW q \in Seq(E), NEW e \in E, q \in P PROVE Append(q, e) \in P
  <2> DEFINE o == Only(q, S)
  <2>1. o \in Seq(E)
    BY OnlyTakes
  <2>2. Only(Append(q, e), S) = IF e \in S THEN Append(o, e) ELSE o
    BY OnlyAppend
  <2>3. Only(Append(q, e), S \cap T) =
          IF e \in S \cap T THEN Append(Only(q, S \cap T), e) ELSE Only(q, S \cap T)
    BY OnlyAppend
  <2> HIDE DEF o
  <2>4. Only(Append(o, e), T) = IF e \in T THEN Append(Only(o, T), e) ELSE Only(o, T)
    BY <2>1, OnlyAppend
  <2>5. Only(o, T) = Only(q, S \cap T)
    BY <1>2 DEF o
  <2>6. Only(Only(Append(q, e), S), T) = Only(Append(q, e), S \cap T)
    <3> DEFINE x == Append(q, e)
               y == Append(o, e)
               z == Append(Only(q, S \cap T), e)
    <3>1. Only(x, S) = IF e \in S THEN y ELSE o
      BY <2>2
    <3>2. Only(y, T) = IF e \in T THEN z ELSE Only(q, S \cap T)
      BY <2>4, <2>5
    <3>3. Only(x, S \cap T) = IF e \in S \cap T THEN z ELSE Only(q, S \cap T)
      BY <2>3
    <3> HIDE DEF x, y, z
    <3>4. Only(Only(x, S), T) = Only(x, S \cap T)
      BY <3>1, <3>2, <3>3, <2>5
    <3> QED
      BY <3>4 DEF x
  <2>7. Append(q, e) \in Seq(E)
    OBVIOUS
  <2> QED
    BY <2>6, <2>7
<1> HIDE DEF P
<1>3. \A q \in Seq(E) : q \in P
  BY <1>1, <1>2, SequencesGrow
<1> QED
  BY <1>3 DEF P

\* What is taken of a sequence comes in its order.
InOrder(t, s) ==
  \A i, j \in 1..Len(t) : i < j =>
    \E a, b \in 1..Len(s) : a < b /\ s[a] = t[i] /\ s[b] = t[j]

LEMMA OnlyOrdered ==
  ASSUME NEW E, NEW s \in Seq(E), NEW S
  PROVE  InOrder(Only(s, S), s)
<1> DEFINE P == {q \in Seq(E) : InOrder(Only(q, S), q)}
<1>1. <<>> \in P
  <2>1. <<>> \in Seq(E)
    OBVIOUS
  <2>2. InOrder(<<>>, <<>>)
    BY DEF InOrder
  <2> QED
    BY <2>1, <2>2, OnlyEmpty, Zenon
<1>2. ASSUME NEW q \in Seq(E), NEW e \in E, q \in P PROVE Append(q, e) \in P
  <2> DEFINE o == Only(q, S)
             t == Append(q, e)
             more == Append(o, e)
             L == Len(q)
             K == Len(o)
  <2>1. o \in Seq(E) /\ ToSet(o) \subseteq ToSet(q)
    BY OnlyTakes
  <2>2. InOrder(o, q)
    BY <1>2
  <2>3. Only(t, S) = IF e \in S THEN more ELSE o
    BY OnlyAppend
  <2>4. /\ t \in Seq(E) /\ Len(t) = L + 1 /\ t[L + 1] = e /\ L \in Nat
        /\ \A i \in 1..L : t[i] = q[i]
    OBVIOUS
  <2> HIDE DEF o
  <2>5. \A i \in 1..K : \E a \in 1..L : q[a] = o[i]
    <3>1. DOMAIN o = 1..K /\ DOMAIN q = 1..L
      BY <2>1
    <3>2. \A i \in 1..K : o[i] \in ToSet(q)
      BY <2>1, <3>1 DEF ToSet
    <3> QED
      BY <3>1, <3>2 DEF ToSet
  <2>6. /\ Len(more) = K + 1 /\ more[K + 1] = e /\ K \in Nat
        /\ \A i \in 1..K : more[i] = o[i]
    BY <2>1
  <2>7. \A a \in 1..L : a \in 1..(L + 1) /\ a < L + 1
    BY <2>4
  <2>8. L + 1 \in 1..(L + 1)
    BY <2>4
  <2> HIDE DEF t, more, L, K
  <2>9. InOrder(o, t)
    BY <2>2, <2>4, <2>7 DEF InOrder, L
  <2>10. InOrder(more, t)
    <3> SUFFICES ASSUME NEW i \in 1..(K + 1), NEW j \in 1..(K + 1), i < j
                 PROVE  \E a, b \in 1..(L + 1) : a < b /\ t[a] = more[i] /\ t[b] = more[j]
      BY <2>4, <2>6 DEF InOrder
    <3>1. i \in 1..K
      BY <2>6
    <3>2. CASE j = K + 1
      <4>1. PICK a \in 1..L : q[a] = o[i]
        BY <2>5, <3>1
      <4> QED
        BY <2>4, <2>6, <2>7, <2>8, <3>1, <3>2, <4>1
    <3>3. CASE j # K + 1
      <4>1. j \in 1..K
        BY <2>6, <3>3
      <4>2. PICK a, b \in 1..Len(t) : a < b /\ t[a] = o[i] /\ t[b] = o[j]
        BY <2>9, <3>1, <4>1 DEF InOrder, K
      <4> QED
        BY <2>4, <2>6, <3>1, <4>1, <4>2
    <3> QED
      BY <3>2, <3>3
  <2> QED
    BY <2>3, <2>4, <2>9, <2>10 DEF t
<1> HIDE DEF P
<1>3. \A q \in Seq(E) : q \in P
  BY <1>1, <1>2, SequencesGrow
<1> QED
  BY <1>3 DEF P

LEMMA OnlyConcat ==
  ASSUME NEW E, NEW s \in Seq(E), NEW t \in Seq(E), NEW S
  PROVE  Only(s \o t, S) = Only(s, S) \o Only(t, S)
<1> DEFINE P == {q \in Seq(E) : Only(s \o q, S) = Only(s, S) \o Only(q, S)}
<1>0. Only(s, S) \in Seq(E)
  BY OnlyTakes
<1>1. <<>> \in P
  <2>1. s \o <<>> = s /\ Only(s, S) \o <<>> = Only(s, S)
    BY <1>0
  <2>2. Only(s \o <<>>, S) = Only(s, S) \o Only(<<>>, S)
    BY ONLY <2>1, OnlyEmpty
  <2> QED
    BY <2>2
<1>2. ASSUME NEW q \in Seq(E), NEW e \in E, q \in P PROVE Append(q, e) \in P
  <2> DEFINE a == Only(s, S)
             b == Only(q, S)
             c == s \o q
  <2>1. a \in Seq(E) /\ b \in Seq(E) /\ c \in Seq(E) /\ Append(q, e) \in Seq(E)
    BY OnlyTakes
  <2>2. s \o Append(q, e) = Append(c, e)
    OBVIOUS
  <2>3. Only(c, S) = a \o b
    BY <1>2
  <2>4. Only(Append(q, e), S) = IF e \in S THEN Append(b, e) ELSE b
    BY OnlyAppend
  <2> HIDE DEF a, b, c
  <2>5. Only(Append(c, e), S) = IF e \in S THEN Append(Only(c, S), e) ELSE Only(c, S)
    BY <2>1, OnlyAppend
  <2>6. a \o Append(b, e) = Append(a \o b, e)
    BY <2>1
  <2>7. Only(s \o Append(q, e), S) = a \o Only(Append(q, e), S)
    BY <2>2, <2>3, <2>4, <2>5, <2>6
  <2> QED
    BY <2>1, <2>7 DEF a
<1> HIDE DEF P
<1>3. \A q \in Seq(E) : q \in P
  BY <1>1, <1>2, SequencesGrow
<1> QED
  BY <1>3 DEF P

\* Nothing is taken twice of what is there once.
LEMMA OnlyInjective ==
  ASSUME NEW E, NEW s \in Seq(E), NEW S, IsInjective(s)
  PROVE  IsInjective(Only(s, S))
<1> DEFINE P == {q \in Seq(E) : IsInjective(q) => IsInjective(Only(q, S))}
<1>1. <<>> \in P
  BY OnlyEmpty DEF IsInjective
<1>2. ASSUME NEW q \in Seq(E), NEW e \in E, q \in P PROVE Append(q, e) \in P
  <2> DEFINE t == Append(q, e)
             o == Only(q, S)
  <2>1. t \in Seq(E) /\ Len(t) = Len(q) + 1 /\ t[Len(t)] = e /\ Len(q) \in Nat
        /\ \A i \in 1..Len(q) : t[i] = q[i]
    OBVIOUS
  <2>2. Only(t, S) = IF e \in S THEN Append(o, e) ELSE o
    BY OnlyAppend
  <2>3. o \in Seq(E) /\ ToSet(o) = ToSet(q) \cap S
    BY OnlyTakes
  <2>4. IsInjective(q) => IsInjective(o)
    BY <1>2
  <2> HIDE DEF t, o
  <2>5. ASSUME IsInjective(t) PROVE IsInjective(Only(t, S))
    <3>1. IsInjective(q) /\ e \notin ToSet(q)
      <4>1. DOMAIN q = 1..Len(q) /\ DOMAIN t = 1..(Len(q) + 1)
        BY <2>1
      <4> QED
        BY <4>1, <2>1, <2>5 DEF IsInjective, ToSet
    <3>2. IsInjective(o) /\ e \notin ToSet(o)
      BY <3>1, <2>3, <2>4
    <3>3. IsInjective(Append(o, e))
      BY <2>3, <3>2 DEF IsInjective, ToSet
    <3> QED
      BY <2>2, <3>2, <3>3
  <2> QED
    BY <2>1, <2>5 DEF t
<1> HIDE DEF P
<1>3. \A q \in Seq(E) : q \in P
  BY <1>1, <1>2, SequencesGrow
<1> QED
  BY <1>3 DEF P

\* A list of so many things of a kind.
Listing(q, Q, K) == q = [i \in 1..K |-> q[i]] /\ \A i \in 1..K : q[i] \in Q

LEMMA ListingIsSequence ==
  ASSUME NEW Q, NEW K \in Nat, NEW q, Listing(q, Q, K)
  PROVE  q \in Seq(Q) /\ Len(q) = K
BY DEF Listing

Joining(f, E, seqs) ==
  /\ f \in [0..Len(seqs) -> Seq(E)] /\ f[0] = <<>>
  /\ \A i \in 1..Len(seqs) : f[i] = f[i - 1] \o seqs[i]

\* Sequences are joined one after the other.
LEMMA FlattenIsDefined ==
  ASSUME NEW E, NEW seqs \in Seq(Seq(E))
  PROVE  \E f : Joining(f, E, seqs) /\ FlattenSeq(seqs) = f[Len(seqs)]
<1> DEFINE L == Len(seqs)
           Q == Seq(E)
           step == [i \in 1..L |-> [t \in Q |-> t \o seqs[i]]]
           Body(g) == [i \in 1..L |-> IF i = 1 THEN seqs[i] ELSE g[i - 1] \o seqs[i]]
           f == CHOOSE g : g = Body(g)
<1>0. L \in Nat /\ <<>> \in Q /\ \A i \in 1..L : seqs[i] \in Q
  OBVIOUS
<1>a. \A t \in Q, i \in 1..L : t \o seqs[i] \in Q
  BY <1>0
<1>b. FlattenSeq(seqs) = IF L = 0 THEN seqs ELSE f[L]
  BY DEF FlattenSeq
<1>c. \A t \in Q : <<>> \o t = t
  OBVIOUS
<1>z. L = 0 => seqs = <<>>
  OBVIOUS
<1> HIDE DEF L, Q
<1>1. step \in Steps(L, Q)
  BY <1>a DEF Steps
<1>d. \A i \in 1..L, t \in Q : step[i][t] = t \o seqs[i]
  OBVIOUS
<1> HIDE DEF step
<1>2. PICK h : h \in [0..L -> Q] /\ h[0] = <<>> /\ \A i \in 1..L : h[i] = step[i][h[i - 1]]
  <2> DEFINE start == <<>>
  <2>1. L \in Nat
    BY <1>0
  <2>2. start \in Q
    BY <1>0
  <2> HIDE DEF start
  <2>3. \E h : Follows(h, L, Q, start, step)
    BY <2>1, <2>2, <1>1, RecursionIsDefined
  <2> QED
    BY <2>3 DEF start, Follows
<1>3. \A i \in 1..L : h[i] = h[i - 1] \o seqs[i]
  <2>1. \A i \in 1..L : h[i - 1] \in Q
    BY <1>0, <1>2
  <2> QED
    BY <2>1, <1>2, <1>d
<1>4. h \in [0..L -> Q] /\ h[0] = <<>>
  BY <1>2
<1> DEFINE k == [i \in 1..L |-> h[i]]
<1>5. k = Body(k)
  <2>1. ASSUME NEW i \in 1..L PROVE k[i] = Body(k)[i]
    <3>1. CASE i = 1
      <4>a. h[i] = h[i - 1] \o seqs[i]
        BY <1>3
      <4>0. i - 1 = 0
        BY <3>1
      <4>1. h[1] = h[0] \o seqs[1]
        BY <4>a, <4>0, <3>1
      <4>2. h[1] = seqs[1]
        BY <4>1, <1>0, <1>4, <1>c, <3>1
      <4> QED
        BY <4>2, <3>1
    <3>2. CASE i # 1
      <4>1. i - 1 \in 1..L
        BY <1>0, <3>2
      <4> QED
        BY <4>1, <1>3, <3>2
    <3> QED
      BY <3>1, <3>2
  <2> QED
    BY <2>1
<1>6. f = Body(f)
  <2> HIDE DEF Body, k
  <2> QED
    BY <1>5
<1> HIDE DEF f
<1>7. \A i \in 1..L : f[i] = h[i]
  <2> DEFINE P == {i \in 0..L : i # 0 => f[i] = h[i]}
  <2>1. 0 \in P
    BY <1>0
  <2>2. ASSUME NEW n \in 1..L, n - 1 \in P PROVE n \in P
    <3>1. f[n] = Body(f)[n]
      BY <1>6
    <3>2. n \in 0..L
      BY <1>0
    <3>3. CASE n = 1
      <4>1. f[1] = seqs[1]
        BY <3>1, <3>3
      <4>a. h[n] = h[n - 1] \o seqs[n]
        BY <1>3
      <4>0. n - 1 = 0
        BY <3>3
      <4>2. h[1] = h[0] \o seqs[1]
        BY <4>a, <4>0, <3>3
      <4>3. h[1] = seqs[1]
        BY <4>2, <1>0, <1>4, <1>c, <3>3
      <4> QED
        BY <4>1, <4>3, <3>2, <3>3
    <3>4. CASE n # 1
      <4>1. n - 1 # 0 /\ f[n - 1] = h[n - 1]
        BY <2>2, <1>0, <3>4
      <4>2. f[n] = f[n - 1] \o seqs[n]
        BY <3>1, <3>4
      <4>3. h[n] = h[n - 1] \o seqs[n]
        BY <1>3
      <4> QED
        BY <3>2, <4>1, <4>2, <4>3
    <3> QED
      BY <3>3, <3>4
  <2>3. \A n \in 0..L : n \in P
    <3> HIDE DEF P
    <3> QED
      BY <1>0, <2>1, <2>2, UpTo
  <2> QED
    BY <2>3, <1>0
<1>8. FlattenSeq(seqs) = h[L]
  <2>1. CASE L = 0
    BY <1>b, <1>z, <1>4, <2>1
  <2>2. CASE L # 0
    <3>1. L \in 1..L
      BY <1>0, <2>2
    <3> QED
      BY <1>b, <1>7, <2>2, <3>1
  <2> QED
    BY <2>1, <2>2
<1>9. Joining(h, E, seqs)
  BY <1>3, <1>4 DEF Joining, L, Q
<1> QED
  BY <1>8, <1>9 DEF L

LEMMA FlattenEmpty ==
  FlattenSeq(<<>>) = <<>>
BY DEF FlattenSeq

LEMMA FlattenAppend ==
  ASSUME NEW E, NEW seqs \in Seq(Seq(E)), NEW t \in Seq(E)
  PROVE  FlattenSeq(Append(seqs, t)) = FlattenSeq(seqs) \o t
<1> DEFINE L == Len(seqs)
           more == Append(seqs, t)
<1>1. L \in Nat /\ more \in Seq(Seq(E)) /\ Len(more) = L + 1 /\ more[L + 1] = t
  OBVIOUS
<1>2. \A i \in 1..L : more[i] = seqs[i]
  OBVIOUS
<1> HIDE DEF more
<1>3. PICK f : Joining(f, E, seqs) /\ FlattenSeq(seqs) = f[Len(seqs)]
  BY FlattenIsDefined
<1>4. PICK g : Joining(g, E, more) /\ FlattenSeq(more) = g[Len(more)]
  BY <1>1, FlattenIsDefined
<1>5. f[0] = <<>> /\ \A i \in 1..L : f[i] = f[i - 1] \o seqs[i]
  BY <1>3 DEF Joining
<1>6. g[0] = <<>> /\ \A i \in 1..(L + 1) : g[i] = g[i - 1] \o more[i]
  BY <1>1, <1>4 DEF Joining
<1> DEFINE Q == {n \in 0..L : f[n] = g[n]}
<1>7. 0 \in Q
  BY <1>1, <1>5, <1>6
<1>8. ASSUME NEW n \in 1..L, n - 1 \in Q PROVE n \in Q
  <2>1. n \in 1..(L + 1) /\ n \in 0..L /\ more[n] = seqs[n]
    BY <1>1, <1>2
  <2>2. f[n - 1] = g[n - 1]
    BY <1>8
  <2>3. f[n] = g[n]
    BY <1>5, <1>6, <2>1, <2>2
  <2> QED
    BY <2>1, <2>3
<1>9. \A n \in 0..L : n \in Q
  <2> HIDE DEF Q, L
  <2> QED
    BY <1>1, <1>7, <1>8, UpTo
<1>10. f[L] = g[L]
  BY <1>1, <1>9
<1>11. g[L + 1] = g[L] \o more[L + 1]
  <2> DEFINE k == L + 1
  <2>1. k \in 1..(L + 1) /\ k - 1 = L
    BY <1>1
  <2> HIDE DEF k
  <2>2. g[k] = g[k - 1] \o more[k]
    BY <1>6, <2>1
  <2>3. g[k] = g[L] \o more[k]
    BY <2>1, <2>2
  <2> QED
    BY <2>3 DEF k
<1> QED
  BY <1>1, <1>3, <1>4, <1>10, <1>11 DEF more

LEMMA ConcatShape ==
  ASSUME NEW E, NEW f \in Seq(E), NEW t \in Seq(E), NEW j, j = f \o t
  PROVE  /\ j \in Seq(E) /\ Len(f) \in Nat /\ Len(t) \in Nat
         /\ DOMAIN f = 1..Len(f) /\ DOMAIN t = 1..Len(t) /\ DOMAIN j = 1..(Len(f) + Len(t))
         /\ \A i \in 1..Len(f) : i \in DOMAIN j /\ j[i] = f[i]
         /\ \A i \in 1..Len(t) : Len(f) + i \in DOMAIN j /\ j[Len(f) + i] = t[i]
         /\ \A i \in DOMAIN j : i \in 1..Len(f) \/ i - Len(f) \in 1..Len(t)
<1>1. f \o t \in Seq(E) /\ Len(f \o t) = Len(f) + Len(t) /\ Len(f) \in Nat /\ Len(t) \in Nat
  OBVIOUS
<1>2. /\ \A i \in 1..Len(f) : (f \o t)[i] = f[i]
      /\ \A i \in 1..Len(t) : (f \o t)[Len(f) + i] = t[i]
  OBVIOUS
<1>3. DOMAIN f = 1..Len(f) /\ DOMAIN t = 1..Len(t) /\ DOMAIN (f \o t) = 1..(Len(f) + Len(t))
  BY <1>1
<1>4. \A i \in 1..Len(f) : i \in DOMAIN j /\ j[i] = f[i]
  BY <1>1, <1>2, <1>3
<1>5. \A i \in 1..Len(t) : Len(f) + i \in DOMAIN j /\ j[Len(f) + i] = t[i]
  BY <1>1, <1>2, <1>3
<1>6. \A i \in DOMAIN j : i \in 1..Len(f) \/ i - Len(f) \in 1..Len(t)
  BY <1>1, <1>3
<1> QED
  BY <1>1, <1>3, <1>4, <1>5, <1>6

LEMMA ConcatSet ==
  ASSUME NEW E, NEW f \in Seq(E), NEW t \in Seq(E)
  PROVE  f \o t \in Seq(E) /\ ToSet(f \o t) = ToSet(f) \cup ToSet(t)
<1> DEFINE j == f \o t
<1>0. j \in Seq(E)
  OBVIOUS
<1>1. /\ Len(f) \in Nat /\ Len(t) \in Nat
      /\ DOMAIN f = 1..Len(f) /\ DOMAIN t = 1..Len(t)
      /\ \A i \in 1..Len(f) : i \in DOMAIN j /\ j[i] = f[i]
      /\ \A i \in 1..Len(t) : Len(f) + i \in DOMAIN j /\ j[Len(f) + i] = t[i]
      /\ \A i \in DOMAIN j : i \in 1..Len(f) \/ i - Len(f) \in 1..Len(t)
      /\ DOMAIN j = 1..(Len(f) + Len(t))
  <2> HIDE DEF j
  <2>1. j = f \o t
    BY DEF j
  <2> QED
    BY <2>1, ConcatShape
<1> HIDE DEF j
<1>2. ASSUME NEW i \in DOMAIN j PROVE j[i] \in ToSet(f) \cup ToSet(t)
  <2>1. i \in 1..Len(f) \/ (i - Len(f) \in 1..Len(t) /\ i = Len(f) + (i - Len(f)))
    BY <1>1
  <2> QED
    BY <2>1, <1>1 DEF ToSet
<1>3. ToSet(j) \subseteq ToSet(f) \cup ToSet(t)
  BY <1>2 DEF ToSet
<1>4. ToSet(f) \subseteq ToSet(j)
  BY <1>1 DEF ToSet
<1>5. ToSet(t) \subseteq ToSet(j)
  BY <1>1 DEF ToSet
<1>6. ToSet(j) = ToSet(f) \cup ToSet(t)
  BY <1>3, <1>4, <1>5
<1> QED
  BY <1>0, <1>6 DEF j

LEMMA ConcatInjective ==
  ASSUME NEW E, NEW f \in Seq(E), NEW t \in Seq(E),
         IsInjective(f), IsInjective(t), ToSet(f) \cap ToSet(t) = {}
  PROVE  IsInjective(f \o t)
<1> DEFINE j == f \o t
<1>1. /\ Len(f) \in Nat /\ Len(t) \in Nat
      /\ DOMAIN f = 1..Len(f) /\ DOMAIN t = 1..Len(t)
      /\ \A i \in 1..Len(f) : i \in DOMAIN j /\ j[i] = f[i]
      /\ \A i \in 1..Len(t) : Len(f) + i \in DOMAIN j /\ j[Len(f) + i] = t[i]
      /\ \A i \in DOMAIN j : i \in 1..Len(f) \/ i - Len(f) \in 1..Len(t)
      /\ DOMAIN j = 1..(Len(f) + Len(t))
  <2> HIDE DEF j
  <2>1. j = f \o t
    BY DEF j
  <2> QED
    BY <2>1, ConcatShape
<1> HIDE DEF j
<1>2. \A i \in 1..Len(f) : j[i] \in ToSet(f)
  BY <1>1 DEF ToSet
<1>3. \A i \in DOMAIN j : i \notin 1..Len(f) =>
        /\ i - Len(f) \in 1..Len(t) /\ j[i] = t[i - Len(f)] /\ j[i] \in ToSet(t)
  <2> SUFFICES ASSUME NEW i \in DOMAIN j, i \notin 1..Len(f)
               PROVE  i - Len(f) \in 1..Len(t) /\ j[i] = t[i - Len(f)] /\ j[i] \in ToSet(t)
    OBVIOUS
  <2> DEFINE k == i - Len(f)
  <2>1. k \in 1..Len(t) /\ i = Len(f) + k
    BY <1>1
  <2> HIDE DEF k
  <2>2. j[i] = t[k]
    BY <1>1, <2>1
  <2>3. t[k] \in ToSet(t)
    BY <1>1, <2>1 DEF ToSet
  <2> QED
    BY <2>1, <2>2, <2>3 DEF k
<1>4. ASSUME NEW a \in DOMAIN j, NEW b \in DOMAIN j, j[a] = j[b] PROVE a = b
  <2>1. CASE a \in 1..Len(f) /\ b \in 1..Len(f)
    BY <1>1, <1>4, <2>1 DEF IsInjective
  <2>2. CASE a \in 1..Len(f) /\ b \notin 1..Len(f)
    BY <1>2, <1>3, <1>4, <2>2
  <2>3. CASE a \notin 1..Len(f) /\ b \in 1..Len(f)
    BY <1>2, <1>3, <1>4, <2>3
  <2>4. CASE a \notin 1..Len(f) /\ b \notin 1..Len(f)
    <3>1. a - Len(f) = b - Len(f)
      BY <1>1, <1>3, <1>4, <2>4 DEF IsInjective
    <3> QED
      BY <3>1, <1>1
  <2> QED
    BY <2>1, <2>2, <2>3, <2>4
<1>5. IsInjective(j)
  BY <1>4 DEF IsInjective
<1> QED
  BY <1>5 DEF j

\* What is in the joined sequence.
LEMMA FlattenTakes ==
  ASSUME NEW E, NEW seqs \in Seq(Seq(E))
  PROVE  /\ FlattenSeq(seqs) \in Seq(E)
         /\ ToSet(FlattenSeq(seqs)) = UNION {ToSet(seqs[i]) : i \in 1..Len(seqs)}
<1> DEFINE All(q) == UNION {ToSet(q[i]) : i \in 1..Len(q)}
           P == {q \in Seq(Seq(E)) :
                   FlattenSeq(q) \in Seq(E) /\ ToSet(FlattenSeq(q)) = All(q)}
<1>1. <<>> \in P
  <2>1. <<>> \in Seq(E) /\ <<>> \in Seq(Seq(E))
    OBVIOUS
  <2>2. FlattenSeq(<<>>) \in Seq(E) /\ ToSet(FlattenSeq(<<>>)) = {}
    BY <2>1, FlattenEmpty, EmptySet, Zenon
  <2>3. All(<<>>) = {}
    OBVIOUS
  <2> HIDE DEF All
  <2> QED
    BY <2>1, <2>2, <2>3
<1>2. ASSUME NEW q \in Seq(Seq(E)), NEW t \in Seq(E), q \in P PROVE Append(q, t) \in P
  <2> DEFINE f == FlattenSeq(q)
             more == Append(q, t)
  <2>1. f \in Seq(E) /\ ToSet(f) = All(q)
    BY <1>2
  <2>2. FlattenSeq(more) = f \o t
    BY FlattenAppend
  <2>3. /\ more \in Seq(Seq(E)) /\ Len(more) = Len(q) + 1 /\ more[Len(q) + 1] = t
        /\ Len(q) \in Nat /\ \A i \in 1..Len(q) : more[i] = q[i]
    OBVIOUS
  <2> HIDE DEF f, more
  <2>4. f \o t \in Seq(E) /\ ToSet(f \o t) = ToSet(f) \cup ToSet(t)
    BY <2>1, ConcatSet
  <2>5. All(more) = All(q) \cup ToSet(t)
    <3>1. \A i \in 1..Len(more) : i \in 1..Len(q) \/ i = Len(q) + 1
      BY <2>3
    <3>2. \A i \in 1..Len(q) : i \in 1..Len(more)
      BY <2>3
    <3>3. Len(q) + 1 \in 1..Len(more)
      BY <2>3
    <3> QED
      BY <2>3, <3>1, <3>2, <3>3
  <2> HIDE DEF All
  <2>6. FlattenSeq(more) \in Seq(E) /\ ToSet(FlattenSeq(more)) = All(more)
    BY <2>1, <2>2, <2>4, <2>5
  <2>7. more \in P
    BY <2>3, <2>6
  <2> QED
    BY <2>7 DEF more
<1> HIDE DEF P
<1>3. \A q \in Seq(Seq(E)) : q \in P
  BY <1>1, <1>2, SequencesGrow
<1> QED
  BY <1>3 DEF P

\* Nothing is twice in a joined sequence if in none of its parts and in no two of them.
Apart(q) ==
  /\ \A i \in 1..Len(q) : IsInjective(q[i])
  /\ \A i, j \in 1..Len(q) : i # j => ToSet(q[i]) \cap ToSet(q[j]) = {}

LEMMA FlattenInjective ==
  ASSUME NEW E, NEW seqs \in Seq(Seq(E)), Apart(seqs)
  PROVE  IsInjective(FlattenSeq(seqs))
<1> DEFINE P == {q \in Seq(Seq(E)) : Apart(q) => IsInjective(FlattenSeq(q))}
<1>1. <<>> \in P
  <2>1. <<>> \in Seq(Seq(E))
    OBVIOUS
  <2>2. IsInjective(<<>>)
    BY DEF IsInjective
  <2> QED
    BY <2>1, <2>2, FlattenEmpty, Zenon
<1>2. ASSUME NEW q \in Seq(Seq(E)), NEW t \in Seq(E), q \in P PROVE Append(q, t) \in P
  <2> DEFINE f == FlattenSeq(q)
             more == Append(q, t)
  <2>1. f \in Seq(E) /\ ToSet(f) = UNION {ToSet(q[i]) : i \in 1..Len(q)}
    BY FlattenTakes
  <2>2. FlattenSeq(more) = f \o t
    BY FlattenAppend
  <2>3. /\ more \in Seq(Seq(E)) /\ Len(more) = Len(q) + 1 /\ more[Len(q) + 1] = t
        /\ Len(q) \in Nat /\ \A i \in 1..Len(q) : more[i] = q[i]
    OBVIOUS
  <2>4. Apart(q) => IsInjective(f)
    BY <1>2
  <2> HIDE DEF f, more
  <2>5. ASSUME Apart(more) PROVE IsInjective(FlattenSeq(more))
    <3>1. \A i \in 1..Len(q) : i \in 1..Len(more) /\ i # Len(q) + 1
      BY <2>3
    <3>2. Len(q) + 1 \in 1..Len(more)
      BY <2>3
    <3>3. Apart(q)
      BY <2>3, <2>5, <3>1 DEF Apart
    <3>4. IsInjective(t)
      BY <2>3, <2>5, <3>2 DEF Apart
    <3>5. \A i \in 1..Len(q) : ToSet(q[i]) \cap ToSet(t) = {}
      BY <2>3, <2>5, <3>1, <3>2 DEF Apart
    <3>6. ToSet(f) \cap ToSet(t) = {}
      BY <2>1, <3>5
    <3> QED
      BY <2>1, <2>2, <2>4, <3>3, <3>4, <3>6, ConcatInjective
  <2>6. more \in P
    BY <2>3, <2>5
  <2> QED
    BY <2>6 DEF more
<1> HIDE DEF P
<1>3. \A q \in Seq(Seq(E)) : q \in P
  BY <1>1, <1>2, SequencesGrow
<1> QED
  BY <1>3 DEF P

\* A sequence without repetitions is as long as its set is large.
LEMMA InjectiveLength ==
  ASSUME NEW E, NEW s \in Seq(E), IsInjective(s)
  PROVE  IsFiniteSet(ToSet(s)) /\ Cardinality(ToSet(s)) = Len(s)
<1>0. Len(s) \in Nat /\ DOMAIN s = 1..Len(s)
  OBVIOUS
<1>1. s = [i \in 1..Len(s) |-> s[i]]
  OBVIOUS
<1>2. s \in [1..Len(s) -> ToSet(s)]
  BY <1>0, <1>1 DEF ToSet
<1>3. \A x \in ToSet(s) : \E i \in 1..Len(s) : s[i] = x
  BY <1>0 DEF ToSet
<1>4. s \in Bijection(1..Len(s), ToSet(s))
  BY <1>2, <1>3 DEF Bijection, Injection, Surjection
<1>5. ExistsBijection(1..Len(s), ToSet(s))
  BY <1>4 DEF ExistsBijection
<1>6. IsFiniteSet(1..Len(s)) /\ Cardinality(1..Len(s)) = Len(s)
  <2>1. 1 \in Int /\ Len(s) \in Int
    BY <1>0
  <2>2. IsFiniteSet(1..Len(s)) /\ Cardinality(1..Len(s)) = IF 1 > Len(s) THEN 0 ELSE Len(s) - 1 + 1
    BY <2>1, FS_Interval
  <2> QED
    BY <1>0, <2>2
<1> QED
  BY <1>5, <1>6, FS_Bijection

LEMMA RestOfSequence ==
  ASSUME NEW E, NEW s \in Seq(E), NEW k \in 1..Len(s)
  PROVE  /\ SubSeq(s, k, Len(s)) \in Seq(E) /\ SubSeq(s, k, Len(s)) # <<>>
         /\ Head(SubSeq(s, k, Len(s))) = s[k]
         /\ SubSeq(s, Len(s), Len(s)) = <<s[Len(s)]>>
<1> DEFINE q == SubSeq(s, k, Len(s))
<1>1. Len(s) \in Nat /\ k \in Nat /\ 1 <= k /\ k <= Len(s) /\ k <= Len(s) + 1
  OBVIOUS
<1>2. q \in Seq(E) /\ Len(q) = Len(s) - k + 1
  BY <1>1
<1>3. Len(q) > 0
  BY <1>1, <1>2
<1>4. q # <<>>
  <2> HIDE DEF q
  <2> QED
    BY <1>3
<1>5. q[1] = s[k]
  BY <1>1
<1>6. Head(q) = q[1]
  <2> HIDE DEF q
  <2> QED
    BY <1>2, <1>4
<1>7. SubSeq(s, Len(s), Len(s)) = <<s[Len(s)]>>
  <2> DEFINE L == Len(s)
             one == SubSeq(s, L, L)
  <2>1. L \in Nat /\ 1 <= L /\ L <= L + 1 /\ L - L + 1 = 1
    BY <1>1
  <2>2. one \in Seq(E) /\ Len(one) = L - L + 1 /\ one[1] = s[L]
    BY <2>1
  <2>3. Len(one) = 1
    BY <2>1, <2>2
  <2> HIDE DEF one
  <2>4. one = <<one[1]>>
    BY <2>2, <2>3
  <2> QED
    BY <2>2, <2>4 DEF one
<1> QED
  BY <1>2, <1>4, <1>5, <1>6, <1>7

LEMMA SequenceWithin ==
  ASSUME NEW E, NEW s \in Seq(E), NEW F, ToSet(s) \subseteq F
  PROVE  s \in Seq(F)
<1>1. Len(s) \in Nat /\ DOMAIN s = 1..Len(s)
  OBVIOUS
<1>2. s = [i \in 1..Len(s) |-> s[i]]
  OBVIOUS
<1>3. \A i \in 1..Len(s) : s[i] \in F
  BY <1>1 DEF ToSet
<1> DEFINE K == Len(s)
<1>4. Listing(s, F, K)
  BY <1>2, <1>3 DEF Listing
<1>5. K \in Nat
  BY <1>1
<1> HIDE DEF K
<1> QED
  BY <1>4, <1>5, ListingIsSequence

LEMMA ConcatEmpty ==
  ASSUME NEW E, NEW s \in Seq(E)
  PROVE  s \o <<>> = s
OBVIOUS

=============================================================================
