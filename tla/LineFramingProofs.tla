-------------------------- MODULE LineFramingProofs --------------------------
(***************************************************************************)
(* A connection's bytes come to a queue of lines, for any input, any       *)
(* pieces and any bytes: the lines of a stream, defined on the whole of    *)
(* it, are those its reader splits off piece by piece.                     *)
(***************************************************************************)
EXTENDS LineFraming, FiniteSetTheorems, WellFoundedInduction, SequenceTheorems, TLAPS

-----------------------------------------------------------------------------
(* Lines of a stream.                                                       *)

\* A set of numbers has a least one.
LEMMA LeastOf ==
    ASSUME NEW S \in SUBSET Nat, S # {}
    PROVE  \E n \in S : \A m \in S : n <= m
<1> DEFINE R == {ss \in Nat \X Nat : ss[1] < ss[2]}
<1>1. IsWellFoundedOn(R, Nat)
  BY NatLessThanWellFounded DEF OpToRel
<1> HIDE DEF R
<1>2. PICK n \in S : \A m \in S : ~(<<m, n>> \in R)
  BY <1>1, WFMin
<1>3. ASSUME NEW m \in S PROVE n <= m
  <2>1. m \in Nat /\ n \in Nat /\ <<m, n>> \notin R
    BY <1>2
  <2>2. ~(m < n)
    BY <2>1 DEF R
  <2>3. QED
    BY <2>1, <2>2
<1>4. QED
  BY <1>3

\* The member of a set that has one.
LEMMA TheOne == ASSUME NEW x PROVE The({x}) = x
  BY DEF The

\* split(b"\n", 1) stops at the first newline.
LEMMA LineEndProps ==
    ASSUME NEW b \in Seq(Bytes), HasLine(b)
    PROVE  /\ LineEnd(b) \in 1..Len(b)
           /\ b[LineEnd(b)] = NL
           /\ \A j \in 1..(LineEnd(b) - 1) : b[j] # NL
<1>1. PICK i \in {i \in 1..Len(b) : b[i] = NL} : \A j \in {j \in 1..Len(b) : b[j] = NL} : i <= j
  <2>1. {i \in 1..Len(b) : b[i] = NL} # {} /\ {i \in 1..Len(b) : b[i] = NL} \in SUBSET Nat
    BY DEF HasLine
  <2>2. QED
    BY <2>1, LeastOf
<1>2. i \in DOMAIN b /\ b[i] = NL /\ \A j \in 1..(i - 1) : b[j] # NL
  BY <1>1
<1>3. QED
  BY <1>2 DEF LineEnd

\* A line's beginning is where it must be.
LEMMA LineStartIs ==
    ASSUME NEW b \in Seq(Bytes), NEW i \in 1..Len(b), NEW s \in 1..i,
           LineBreak(b, s - 1), \A j \in s..(i - 1) : b[j] # NL
    PROVE  LineStart(b, i) = s
<1> DEFINE S == {r \in 1..i : LineBreak(b, r - 1) /\ \A j \in r..(i - 1) : b[j] # NL}
<1>1. ASSUME NEW r \in S PROVE r = s
  <2>1. r \in 1..i /\ LineBreak(b, r - 1) /\ \A j \in r..(i - 1) : b[j] # NL
    OBVIOUS
  <2>2. CASE r < s
    <3>1. s - 1 \in r..(i - 1) /\ s - 1 # 0
      BY <2>1, <2>2
    <3>2. QED
      BY <2>1, <3>1 DEF LineBreak
  <2>3. CASE s < r
    <3>1. r - 1 \in s..(i - 1) /\ r - 1 # 0
      BY <2>1, <2>3
    <3>2. QED
      BY <2>1, <3>1 DEF LineBreak
  <2>4. QED
    BY <2>1, <2>2, <2>3
<1>2. S = {s}
  BY <1>1
<1>3. QED
  BY <1>2, TheOne DEF LineStart

\* Every position of a stream is in a line.
LEMMA LineStartProps ==
    ASSUME NEW b \in Seq(Bytes), NEW i \in 1..Len(b)
    PROVE  /\ LineStart(b, i) \in 1..i
           /\ LineBreak(b, LineStart(b, i) - 1)
           /\ \A j \in LineStart(b, i)..(i - 1) : b[j] # NL
<1> DEFINE Back == {n \in 0..(i - 1) : LineBreak(b, i - 1 - n)}
<1>1. PICK n \in Back : \A m \in Back : n <= m
  <2>1. i - 1 \in Back
    BY DEF LineBreak
  <2>2. Back \in SUBSET Nat
    OBVIOUS
  <2> HIDE DEF Back
  <2>3. QED
    BY <2>1, <2>2, LeastOf
<1>2. n \in 0..(i - 1) /\ i - n \in 1..i /\ LineBreak(b, (i - n) - 1)
  BY <1>1
<1>3. ASSUME NEW j \in (i - n)..(i - 1) PROVE b[j] # NL
  <2>1. i - 1 - j \in 0..(i - 1) /\ i - 1 - j < n /\ i - 1 - (i - 1 - j) = j
    BY <1>1
  <2>2. i - 1 - j \notin Back
    <3> HIDE DEF Back
    <3>1. QED
      BY <1>1, <1>2, <2>1
  <2>0. ~LineBreak(b, i - 1 - (i - 1 - j))
    BY <2>1, <2>2
  <2>3. QED
    BY <2>0, <2>1 DEF LineBreak
<1>4. LineStart(b, i) = i - n
  BY <1>2, <1>3, LineStartIs
<1>5. QED
  BY <1>2, <1>3, <1>4

\* What a stream has begun with.
LEMMA PrefixProps ==
    ASSUME NEW b \in Seq(Bytes), NEW k \in 0..Len(b)
    PROVE  /\ SubSeq(b, 1, k) \in Seq(Bytes)
           /\ Len(SubSeq(b, 1, k)) = k
           /\ \A i \in 1..k : SubSeq(b, 1, k)[i] = b[i]
  BY SubSeqProperties

\* The beginning of a beginning is a beginning.
LEMMA PrefixOfPrefix ==
    ASSUME NEW b \in Seq(Bytes), NEW k \in 0..Len(b), NEW j \in 0..k
    PROVE  SubSeq(SubSeq(b, 1, k), 1, j) = SubSeq(b, 1, j)
<1> DEFINE p == SubSeq(b, 1, k)
           q == SubSeq(p, 1, j)
           r == SubSeq(b, 1, j)
<1>1. p \in Seq(Bytes) /\ Len(p) = k /\ \A i \in 1..k : p[i] = b[i]
  BY PrefixProps
<1>2. r \in Seq(Bytes) /\ Len(r) = j /\ \A i \in 1..j : r[i] = b[i]
  BY PrefixProps
<1> HIDE DEF p, r
<1>3. q \in Seq(Bytes) /\ Len(q) = j /\ \A i \in 1..j : q[i] = p[i]
  BY <1>1, PrefixProps
<1> HIDE DEF q
<1>4. q = r
  BY <1>1, <1>2, <1>3, SeqEqual
<1>5. QED
  BY <1>4 DEF p, q, r

\* A line that is over does not change.
LEMMA LineAtPrefix ==
    ASSUME NEW b \in Seq(Bytes), NEW k \in 0..Len(b), NEW i \in 1..k
    PROVE  LineAt(SubSeq(b, 1, k), i) = LineAt(b, i)
<1> DEFINE p == SubSeq(b, 1, k)
           s == LineStart(b, i)
           x == SubSeq(p, s, i - 1)
           y == SubSeq(b, s, i - 1)
<1>1. p \in Seq(Bytes) /\ Len(p) = k /\ \A j \in 1..k : p[j] = b[j]
  BY PrefixProps
<1> HIDE DEF p
<1>2. s \in 1..i /\ LineBreak(b, s - 1) /\ \A j \in s..(i - 1) : b[j] # NL
  BY LineStartProps
<1> HIDE DEF s
<1>3. LineStart(p, i) = s
  <2>1. LineBreak(p, s - 1) /\ \A j \in s..(i - 1) : p[j] # NL
    BY <1>1, <1>2 DEF LineBreak
  <2>2. QED
    BY <1>1, <1>2, <2>1, LineStartIs
<1>4. \A j \in s..(i - 1) : p[j] \in Bytes /\ b[j] \in Bytes
  BY <1>1, <1>2
<1>5. /\ x \in Seq(Bytes) /\ Len(x) = (IF s <= i - 1 THEN i - 1 - s + 1 ELSE 0)
      /\ \A j \in 1..(i - 1 - s + 1) : x[j] = p[s + j - 1]
  BY <1>2, <1>4, SubSeqProperties
<1>6. /\ y \in Seq(Bytes) /\ Len(y) = (IF s <= i - 1 THEN i - 1 - s + 1 ELSE 0)
      /\ \A j \in 1..(i - 1 - s + 1) : y[j] = b[s + j - 1]
  BY <1>2, <1>4, SubSeqProperties
<1> HIDE DEF x, y
<1>7. x = y
  <2>1. Len(x) = Len(y) /\ \A j \in 1..Len(x) : x[j] = y[j]
    BY <1>1, <1>2, <1>5, <1>6
  <2>2. QED
    BY <1>5, <1>6, <2>1, SeqEqual
<1>8. QED
  BY <1>3, <1>7 DEF LineAt, x, y, p, s

\* The positions up to k.
Cut(S, k) == {i \in S : i <= k}

\* Nor does what ends, or asks, before it.
LEMMA EndsPrefix ==
    ASSUME NEW b \in Seq(Bytes), NEW k \in 0..Len(b)
    PROVE  /\ Ends(SubSeq(b, 1, k)) = Cut(Ends(b), k)
           /\ Asks(SubSeq(b, 1, k)) = Cut(Asks(b), k)
<1> DEFINE p == SubSeq(b, 1, k)
<1>1. p \in Seq(Bytes) /\ Len(p) = k /\ \A j \in 1..k : p[j] = b[j]
  BY PrefixProps
<1>2. \A i \in 1..k : LineAt(p, i) = LineAt(b, i)
  BY LineAtPrefix
<1> HIDE DEF p
<1>3. DOMAIN p = 1..k /\ DOMAIN b = 1..Len(b)
  BY <1>1
<1>4. Ends(p) = Cut(Ends(b), k)
  BY <1>1, <1>3 DEF Ends, Cut
<1>5. \A i \in Ends(p) : i \in 1..k
  BY <1>3 DEF Ends
<1>6. Asks(p) = Cut(Asks(b), k)
  BY <1>2, <1>4, <1>5 DEF Asks, Cut
<1>7. QED
  BY <1>4, <1>6 DEF p

-----------------------------------------------------------------------------
(* Lines in order.                                                          *)

\* A set of numbers up to a bound is finite, and so is what is in it.
LEMMA UpTo ==
    ASSUME NEW m \in Nat, NEW S \in SUBSET (1..m)
    PROVE  IsFiniteSet(S) /\ S \in SUBSET Nat
<1>1. IsFiniteSet(1..m)
  BY FS_Interval
<1>2. IsFiniteSet(S)
  BY <1>1, FS_Subset
<1>3. QED
  BY <1>2

\* A part of a finite set is finite, and no larger.
LEMMA Countable ==
    ASSUME NEW S, IsFiniteSet(S), NEW T \in SUBSET S
    PROVE  /\ IsFiniteSet(T)
           /\ Cardinality(T) \in Nat /\ Cardinality(S) \in Nat
           /\ Cardinality(T) <= Cardinality(S)
  BY FS_Subset, FS_CardinalityType

\* A larger set has the same first members, if it grows at its end.
LEMMA NthPrefix ==
    ASSUME NEW S \in SUBSET Nat, IsFiniteSet(S), NEW k \in Nat,
           NEW n \in 1..Cardinality(Cut(S, k))
    PROVE  Nth(Cut(S, k), n) = Nth(S, n)
<1> USE DEF Cut
<1> DEFINE P == Cut(S, k)
           Below(T, i) == {j \in T : j <= i}
<1>0. \A i \in S : i \in Nat
  OBVIOUS
<1>1. ASSUME NEW i \in P PROVE Below(P, i) = Below(S, i)
  <2>1. \A j \in S : j <= i => j <= k
    BY <1>0
  <2>2. QED
    BY <2>1
<1>2. ASSUME NEW i \in S \ P PROVE Cardinality(Below(S, i)) > Cardinality(P)
  <2>0. i \in S /\ i > k
    BY <1>0
  <2>1. P \cup {i} \subseteq Below(S, i) /\ i \notin P
    <3>1. \A j \in P : j <= i
      BY <1>0, <2>0
    <3>2. P \subseteq Below(S, i)
      BY <3>1
    <3>3. i \in Below(S, i) /\ i \notin P
      BY <1>0, <2>0
    <3> HIDE DEF P, Below
    <3>4. QED
      BY <3>2, <3>3
  <2>2. P \in SUBSET S /\ Below(S, i) \in SUBSET S
    OBVIOUS
  <2> HIDE DEF P, Below
  <2>3. /\ IsFiniteSet(P) /\ Cardinality(P) \in Nat
        /\ IsFiniteSet(Below(S, i)) /\ Cardinality(Below(S, i)) \in Nat
    BY <2>2, Countable
  <2>4. Cardinality(P \cup {i}) = Cardinality(P) + 1
    BY <2>1, <2>3, FS_AddElement
  <2>5. Cardinality(P \cup {i}) <= Cardinality(Below(S, i))
    BY <2>1, <2>3, FS_Subset
  <2>6. QED
    BY <2>3, <2>4, <2>5
<1>3. n \in Nat /\ n <= Cardinality(P) /\ Cardinality(P) \in Nat
  <2>1. P \in SUBSET S /\ n \in 1..Cardinality(P)
    OBVIOUS
  <2> HIDE DEF P
  <2>2. Cardinality(P) \in Nat
    BY <2>1, Countable
  <2>3. QED
    BY <2>1, <2>2
<1>4. \A i \in S \ P : Cardinality(Below(S, i)) # n
  <2> SUFFICES ASSUME NEW i \in S \ P PROVE Cardinality(Below(S, i)) # n
    OBVIOUS
  <2>1. Cardinality(Below(S, i)) > Cardinality(P)
    BY <1>2
  <2> HIDE DEF P, Below
  <2>2. QED
    BY <1>3, <2>1
<1>5. P \subseteq S
  OBVIOUS
<1>6. Nth(P, n) = {i \in P : Cardinality(Below(P, i)) = n}
      /\ Nth(S, n) = {i \in S : Cardinality(Below(S, i)) = n}
  BY DEF Nth
<1> HIDE DEF P, Below
<1>7. Nth(P, n) = Nth(S, n)
  BY <1>1, <1>4, <1>5, <1>6
<1>8. QED
  BY <1>7 DEF P

\* The last member is the one as far as the set counts.
LEMMA NthLast ==
    ASSUME NEW S \in SUBSET Nat, IsFiniteSet(S), NEW k \in S, \A i \in S : i <= k
    PROVE  Nth(S, Cardinality(S)) = {k}
<1> DEFINE Below(i) == {j \in S : j <= i}
<1>1. Below(k) = S
  OBVIOUS
<1>2. ASSUME NEW i \in S \ {k} PROVE Cardinality(Below(i)) < Cardinality(S)
  <2>1. i < k /\ Below(i) \subseteq S \ {k}
    OBVIOUS
  <2> HIDE DEF Below
  <2>2. /\ IsFiniteSet(S) /\ Cardinality(S) \in Nat
        /\ IsFiniteSet(S \ {k}) /\ Cardinality(S \ {k}) = Cardinality(S) - 1
    BY Countable, FS_RemoveElement
  <2>3. Cardinality(Below(i)) <= Cardinality(S \ {k})
    BY <2>1, <2>2, FS_Subset
  <2>4. Cardinality(Below(i)) \in Nat
    <3>1. Below(i) \in SUBSET S
      BY <2>1
    <3>2. QED
      BY <3>1, Countable
  <2>5. QED
    BY <2>2, <2>3, <2>4
<1>3. Nth(S, Cardinality(S)) = {i \in S : Cardinality(Below(i)) = Cardinality(S)}
  BY DEF Nth
<1>4. Cardinality(S) \in Nat
  BY FS_CardinalityType
<1>5. \A i \in S \ {k} : Cardinality(Below(i)) # Cardinality(S)
  <2> SUFFICES ASSUME NEW i \in S \ {k} PROVE Cardinality(Below(i)) # Cardinality(S)
    OBVIOUS
  <2>1. Cardinality(Below(i)) < Cardinality(S)
    BY <1>2
  <2> HIDE DEF Below
  <2>2. QED
    BY <1>4, <2>1
<1> HIDE DEF Below
<1>6. QED
  BY <1>1, <1>3, <1>5

\* A sequence of lines, of whatever they are.
LEMMA LinesAtProps ==
    ASSUME NEW b, NEW S, IsFiniteSet(S)
    PROVE  /\ Len(LinesAt(b, S)) = Cardinality(S)
           /\ DOMAIN LinesAt(b, S) = 1..Cardinality(S)
           /\ \A n \in 1..Cardinality(S) :
                 LinesAt(b, S)[n] = The({LineAt(b, i) : i \in Nth(S, n)})
           /\ \E T : LinesAt(b, S) \in Seq(T)
<1> DEFINE c == Cardinality(S)
           l == [n \in 1..c |-> The({LineAt(b, i) : i \in Nth(S, n)})]
           T == {l[n] : n \in 1..c}
<1>1. c \in Nat /\ LinesAt(b, S) = l
  BY FS_CardinalityType DEF LinesAt
<1>2. DOMAIN l = 1..c /\ \A n \in 1..c : l[n] = The({LineAt(b, i) : i \in Nth(S, n)})
  OBVIOUS
<1>3. l = [n \in 1..c |-> l[n]]
  BY <1>2
<1> HIDE DEF c, l
<1>4. \A n \in 1..c : l[n] \in T
  OBVIOUS
<1> HIDE DEF T
<1>5. l \in [1..c -> T]
  BY <1>3, <1>4
<1>6. l \in Seq(T) /\ Len(l) = c
  BY <1>1, <1>5
<1>7. QED
  BY <1>1, <1>2, <1>6 DEF c

\* A sequence that goes on from another by one element.
LEMMA AppendIs ==
    ASSUME NEW T, NEW U, NEW x \in Seq(T), NEW y \in Seq(U), NEW z,
           Len(x) = Len(y) + 1, \A n \in 1..Len(y) : x[n] = y[n], x[Len(y) + 1] = z
    PROVE  x = Append(y, z)
<1> DEFINE V == T \cup U \cup {z}
<1>1. x \in Seq(V) /\ y \in Seq(V) /\ z \in V
  BY SeqMonotonic
<1> HIDE DEF V
<1>2. /\ Append(y, z) \in Seq(V) /\ Len(Append(y, z)) = Len(y) + 1
      /\ \A n \in 1..Len(y) : Append(y, z)[n] = y[n]
      /\ Append(y, z)[Len(y) + 1] = z
  BY <1>1, AppendProperties
<1>3. \A n \in 1..Len(x) : x[n] = Append(y, z)[n]
  BY <1>1, <1>2
<1>4. QED
  BY <1>1, <1>2, <1>3, SeqEqual

\* The lines of a stream begin with those of its beginning.
LEMMA LinesAtPrefix ==
    ASSUME NEW b \in Seq(Bytes), NEW k \in 0..Len(b), NEW S \in SUBSET (1..Len(b)),
           NEW P, P = Cut(S, k)
    PROVE  /\ Cardinality(P) <= Cardinality(S)
           /\ \A n \in 1..Cardinality(P) : LinesAt(SubSeq(b, 1, k), P)[n] = LinesAt(b, S)[n]
<1> DEFINE p == SubSeq(b, 1, k)
<1>1. Len(b) \in Nat /\ \A i \in S : i \in 1..Len(b)
  OBVIOUS
<1>2. P \in SUBSET S /\ k \in Nat /\ \A i \in P : i \in 1..k
  BY <1>1 DEF Cut
<1>3. /\ IsFiniteSet(S) /\ S \in SUBSET Nat /\ IsFiniteSet(P) /\ P \in SUBSET Nat
      /\ Cardinality(S) \in Nat /\ Cardinality(P) \in Nat /\ Cardinality(P) <= Cardinality(S)
  <2>1. IsFiniteSet(S) /\ S \in SUBSET Nat
    BY <1>1, UpTo
  <2>2. QED
    BY <1>2, <2>1, Countable
<1> HIDE DEF p
<1>4. ASSUME NEW n \in 1..Cardinality(P)
      PROVE  LinesAt(p, P)[n] = LinesAt(b, S)[n]
  <2>1. Nth(P, n) = Nth(S, n)
    BY <1>2, <1>3, NthPrefix
  <2>2. \A i \in Nth(P, n) : i \in 1..k
    BY <1>2 DEF Nth
  <2>3. \A i \in Nth(P, n) : LineAt(p, i) = LineAt(b, i)
    BY <2>2, LineAtPrefix DEF p
  <2>4. {LineAt(p, i) : i \in Nth(P, n)} = {LineAt(b, i) : i \in Nth(S, n)}
    BY <2>1, <2>3
  <2>5. n \in 1..Cardinality(S)
    BY <1>3
  <2>6. LinesAt(p, P)[n] = The({LineAt(p, i) : i \in Nth(P, n)})
    BY <1>3, LinesAtProps
  <2>7. LinesAt(b, S)[n] = The({LineAt(b, i) : i \in Nth(S, n)})
    BY <1>3, <2>5, LinesAtProps
  <2>8. QED
    BY <2>4, <2>6, <2>7
<1>5. QED
  BY <1>3, <1>4 DEF p

\* One more line.
LEMMA LinesAtNext ==
    ASSUME NEW b \in Seq(Bytes), NEW k \in 0..Len(b), NEW m \in (k + 1)..Len(b),
           NEW S \in SUBSET (1..Len(b)), m \in S, \A i \in S : i <= k \/ i >= m,
           NEW P, P = Cut(S, k), NEW Q, Q = Cut(S, m)
    PROVE  LinesAt(SubSeq(b, 1, m), Q) = Append(LinesAt(SubSeq(b, 1, k), P), LineAt(b, m))
<1> DEFINE p == SubSeq(b, 1, k)
           q == SubSeq(b, 1, m)
<1>1. /\ k \in Nat /\ m \in Nat /\ k < m /\ m \in 0..Len(b) /\ m \in 1..m
      /\ Len(b) \in Nat /\ \A i \in S : i \in Nat
  OBVIOUS
<1>2. m \in Q /\ m \notin P /\ \A i \in Q : i <= m
  BY <1>1 DEF Cut
<1>3. Q = P \cup {m}
  <2>1. \A i \in S : i <= m <=> (i <= k \/ i = m)
    BY <1>1
  <2>2. QED
    BY <1>1, <2>1 DEF Cut
<1>4. P \in SUBSET S /\ Q \in SUBSET S
  BY DEF Cut
<1>5. /\ IsFiniteSet(P) /\ Cardinality(P) \in Nat
      /\ IsFiniteSet(Q) /\ Q \in SUBSET Nat /\ Cardinality(Q) = Cardinality(P) + 1
  <2>1. IsFiniteSet(S) /\ S \in SUBSET Nat
    BY <1>1, UpTo
  <2>2. IsFiniteSet(P) /\ Cardinality(P) \in Nat /\ IsFiniteSet(Q) /\ Q \in SUBSET Nat
    BY <1>4, <2>1, Countable
  <2>3. QED
    BY <1>2, <1>3, <2>2, FS_AddElement
<1>6. \A n \in 1..Cardinality(P) : LinesAt(q, Q)[n] = LinesAt(p, P)[n]
  <2>1. \A n \in 1..Cardinality(P) : LinesAt(p, P)[n] = LinesAt(b, S)[n]
    BY LinesAtPrefix
  <2>2. \A n \in 1..Cardinality(Q) : LinesAt(q, Q)[n] = LinesAt(b, S)[n]
    BY <1>1, LinesAtPrefix
  <2> HIDE DEF p, q
  <2>3. QED
    BY <1>5, <2>1, <2>2
<1>7. LineAt(q, m) = LineAt(b, m)
  BY <1>1, LineAtPrefix
<1> HIDE DEF p, q
<1>8. LinesAt(q, Q)[Cardinality(P) + 1] = LineAt(b, m)
  <2>1. Nth(Q, Cardinality(Q)) = {m}
    BY <1>2, <1>5, NthLast
  <2>2. {LineAt(q, i) : i \in Nth(Q, Cardinality(Q))} = {LineAt(b, m)}
    BY <1>7, <2>1
  <2>3. Cardinality(Q) \in 1..Cardinality(Q)
    BY <1>5
  <2>4. LinesAt(q, Q)[Cardinality(Q)] = The({LineAt(q, i) : i \in Nth(Q, Cardinality(Q))})
    BY <1>5, <2>3, LinesAtProps
  <2>5. QED
    BY <1>5, <2>2, <2>4, TheOne
<1>9. /\ Len(LinesAt(q, Q)) = Cardinality(P) + 1 /\ \E T : LinesAt(q, Q) \in Seq(T)
      /\ Len(LinesAt(p, P)) = Cardinality(P) /\ \E T : LinesAt(p, P) \in Seq(T)
  BY <1>5, LinesAtProps
<1>10. LinesAt(q, Q) = Append(LinesAt(p, P), LineAt(b, m))
  <2>1. PICK T : LinesAt(q, Q) \in Seq(T)
    BY <1>9
  <2>2. PICK U : LinesAt(p, P) \in Seq(U)
    BY <1>9
  <2>3. QED
    BY <1>6, <1>8, <1>9, <2>1, <2>2, AppendIs
<1>11. QED
  BY <1>10 DEF p, q

\* A sequence that begins with all of another.
BeginsWith(r, l) ==
    /\ Len(l) \in Nat /\ Len(r) \in Nat /\ Len(l) <= Len(r)
    /\ DOMAIN l = 1..Len(l) /\ DOMAIN r = 1..Len(r)
    /\ \E T : l \in Seq(T)
    /\ \E T : r \in Seq(T)
    /\ \A n \in 1..Len(l) : l[n] = r[n]

\* What a stream's beginning has come to stays as more of it follows.
LEMMA LinesAtGrow ==
    ASSUME NEW b \in Seq(Bytes), NEW k \in 0..Len(b), NEW S \in SUBSET (1..Len(b)),
           NEW P, P = Cut(S, k)
    PROVE  BeginsWith(LinesAt(b, S), LinesAt(SubSeq(b, 1, k), P))
<1> DEFINE p == SubSeq(b, 1, k)
<1>1. IsFiniteSet(S) /\ P \in SUBSET S
  <2>1. Len(b) \in Nat
    OBVIOUS
  <2>2. QED
    BY <2>1, UpTo DEF Cut
<1>2. IsFiniteSet(P) /\ Cardinality(P) \in Nat /\ Cardinality(S) \in Nat
  BY <1>1, Countable
<1>3. /\ Cardinality(P) <= Cardinality(S)
      /\ \A n \in 1..Cardinality(P) : LinesAt(p, P)[n] = LinesAt(b, S)[n]
  BY LinesAtPrefix
<1> HIDE DEF p
<1>4. /\ Len(LinesAt(b, S)) = Cardinality(S) /\ DOMAIN LinesAt(b, S) = 1..Cardinality(S)
      /\ \E T : LinesAt(b, S) \in Seq(T)
  BY <1>1, LinesAtProps
<1>5. /\ Len(LinesAt(p, P)) = Cardinality(P) /\ DOMAIN LinesAt(p, P) = 1..Cardinality(P)
      /\ \E T : LinesAt(p, P) \in Seq(T)
  BY <1>2, LinesAtProps
<1>6. BeginsWith(LinesAt(b, S), LinesAt(p, P))
  BY <1>2, <1>3, <1>4, <1>5 DEF BeginsWith
<1>7. QED
  BY <1>6 DEF p

\* The newlines of a stream, and those that end a question, are positions of it.
LEMMA EndsTyped ==
    ASSUME NEW b \in Seq(Bytes)
    PROVE  Ends(b) \in SUBSET (1..Len(b)) /\ Asks(b) \in SUBSET Ends(b)
  BY DEF Ends, Asks

\* What has been written, asked and answered stays as more follows.
LEMMA StreamGrows ==
    ASSUME NEW b \in Seq(Bytes), NEW w \in 0..Len(b), NEW k \in 0..w
    PROVE  /\ BeginsWith(LinesOf(SubSeq(b, 1, w)), LinesOf(SubSeq(b, 1, k)))
           /\ BeginsWith(AskedIn(SubSeq(b, 1, w)), AskedIn(SubSeq(b, 1, k)))
<1> DEFINE p == SubSeq(b, 1, k)
           q == SubSeq(b, 1, w)
<1>1. q \in Seq(Bytes) /\ Len(q) = w /\ k \in 0..Len(q)
  BY PrefixProps
<1>2. SubSeq(q, 1, k) = p
  BY PrefixOfPrefix
<1> HIDE DEF q, p
<1>3. Ends(p) = Cut(Ends(q), k) /\ Asks(p) = Cut(Asks(q), k)
  BY <1>1, <1>2, EndsPrefix
<1>4. Ends(q) \in SUBSET (1..Len(q)) /\ Asks(q) \in SUBSET (1..Len(q))
  BY <1>1, EndsTyped
<1>5. BeginsWith(LinesOf(q), LinesOf(p))
  BY <1>1, <1>2, <1>3, <1>4, LinesAtGrow DEF LinesOf
<1>6. BeginsWith(AskedIn(q), AskedIn(p))
  BY <1>1, <1>2, <1>3, <1>4, LinesAtGrow DEF AskedIn
<1>7. QED
  BY <1>5, <1>6 DEF p, q

\* Bytes that end no question ask nothing.
LEMMA NothingAsked ==
    ASSUME NEW b \in Seq(Bytes), NEW k \in 0..Len(b), NEW m \in k..Len(b),
           \A i \in (k + 1)..m : i \notin Asks(b)
    PROVE  AskedIn(SubSeq(b, 1, m)) = AskedIn(SubSeq(b, 1, k))
<1> DEFINE p == SubSeq(b, 1, k)
           q == SubSeq(b, 1, m)
<1>1. k \in Nat /\ m \in Nat /\ k <= m /\ m \in 0..Len(b) /\ \A i \in Asks(b) : i \in 1..Len(b)
  BY EndsTyped
<1>2. Asks(p) = Cut(Asks(b), k) /\ Asks(q) = Cut(Asks(b), m)
  BY <1>1, EndsPrefix
<1>3. \A i \in Asks(b) : i <= m <=> i <= k
  BY <1>1
<1>4. Asks(q) = Asks(p)
  BY <1>2, <1>3 DEF Cut
<1>5. \A i \in Asks(p) : i \in 1..k /\ i \in 1..m
  BY <1>1, <1>2 DEF Cut
<1>6. \A i \in Asks(p) : LineAt(q, i) = LineAt(p, i)
  <2> SUFFICES ASSUME NEW i \in Asks(p) PROVE LineAt(q, i) = LineAt(p, i)
    OBVIOUS
  <2>1. LineAt(p, i) = LineAt(b, i)
    BY <1>5, LineAtPrefix
  <2>2. LineAt(q, i) = LineAt(b, i)
    BY <1>1, <1>5, LineAtPrefix
  <2>3. QED
    BY <2>1, <2>2
<1> HIDE DEF p, q
<1>7. \A n : {LineAt(q, i) : i \in Nth(Asks(p), n)} = {LineAt(p, i) : i \in Nth(Asks(p), n)}
  BY <1>6 DEF Nth
<1>8. AskedIn(q) = AskedIn(p)
  BY <1>4, <1>7 DEF AskedIn, LinesAt
<1>9. QED
  BY <1>8 DEF p, q

\* The bytes of b after k, up to the newline at m.
IsLine(line, b, k, m) ==
    /\ b[m] = NL
    /\ \A j \in (k + 1)..(m - 1) : b[j] # NL
    /\ line = SubSeq(b, k + 1, m - 1)

\* The line after a newline is what there is up to the next newline.
LEMMA NextLine ==
    ASSUME NEW b \in Seq(Bytes), NEW k \in 0..Len(b), LineBreak(b, k),
           NEW m \in (k + 1)..Len(b), NEW line, IsLine(line, b, k, m)
    PROVE  /\ LineAt(b, m) = line
           /\ LinesOf(SubSeq(b, 1, m)) = Append(LinesOf(SubSeq(b, 1, k)), line)
           /\ AskedIn(SubSeq(b, 1, m)) =
                 IF NotBlank(line) THEN Append(AskedIn(SubSeq(b, 1, k)), line)
                 ELSE AskedIn(SubSeq(b, 1, k))
<1> DEFINE p == SubSeq(b, 1, k)
           q == SubSeq(b, 1, m)
<1>0. /\ m \in 1..Len(b) /\ m \in 0..Len(b) /\ k + 1 \in 1..m /\ k + 1 - 1 = k /\ k \in Nat /\ m \in Nat
  OBVIOUS
<1>1. LineAt(b, m) = line
  <2>1. LineStart(b, m) = k + 1
    BY <1>0, LineStartIs DEF IsLine
  <2>2. QED
    BY <2>1 DEF LineAt, IsLine
<1>2. /\ Ends(b) \in SUBSET (1..Len(b)) /\ Asks(b) \in SUBSET Ends(b)
      /\ m \in Ends(b) /\ \A i \in Ends(b) : i <= k \/ i >= m
  <2>1. \A i \in 1..Len(b) : b[i] = NL => i <= k \/ i >= m
    BY <1>0 DEF IsLine
  <2>2. QED
    BY <1>0, <2>1 DEF Ends, Asks, IsLine
<1>3. /\ Ends(p) = Cut(Ends(b), k) /\ Asks(p) = Cut(Asks(b), k)
      /\ Ends(q) = Cut(Ends(b), m) /\ Asks(q) = Cut(Asks(b), m)
  BY <1>0, EndsPrefix
<1>4. LinesOf(q) = Append(LinesOf(p), line)
  <2>1. LinesAt(q, Ends(q)) = Append(LinesAt(p, Ends(p)), LineAt(b, m))
    BY <1>2, <1>3, LinesAtNext
  <2>2. QED
    BY <1>1, <2>1 DEF LinesOf
<1>5. CASE NotBlank(line)
  <2>1. m \in Asks(b) /\ Asks(b) \in SUBSET (1..Len(b)) /\ \A i \in Asks(b) : i <= k \/ i >= m
    BY <1>1, <1>2, <1>5 DEF Asks
  <2>2. LinesAt(q, Asks(q)) = Append(LinesAt(p, Asks(p)), LineAt(b, m))
    BY <1>3, <2>1, LinesAtNext
  <2>3. QED
    BY <1>1, <1>4, <1>5, <2>2 DEF AskedIn
<1>6. CASE ~NotBlank(line)
  <2>1. m \notin Asks(b)
    BY <1>1, <1>6 DEF Asks
  <2>2. \A i \in (k + 1)..m : i \notin Asks(b)
    BY <1>0, <1>2, <2>1
  <2>3. m \in k..Len(b)
    BY <1>0
  <2>4. AskedIn(q) = AskedIn(p)
    BY <2>2, <2>3, NothingAsked
  <2>5. QED
    BY <1>1, <1>4, <1>6, <2>4
<1>7. QED
  BY <1>5, <1>6

-----------------------------------------------------------------------------
(* The pieces.                                                              *)

\* Pieces make the same stream in whatever order they are put together.
LEMMA Regroup ==
    ASSUME NEW x \in Seq(Bytes), NEW y \in Seq(Bytes), NEW r \in Seq(Bytes)
    PROVE  (x \o y) \o r = x \o (y \o r)
  BY ConcatAssociative

\* recv() moves bytes and changes none.
LEMMA PieceMoves ==
    ASSUME NEW x \in Seq(Bytes), NEW y \in Seq(Bytes), NEW n \in Nat, Piece(y, n)
    PROVE  /\ x \o SubSeq(y, 1, n) \in Seq(Bytes)
           /\ SubSeq(y, n + 1, Len(y)) \in Seq(Bytes)
           /\ (x \o SubSeq(y, 1, n)) \o SubSeq(y, n + 1, Len(y)) = x \o y
<1>1. n \in 1..Len(y) /\ Len(y) \in Nat
  BY DEF Piece
<1>2. SubSeq(y, 1, n) \in Seq(Bytes) /\ SubSeq(y, n + 1, Len(y)) \in Seq(Bytes)
  BY <1>1
<1>3. SubSeq(y, 1, n) \o SubSeq(y, n + 1, Len(y)) = y
  BY <1>1, ConcatAdjacentSubSeq, SubSeqFull
<1> DEFINE u == SubSeq(y, 1, n)
           v == SubSeq(y, n + 1, Len(y))
<1>4. u \in Seq(Bytes) /\ v \in Seq(Bytes) /\ u \o v = y
  BY <1>2, <1>3
<1> HIDE DEF u, v
<1>5. x \o u \in Seq(Bytes)
  BY <1>4, ConcatProperties
<1>6. (x \o u) \o v = x \o (u \o v)
  BY <1>4, Regroup
<1>7. QED
  BY <1>4, <1>5, <1>6 DEF u, v

\* x and y hold the bytes of b after k up to n.
Holds(x, y, b, k, n) == x \o y = SubSeq(b, k + 1, n)

\* Nor does who writes: what has not been split off grows at its end.
LEMMA StreamGoesOn ==
    ASSUME NEW b \in Seq(Bytes), NEW v \in 0..Len(b), NEW w \in 0..v, NEW k \in 0..w,
           NEW x \in Seq(Bytes), NEW y \in Seq(Bytes), NEW r \in Seq(Bytes),
           Holds(x, y, b, k, w), r = SubSeq(b, w + 1, v)
    PROVE  y \o r \in Seq(Bytes) /\ Holds(x, y \o r, b, k, v)
<1>1. /\ k + 1 \in 1..(Len(b) + 1) /\ w \in (k + 1 - 1)..Len(b) /\ v \in w..Len(b)
  OBVIOUS
<1>2. SubSeq(b, k + 1, w) \o SubSeq(b, w + 1, v) = SubSeq(b, k + 1, v)
  BY <1>1, ConcatAdjacentSubSeq
<1>3. y \o r \in Seq(Bytes)
  BY ConcatProperties
<1>4. x \o (y \o r) = (x \o y) \o r
  BY Regroup
<1>5. QED
  BY <1>2, <1>3, <1>4 DEF Holds

\* What was written stays where it was.
LEMMA StreamKeeps ==
    ASSUME NEW b \in Seq(Bytes), NEW r \in Seq(Bytes), NEW k \in 0..Len(b)
    PROVE  /\ b \o r \in Seq(Bytes) /\ Len(b \o r) = Len(b) + Len(r)
           /\ SubSeq(b \o r, 1, k) = SubSeq(b, 1, k)
           /\ SubSeq(b \o r, k + 1, Len(b)) = SubSeq(b, k + 1, Len(b))
           /\ SubSeq(b \o r, Len(b) + 1, Len(b) + Len(r)) = r
           /\ LineBreak(b, k) => LineBreak(b \o r, k)
<1>1. b \o r \in Seq(Bytes) /\ Len(b \o r) = Len(b) + Len(r) /\ Len(b) \in Nat /\ Len(r) \in Nat
  BY ConcatProperties
<1>2. SubSeq(b \o r, 1, k) = SubSeq(b, 1, k)
  <2>1. CASE k = 0
    BY <2>1, SubSeqEmpty
  <2>2. CASE k # 0
    BY <2>2, SubSeqOfConcat1
  <2>3. QED
    BY <2>1, <2>2
<1>3. SubSeq(b \o r, k + 1, Len(b)) = SubSeq(b, k + 1, Len(b))
  <2>1. CASE k = Len(b)
    BY <1>1, <2>1, SubSeqEmpty
  <2>2. CASE k # Len(b)
    BY <1>1, <2>2, SubSeqOfConcat1
  <2>3. QED
    BY <2>1, <2>2
<1>4. SubSeq(b \o r, Len(b) + 1, Len(b) + Len(r)) = r
  <2>1. CASE Len(r) = 0
    <3>1. r = <<>>
      BY <2>1
    <3>2. QED
      BY <1>1, <2>1, <3>1, SubSeqEmpty
  <2>2. CASE Len(r) # 0
    <3>1. /\ Len(b) + 1 \in (Len(b) + 1)..(Len(b) + Len(r))
          /\ Len(b) + Len(r) \in (Len(b) + 1)..(Len(b) + Len(r))
          /\ Len(b) + 1 - Len(b) = 1 /\ Len(b) + Len(r) - Len(b) = Len(r)
      BY <1>1, <2>2
    <3>2. QED
      BY <3>1, SubSeqOfConcat2, SubSeqFull
  <2>3. QED
    BY <2>1, <2>2
<1>5. ASSUME LineBreak(b, k) PROVE LineBreak(b \o r, k)
  <2>1. k # 0 => (b \o r)[k] = b[k]
    BY <1>1, ConcatProperties
  <2>2. QED
    BY <1>5, <2>1 DEF LineBreak
<1>6. QED
  BY <1>1, <1>2, <1>3, <1>4, <1>5

\* x, the buffer, begins with the line of b that follows k and ends at m; its rest
\* and y, the bytes to come, are what b has from there to n.
SplitsAt(m, b, n, k, x, y) ==
    /\ IsLine(FirstLine(x), b, k, m)
    /\ Rest(x) \in Seq(Bytes)
    /\ Rest(x) \o y = SubSeq(b, m + 1, n)

\* A buffer that holds a newline begins with the stream's next line.
LEMMA TakeLine ==
    ASSUME NEW b \in Seq(Bytes), NEW n \in 0..Len(b), NEW k \in 0..n,
           NEW x \in Seq(Bytes), NEW y \in Seq(Bytes),
           x \o y = SubSeq(b, k + 1, n), HasLine(x)
    PROVE  \E m \in (k + 1)..n : SplitsAt(m, b, n, k, x, y)
<1> DEFINE e == LineEnd(x)
           m == k + e
           z == x \o y
<1>1. e \in 1..Len(x) /\ x[e] = NL /\ \A j \in 1..(e - 1) : x[j] # NL
  BY LineEndProps
<1> HIDE DEF e
<1>2. Len(x) \in Nat /\ Len(y) \in Nat /\ Len(b) \in Nat /\ k \in Nat /\ n \in Nat /\ k <= n
  OBVIOUS
<1>3. /\ z \in Seq(Bytes) /\ Len(z) = Len(x) + Len(y)
      /\ \A i \in 1..(Len(x) + Len(y)) : z[i] = IF i <= Len(x) THEN x[i] ELSE y[i - Len(x)]
  BY <1>2, ConcatProperties
<1>4. Len(z) = n - k /\ \A i \in 1..(n - k) : z[i] = b[k + i]
  <2>1. \A i \in (k + 1)..n : b[i] \in Bytes
    OBVIOUS
  <2>2. QED
    BY <1>2, <2>1, SubSeqProperties
<1> HIDE DEF z
<1>5. m \in (k + 1)..n /\ Len(x) + Len(y) = n - k
  <2>1. Len(x) + Len(y) = n - k
    BY <1>3, <1>4
  <2>2. QED
    BY <1>1, <1>2, <2>1
<1>6. \A i \in 1..Len(x) : x[i] = b[k + i]
  <2>1. \A i \in 1..Len(x) : i \in 1..(n - k) /\ i \in 1..(Len(x) + Len(y)) /\ i <= Len(x)
    BY <1>2, <1>5
  <2>2. QED
    BY <1>3, <1>4, <2>1
<1>7. b[m] = NL
  BY <1>1, <1>6
<1>8. ASSUME NEW j \in (k + 1)..(m - 1) PROVE b[j] # NL
  <2>1. j - k \in 1..(e - 1) /\ j - k \in 1..Len(x) /\ k + (j - k) = j
    BY <1>1, <1>2
  <2>2. QED
    BY <1>1, <1>6, <2>1
<1>9. FirstLine(x) = SubSeq(b, k + 1, m - 1)
  <2> DEFINE l == SubSeq(x, 1, e - 1)
             r == SubSeq(b, k + 1, m - 1)
  <2>1. l \in Seq(Bytes) /\ Len(l) = e - 1 /\ \A i \in 1..(e - 1) : l[i] = x[i]
    BY <1>1, <1>2, PrefixProps
  <2>2. r \in Seq(Bytes) /\ Len(r) = e - 1 /\ \A i \in 1..(e - 1) : r[i] = b[k + i]
    <3>1. \A i \in (k + 1)..(m - 1) : b[i] \in Bytes
      BY <1>2, <1>5
    <3>2. QED
      BY <1>1, <1>2, <1>5, <3>1, SubSeqProperties
  <2> HIDE DEF l, r
  <2>3. l = r
    BY <1>1, <1>2, <1>6, <2>1, <2>2, SeqEqual
  <2>4. QED
    BY <2>3 DEF FirstLine, e, l, r
<1>10. Rest(x) \in Seq(Bytes)
  <2>1. \A i \in (e + 1)..Len(x) : x[i] \in Bytes
    BY <1>1
  <2>2. QED
    BY <1>1, <1>2, <2>1, SubSeqProperties DEF Rest, e
<1>11. Rest(x) \o y = SubSeq(b, m + 1, n)
  <2> DEFINE q == SubSeq(x, e + 1, Len(x))
             l == q \o y
             r == SubSeq(b, m + 1, n)
  <2>1. q \in Seq(Bytes) /\ Len(q) = Len(x) - e /\ \A i \in 1..(Len(x) - e) : q[i] = x[e + i]
    <3>1. \A i \in (e + 1)..Len(x) : x[i] \in Bytes
      BY <1>1
    <3>2. QED
      BY <1>1, <1>2, <3>1, SubSeqProperties
  <2>2. r \in Seq(Bytes) /\ Len(r) = n - m /\ \A i \in 1..(n - m) : r[i] = b[m + i]
    <3>1. \A i \in (m + 1)..n : b[i] \in Bytes
      BY <1>2, <1>5
    <3>2. QED
      BY <1>2, <1>5, <3>1, SubSeqProperties
  <2> HIDE DEF q
  <2>3. /\ l \in Seq(Bytes) /\ Len(l) = Len(x) - e + Len(y)
        /\ \A i \in 1..(Len(x) - e + Len(y)) :
              l[i] = IF i <= Len(x) - e THEN q[i] ELSE y[i - (Len(x) - e)]
    <3>1. /\ l \in Seq(Bytes) /\ Len(l) = Len(q) + Len(y)
          /\ \A i \in 1..(Len(q) + Len(y)) : l[i] = IF i <= Len(q) THEN q[i] ELSE y[i - Len(q)]
      BY <2>1, ConcatProperties
    <3> HIDE DEF l
    <3>2. QED
      BY <2>1, <3>1
  <2> HIDE DEF l, r
  <2>4. ASSUME NEW i \in 1..(n - m) PROVE l[i] = r[i]
    <3>1. i \in 1..(Len(x) - e + Len(y)) /\ e + i \in 1..(n - k) /\ k + (e + i) = m + i
      BY <1>1, <1>2, <1>5
    <3>2. r[i] = z[e + i]
      BY <1>4, <2>2, <3>1
    <3>3. CASE i <= Len(x) - e
      <4>1. l[i] = x[e + i] /\ z[e + i] = x[e + i]
        BY <1>1, <1>2, <1>3, <1>5, <2>1, <2>3, <3>1, <3>3
      <4>2. QED
        BY <3>2, <4>1
    <3>4. CASE i > Len(x) - e
      <4>1. (e + i) - Len(x) = i - (Len(x) - e) /\ e + i > Len(x)
        BY <1>1, <1>2, <3>4
      <4>2. l[i] = y[i - (Len(x) - e)]
        <5>1. ~(i <= Len(x) - e)
          BY <1>1, <1>2, <3>4
        <5>2. QED
          BY <2>3, <3>1, <5>1
      <4>3. z[e + i] = y[(e + i) - Len(x)]
        <5>1. e + i \in 1..(Len(x) + Len(y)) /\ ~(e + i <= Len(x))
          BY <1>1, <1>2, <1>5, <3>1, <4>1
        <5>2. QED
          BY <1>3, <5>1
      <4>4. QED
        BY <3>2, <4>1, <4>2, <4>3
    <3>5. QED
      BY <1>1, <1>2, <3>3, <3>4
  <2>5. l = r
    <3>1. Len(l) = n - m /\ Len(r) = n - m
      BY <1>1, <1>2, <1>5, <2>2, <2>3
    <3>2. QED
      BY <2>2, <2>3, <2>4, <3>1, SeqEqual
  <2>6. QED
    BY <2>5 DEF Rest, e, q, l, r
<1>12. QED
  BY <1>5, <1>7, <1>8, <1>9, <1>10, <1>11 DEF SplitsAt, IsLine

\* A line holds no newline.
LEMMA LineHasNone ==
    ASSUME NEW b \in Seq(Bytes), HasLine(b)
    PROVE  FirstLine(b) \in Seq(Bytes) /\ ~HasLine(FirstLine(b))
<1>1. LineEnd(b) \in 1..Len(b) /\ \A j \in 1..(LineEnd(b) - 1) : b[j] # NL
  BY LineEndProps
<1>2. LineEnd(b) - 1 \in 0..Len(b)
  BY <1>1
<1>3. /\ FirstLine(b) \in Seq(Bytes) /\ Len(FirstLine(b)) = LineEnd(b) - 1
      /\ \A i \in 1..(LineEnd(b) - 1) : FirstLine(b)[i] = b[i]
  BY <1>2, PrefixProps DEF FirstLine
<1>4. QED
  BY <1>1, <1>3 DEF HasLine

\* Nor does a response: json.dumps() writes none.
LEMMA ResponseProps ==
    ASSUME NEW line, NEW response \in Responses(line)
    PROVE  response \in Seq(Bytes) /\ ~HasLine(response)
<1>0. "!" # NL /\ "=" # NL /\ "!" \in Bytes /\ "=" \in Bytes
  BY LineAssumption DEF NL
<1>1. CASE response = Error
  BY <1>0, <1>1 DEF Error, HasLine
<1>2. CASE line \in Requests /\ response = Result(line)
  <2>1. line \in Seq(Bytes) /\ \A i \in 1..Len(line) : line[i] # NL
    BY <1>2, LineAssumption
  <2>2. <<"=">> \in Seq(Bytes) /\ Len(<<"=">>) = 1 /\ <<"=">>[1] = "="
    BY <1>0
  <2>3. /\ response \in Seq(Bytes) /\ Len(response) = 1 + Len(line)
        /\ \A i \in 1..(1 + Len(line)) : response[i] = IF i <= 1 THEN <<"=">>[i] ELSE line[i - 1]
    BY <1>2, <2>1, <2>2, ConcatProperties DEF Result
  <2>4. ASSUME NEW i \in 1..(1 + Len(line)) PROVE response[i] # NL
    <3>1. CASE i = 1
      BY <1>0, <2>2, <2>3, <3>1
    <3>2. CASE i # 1
      <4>1. i - 1 \in 1..Len(line) /\ ~(i <= 1)
        BY <2>1, <3>2
      <4>2. QED
        BY <2>1, <2>3, <4>1
    <3>3. QED
      BY <3>1, <3>2
  <2>5. QED
    BY <2>3, <2>4 DEF HasLine
<1>3. QED
  BY <1>1, <1>2 DEF Responses

\* What follows follows.
LEMMA Follows ==
    ASSUME NEW b \in Seq(Bytes), NEW r \in Seq(Bytes)
    PROVE  /\ \A i \in 1..Len(b) : (b \o r)[i] = b[i]
           /\ \A i \in 1..Len(r) : (b \o r)[Len(b) + i] = r[i]
<1>1. Len(b) \in Nat /\ Len(r) \in Nat
  OBVIOUS
<1>2. \A i \in 1..(Len(b) + Len(r)) : (b \o r)[i] = IF i <= Len(b) THEN b[i] ELSE r[i - Len(b)]
  BY ConcatProperties
<1> DEFINE c == b \o r
<1> HIDE DEF c
<1>3. ASSUME NEW i \in 1..Len(b) PROVE c[i] = b[i]
  BY <1>1, <1>2 DEF c
<1>4. ASSUME NEW i \in 1..Len(r) PROVE c[Len(b) + i] = r[i]
  <2>1. /\ Len(b) + i \in 1..(Len(b) + Len(r)) /\ ~(Len(b) + i <= Len(b))
        /\ Len(b) + i - Len(b) = i
    BY <1>1
  <2>2. QED
    BY <1>2, <2>1 DEF c
<1>5. QED
  BY <1>3, <1>4 DEF c

\* A line written where one begins is the next line of the stream.
LEMMA LineWritten ==
    ASSUME NEW c \in Seq(Bytes), NEW k \in 0..Len(c), LineBreak(c, k),
           NEW line \in Seq(Bytes), Len(c) = k + Len(line) + 1, c[Len(c)] = NL,
           \A i \in 1..Len(line) : c[k + i] = line[i] /\ line[i] # NL
    PROVE  LinesOf(c) = Append(LinesOf(SubSeq(c, 1, k)), line)
<1> DEFINE m == Len(c)
<1>1. k \in Nat /\ Len(line) \in Nat /\ m \in (k + 1)..Len(c) /\ m - 1 = k + Len(line)
  OBVIOUS
<1>2. ASSUME NEW j \in (k + 1)..(m - 1) PROVE c[j] # NL
  <2>1. j - k \in 1..Len(line) /\ k + (j - k) = j
    BY <1>1
  <2>2. QED
    BY <2>1
<1>3. line = SubSeq(c, k + 1, m - 1)
  <2> DEFINE t == SubSeq(c, k + 1, m - 1)
  <2>1. \A i \in (k + 1)..(m - 1) : c[i] \in Bytes
    BY <1>1
  <2>2. t \in Seq(Bytes) /\ Len(t) = Len(line) /\ \A i \in 1..Len(line) : t[i] = c[k + i]
    BY <1>1, <2>1, SubSeqProperties
  <2> HIDE DEF t
  <2>3. t = line
    BY <2>2, SeqEqual
  <2>4. QED
    BY <2>3 DEF t
<1>4. LinesOf(SubSeq(c, 1, m)) = Append(LinesOf(SubSeq(c, 1, k)), line)
  BY <1>1, <1>2, <1>3, NextLine DEF IsLine
<1>5. QED
  BY <1>4, SubSeqFull

\* The response to a line, and a newline after it, is a line of what is written.
LEMMA ResponseWritten ==
    ASSUME NEW b \in Seq(Bytes), LineBreak(b, Len(b)),
           NEW response \in Seq(Bytes), ~HasLine(response)
    PROVE  /\ response \o <<NL>> \in Seq(Bytes)
           /\ b \o (response \o <<NL>>) \in Seq(Bytes)
           /\ LineBreak(b \o (response \o <<NL>>), Len(b \o (response \o <<NL>>)))
           /\ LinesOf(b \o (response \o <<NL>>)) = Append(LinesOf(b), response)
<1> DEFINE r == response \o <<NL>>
           c == b \o r
<1>1. <<NL>> \in Seq(Bytes) /\ Len(<<NL>>) = 1 /\ <<NL>>[1] = NL /\ 1 \in 1..Len(<<NL>>)
  BY LineAssumption
<1>2. r \in Seq(Bytes) /\ Len(r) = Len(response) + 1
  BY <1>1, ConcatProperties
<1>3. (\A i \in 1..Len(response) : r[i] = response[i]) /\ r[Len(response) + 1] = NL
  BY <1>1, Follows
<1> HIDE DEF r
<1>4. c \in Seq(Bytes) /\ Len(c) = Len(b) + Len(r) /\ Len(b) \in 0..Len(b)
  <2>1. Len(b) \in 0..Len(b)
    OBVIOUS
  <2>2. c \in Seq(Bytes) /\ Len(c) = Len(b) + Len(r)
    BY <1>2, <2>1, StreamKeeps
  <2>3. QED
    BY <2>1, <2>2
<1>5. SubSeq(c, 1, Len(b)) = b /\ LineBreak(c, Len(b))
  BY <1>2, <1>4, StreamKeeps, SubSeqFull
<1>6. \A i \in 1..Len(r) : c[Len(b) + i] = r[i]
  BY <1>2, Follows
<1> HIDE DEF c
<1>7. /\ Len(b) \in 0..Len(c) /\ Len(c) = Len(b) + Len(response) + 1
      /\ Len(c) = Len(b) + (Len(response) + 1)
      /\ Len(response) + 1 \in 1..Len(r) /\ \A i \in 1..Len(response) : i \in 1..Len(r)
  BY <1>2, <1>4
<1>8. c[Len(c)] = NL
  BY <1>3, <1>6, <1>7
<1>9. \A i \in 1..Len(response) : c[Len(b) + i] = response[i] /\ response[i] # NL
  BY <1>3, <1>6, <1>7 DEF HasLine
<1>10. LinesOf(c) = Append(LinesOf(b), response)
  BY <1>4, <1>5, <1>7, <1>8, <1>9, LineWritten
<1>11. QED
  BY <1>2, <1>4, <1>8, <1>10 DEF LineBreak, c, r

\* A stream of which nothing was read has no lines.
LEMMA NoLines == LinesOf(<<>>) = <<>> /\ AskedIn(<<>>) = <<>>
<1>1. Ends(<<>>) = {} /\ Asks(<<>>) = {}
  BY DEF Ends, Asks
<1>2. IsFiniteSet({}) /\ Cardinality({}) = 0
  BY FS_EmptySet
<1>3. LinesAt(<<>>, {}) = <<>>
  <2>1. Len(LinesAt(<<>>, {})) = 0 /\ \E T : LinesAt(<<>>, {}) \in Seq(T)
    BY <1>2, LinesAtProps
  <2>2. PICK T : LinesAt(<<>>, {}) \in Seq(T)
    BY <2>1
  <2>3. QED
    BY <2>1, <2>2, EmptySeq
<1>4. QED
  BY <1>1, <1>3 DEF LinesOf, AskedIn

-----------------------------------------------------------------------------
(* The connection.                                                          *)

\* What kind of value everything is.
LEMMA FramingTypes ==
    ASSUME FramingInv
    PROVE  /\ input \in Seq(Bytes) /\ Len(input) \in Nat /\ written \in 0..Len(input)
           /\ toServer \in Seq(Bytes) /\ toClient \in Seq(Bytes)
           /\ buffer \in Seq(Bytes) /\ clientBuffer \in Seq(Bytes)
           /\ output \in Seq(Bytes) /\ Len(output) \in Nat
  BY LineAssumption DEF FramingInv, FramingTypeOK

\* What has been read of the input, and what follows it.
Read(k) ==
    /\ LineBreak(input, k)
    /\ handled = AskedIn(SubSeq(input, 1, k))
    /\ buffer \o toServer = SubSeq(input, k + 1, written)

\* The same of the output.
Taken(k) ==
    /\ LineBreak(output, k)
    /\ got = LinesOf(SubSeq(output, 1, k))
    /\ open => clientBuffer \o toClient = SubSeq(output, k + 1, Len(output))

\* At the start nothing has been written or read.
LEMMA FramingInitInv == FramingInit => FramingInv
<1> SUFFICES ASSUME FramingInit PROVE FramingInv
  OBVIOUS
<1>1. input \in Seq(Bytes) /\ Len(input) \in Nat /\ <<>> \in Seq(Bytes)
  BY LineAssumption DEF FramingInit
<1>2. /\ SubSeq(input, 1, 0) = <<>> /\ SubSeq(input, 0 + 1, 0) = <<>>
      /\ SubSeq(<<>>, 1, 0) = <<>> /\ SubSeq(<<>>, 0 + 1, 0) = <<>> /\ <<>> \o <<>> = <<>>
  BY SubSeqEmpty
<1>3. /\ written = 0 /\ open = TRUE /\ thread = "recv" /\ toServer = <<>> /\ toClient = <<>>
      /\ buffer = <<>> /\ clientBuffer = <<>> /\ handled = <<>> /\ output = <<>> /\ got = <<>>
      /\ Len(<<>>) = 0 /\ input \in Inputs
  BY DEF FramingInit
<1>4. LinesOf(output) = <<>>
  BY <1>3, NoLines
<1>5. FramingTypeOK
  <2>1. written \in 0..Len(input) /\ DOMAIN handled = {} /\ DOMAIN <<>> = {}
    BY <1>1, <1>3
  <2>2. QED
    BY <1>1, <1>3, <1>4, <2>1 DEF FramingTypeOK, Replied
<1>6. Read(0)
  BY <1>2, <1>3, NoLines DEF Read, LineBreak
<1>7. Taken(0)
  BY <1>2, <1>3, NoLines DEF Taken, LineBreak
<1>8. 0 \in 0..written /\ 0 \in 0..Len(output) /\ LineBreak(output, Len(output))
  BY <1>3 DEF LineBreak
<1>9. QED
  BY <1>3, <1>4, <1>5, <1>6, <1>7, <1>8 DEF FramingInv, Read, Taken, Replied

\* The next line to be handled, and what it leaves.
LEMMA NextRequest ==
    ASSUME FramingInv, HasLine(buffer)
    PROVE  \E m \in 1..written :
              /\ LineBreak(input, m)
              /\ AskedIn(SubSeq(input, 1, m)) =
                    IF Blank(FirstLine(buffer)) THEN handled
                    ELSE Append(handled, FirstLine(buffer))
              /\ Rest(buffer) \in Seq(Bytes)
              /\ Rest(buffer) \o toServer = SubSeq(input, m + 1, written)
<1>1. /\ input \in Seq(Bytes) /\ Len(input) \in Nat /\ written \in 0..Len(input)
      /\ buffer \in Seq(Bytes) /\ toServer \in Seq(Bytes)
  BY FramingTypes
<1>2. PICK k \in 0..written : Read(k)
  BY DEF FramingInv, Read
<1>3. PICK m \in (k + 1)..written : SplitsAt(m, input, written, k, buffer, toServer)
  <2>1. buffer \o toServer = SubSeq(input, k + 1, written)
    BY <1>2 DEF Read
  <2>2. QED
    BY <1>1, <2>1, TakeLine
<1>4. m \in 1..written /\ k \in 0..Len(input) /\ m \in (k + 1)..Len(input) /\ m \in 1..Len(input)
  BY <1>1
<1> DEFINE line == FirstLine(buffer)
<1> HIDE DEF line
<1>5. AskedIn(SubSeq(input, 1, m)) =
         IF NotBlank(line) THEN Append(AskedIn(SubSeq(input, 1, k)), line)
         ELSE AskedIn(SubSeq(input, 1, k))
  BY <1>1, <1>2, <1>3, <1>4, NextLine DEF Read, SplitsAt, line
<1>6. NotBlank(line) <=> ~Blank(line)
  BY DEF NotBlank, Blank
<1>7. LineBreak(input, m)
  BY <1>3 DEF LineBreak, SplitsAt, IsLine
<1>8. QED
  BY <1>2, <1>3, <1>4, <1>5, <1>6, <1>7 DEF Read, SplitsAt, line

\* A step that leaves what was answered and what was handled keeps that part.
LEMMA AnswersKept ==
    ASSUME FramingInv, UNCHANGED <<output, handled>>, thread' # "ended" => thread # "ended"
    PROVE  /\ \A i \in DOMAIN handled' : ~HasLine(handled'[i])
           /\ Len(Replied') <= Len(handled')
           /\ \A i \in DOMAIN Replied' : Replied'[i] \in Responses(handled'[i])
           /\ LineBreak(output', Len(output'))
           /\ thread' # "ended" => Len(Replied') = Len(handled')
           /\ output' \in Seq(Bytes)
<1>1. Replied' = Replied
  BY DEF Replied
<1>2. QED
  BY <1>1 DEF FramingInv, FramingTypeOK

\* Write: the byte goes to the end of what is on the way.
LEMMA WriteStep == ASSUME FramingInv, Write PROVE FramingInv'
<1> DEFINE e == input[written + 1]
<1>1. /\ input \in Seq(Bytes) /\ written \in Nat /\ written + 1 \in 0..Len(input)
      /\ buffer \in Seq(Bytes) /\ toServer \in Seq(Bytes) /\ written + 1 \in 1..Len(input)
      /\ e \in Bytes
  BY FramingTypes DEF Write
<1>2. <<e>> \in Seq(Bytes) /\ <<e>> = SubSeq(input, written + 1, written + 1)
  BY <1>1
<1>3. Append(toServer, e) = toServer \o <<e>>
  BY <1>1
<1> HIDE DEF e
<1>4. PICK k \in 0..written : Read(k)
  BY DEF FramingInv, Read
<1>5. Holds(buffer, toServer, input, k, written)
  BY <1>4 DEF Read, Holds
<1>6. /\ toServer \o <<e>> \in Seq(Bytes)
      /\ Holds(buffer, toServer \o <<e>>, input, k, written + 1)
  <2>1. written \in 0..(written + 1)
    BY <1>1
  <2>2. QED
    BY <1>1, <1>2, <1>4, <1>5, <2>1, StreamGoesOn
<1>7. /\ written' = written + 1 /\ toServer' = toServer \o <<e>>
      /\ UNCHANGED <<input, open, toClient, thread, buffer, clientBuffer, handled, output, got>>
  BY <1>3 DEF Write, e
<1>8. k \in 0..written' /\ Read(k)'
  <2>1. k \in 0..written'
    BY <1>1, <1>7
  <2>2. (Holds(buffer, toServer, input, k, written))'
    BY <1>6, <1>7 DEF Holds
  <2>3. QED
    BY <1>4, <1>7, <2>1, <2>2 DEF Read, Holds
<1>9. \E j \in 0..Len(output') : Taken(j)'
  BY <1>7 DEF FramingInv, Taken
<1>10. FramingTypeOK'
  BY <1>1, <1>6, <1>7, AnswersKept DEF FramingInv, FramingTypeOK
<1>11. QED
  BY <1>7, <1>8, <1>9, <1>10, AnswersKept DEF FramingInv, Read, Taken

\* ClientRecv: bytes go to the program's buffer.
LEMMA ClientRecvStep ==
    ASSUME FramingInv, NEW n \in 1..ChunkSize, ClientRecv(n) PROVE FramingInv'
<1>1. /\ clientBuffer \in Seq(Bytes) /\ toClient \in Seq(Bytes) /\ n \in Nat
      /\ Piece(toClient, n)
  BY FramingTypes, LineAssumption DEF ClientRecv
<1>2. /\ clientBuffer' \in Seq(Bytes) /\ toClient' \in Seq(Bytes)
      /\ clientBuffer' \o toClient' = clientBuffer \o toClient
  BY <1>1, PieceMoves DEF ClientRecv
<1>3. UNCHANGED <<input, written, open, toServer, thread, buffer, handled, output, got>>
  BY DEF ClientRecv
<1>4. \E k \in 0..written' : Read(k)'
  BY <1>3 DEF FramingInv, Read
<1>5. \E k \in 0..Len(output') : Taken(k)'
  BY <1>2, <1>3 DEF FramingInv, Taken
<1>6. FramingTypeOK'
  BY <1>2, <1>3, AnswersKept DEF FramingInv, FramingTypeOK
<1>7. QED
  BY <1>3, <1>4, <1>5, <1>6, AnswersKept DEF FramingInv, Read, Taken

\* ClientTakesLine: the next line of the output.
LEMMA ClientTakesLineStep == ASSUME FramingInv, ClientTakesLine PROVE FramingInv'
<1>1. /\ clientBuffer \in Seq(Bytes) /\ toClient \in Seq(Bytes) /\ output \in Seq(Bytes)
      /\ Len(output) \in Nat /\ Len(output) \in 0..Len(output)
  BY FramingTypes
<1>2. PICK k \in 0..Len(output) : Taken(k)
  BY DEF FramingInv, Taken
<1>3. HasLine(clientBuffer) /\ open
  BY DEF ClientTakesLine
<1>4. PICK m \in (k + 1)..Len(output) :
         SplitsAt(m, output, Len(output), k, clientBuffer, toClient)
  <2>1. clientBuffer \o toClient = SubSeq(output, k + 1, Len(output))
    BY <1>2, <1>3 DEF Taken
  <2>2. QED
    BY <1>1, <1>3, <2>1, TakeLine
<1>5. m \in 1..Len(output) /\ m \in 0..Len(output)
  OBVIOUS
<1>6. LinesOf(SubSeq(output, 1, m)) = Append(got, FirstLine(clientBuffer))
  BY <1>1, <1>2, <1>4, NextLine DEF Taken, SplitsAt
<1>7. /\ got' = Append(got, FirstLine(clientBuffer)) /\ clientBuffer' = Rest(clientBuffer)
      /\ UNCHANGED <<input, written, open, toServer, toClient, thread, buffer, handled, output>>
  BY DEF ClientTakesLine
<1>8. Taken(m)'
  BY <1>4, <1>5, <1>6, <1>7 DEF Taken, SplitsAt, LineBreak, IsLine
<1>9. clientBuffer' \in Seq(Bytes)
  BY <1>4, <1>7 DEF SplitsAt
<1>10. \E j \in 0..written' : Read(j)'
  BY <1>7 DEF FramingInv, Read
<1>11. FramingTypeOK'
  BY <1>7, <1>9, AnswersKept DEF FramingInv, FramingTypeOK
<1>12. \E j \in 0..Len(output') : Taken(j)'
  BY <1>5, <1>7, <1>8
<1>13. QED
  BY <1>7, <1>10, <1>11, <1>12, AnswersKept DEF FramingInv, Read, Taken

\* Close: what the program has not read is lost.
LEMMA CloseStep == ASSUME FramingInv, Close PROVE FramingInv'
<1>1. /\ open' = FALSE /\ toClient' = <<>> /\ clientBuffer' = <<>> /\ <<>> \in Seq(Bytes)
      /\ UNCHANGED <<input, written, toServer, thread, buffer, handled, output, got>>
  BY DEF Close
<1>2. \E k \in 0..written' : Read(k)'
  BY <1>1 DEF FramingInv, Read
<1>3. \E k \in 0..Len(output') : Taken(k)'
  BY <1>1 DEF FramingInv, Taken
<1>4. FramingTypeOK'
  BY <1>1, AnswersKept DEF FramingInv, FramingTypeOK
<1>5. QED
  BY <1>1, <1>2, <1>3, <1>4, AnswersKept DEF FramingInv, Read, Taken

\* Recv: bytes go to the daemon's buffer.
LEMMA RecvStep == ASSUME FramingInv, NEW n \in 1..ChunkSize, Recv(n) PROVE FramingInv'
<1>1. buffer \in Seq(Bytes) /\ toServer \in Seq(Bytes) /\ n \in Nat /\ Piece(toServer, n)
  BY FramingTypes, LineAssumption DEF Recv
<1>2. /\ buffer' \in Seq(Bytes) /\ toServer' \in Seq(Bytes)
      /\ buffer' \o toServer' = buffer \o toServer
  BY <1>1, PieceMoves DEF Recv
<1>3. /\ thread = "recv" /\ thread' = "split"
      /\ UNCHANGED <<input, written, open, toClient, clientBuffer, handled, output, got>>
  BY DEF Recv
<1>4. \E k \in 0..written' : Read(k)'
  BY <1>2, <1>3 DEF FramingInv, Read
<1>5. \E k \in 0..Len(output') : Taken(k)'
  BY <1>3 DEF FramingInv, Taken
<1>6. FramingTypeOK'
  BY <1>2, <1>3, AnswersKept DEF FramingInv, FramingTypeOK
<1>7. QED
  BY <1>3, <1>4, <1>5, <1>6, AnswersKept DEF FramingInv, Read, Taken

\* The steps that only move the thread, to its end or to recv().
LEMMA ThreadMoves ==
    ASSUME FramingInv, RecvNothing \/ ThreadDies \/ NoMoreLines PROVE FramingInv'
<1>1. /\ thread # "ended" /\ thread' \in {"recv", "ended"}
      /\ UNCHANGED <<input, written, open, toServer, toClient, buffer, clientBuffer, handled,
                     output, got>>
  BY DEF RecvNothing, ThreadDies, NoMoreLines
<1>2. \E k \in 0..written' : Read(k)'
  BY <1>1 DEF FramingInv, Read
<1>3. \E k \in 0..Len(output') : Taken(k)'
  BY <1>1 DEF FramingInv, Taken
<1>4. FramingTypeOK'
  BY <1>1, AnswersKept DEF FramingInv, FramingTypeOK
<1>5. QED
  BY <1>1, <1>2, <1>3, <1>4, AnswersKept DEF FramingInv, Read, Taken

\* SkipBlank: a line nobody asked anything with.
LEMMA SkipBlankStep == ASSUME FramingInv, SkipBlank PROVE FramingInv'
<1>1. /\ HasLine(buffer) /\ Blank(FirstLine(buffer)) /\ buffer' = Rest(buffer)
      /\ UNCHANGED <<input, written, open, toServer, toClient, thread, clientBuffer, handled,
                     output, got>>
  BY DEF SkipBlank
<1>2. PICK m \in 1..written :
         /\ LineBreak(input, m) /\ AskedIn(SubSeq(input, 1, m)) = handled
         /\ Rest(buffer) \in Seq(Bytes)
         /\ Rest(buffer) \o toServer = SubSeq(input, m + 1, written)
  BY <1>1, NextRequest
<1>3. m \in 0..written' /\ Read(m)'
  BY <1>1, <1>2, FramingTypes DEF Read
<1>4. \E k \in 0..Len(output') : Taken(k)'
  BY <1>1 DEF FramingInv, Taken
<1>5. FramingTypeOK'
  BY <1>1, <1>2, AnswersKept DEF FramingInv, FramingTypeOK
<1>6. QED
  BY <1>1, <1>3, <1>4, <1>5, AnswersKept DEF FramingInv, Read, Taken

\* A sequence with one more element.
LEMMA OneMore ==
    ASSUME NEW T, NEW x \in Seq(T), NEW z
    PROVE  /\ Len(x) \in Nat /\ DOMAIN x = 1..Len(x)
           /\ Len(Append(x, z)) = Len(x) + 1 /\ DOMAIN Append(x, z) = 1..(Len(x) + 1)
           /\ \A n \in 1..Len(x) : Append(x, z)[n] = x[n]
           /\ Append(x, z)[Len(x) + 1] = z
<1> DEFINE V == T \cup {z}
<1>1. x \in Seq(V) /\ z \in V
  BY SeqMonotonic
<1> HIDE DEF V
<1>2. QED
  BY <1>1, AppendProperties

\* The lines of a stream, and those that ask, are sequences.
LEMMA LinesTyped ==
    ASSUME NEW b \in Seq(Bytes)
    PROVE  (\E T : LinesOf(b) \in Seq(T)) /\ (\E T : AskedIn(b) \in Seq(T))
<1>1. IsFiniteSet(Ends(b)) /\ IsFiniteSet(Asks(b))
  <2>1. Len(b) \in Nat /\ Ends(b) \in SUBSET (1..Len(b)) /\ Asks(b) \in SUBSET (1..Len(b))
    BY EndsTyped
  <2>2. QED
    BY <2>1, UpTo
<1>2. QED
  BY <1>1, LinesAtProps DEF LinesOf, AskedIn

\* What was handled is a sequence of lines.
LEMMA HandledTyped ==
    ASSUME FramingInv
    PROVE  \E T : handled \in Seq(T)
<1>1. PICK k \in 0..written : Read(k)
  BY DEF FramingInv, Read
<1>2. k \in 0..Len(input)
  BY FramingTypes
<1>3. SubSeq(input, 1, k) \in Seq(Bytes)
  BY <1>2, FramingTypes, PrefixProps
<1>4. \E T : AskedIn(SubSeq(input, 1, k)) \in Seq(T)
  BY <1>3, LinesTyped
<1>5. QED
  BY <1>1, <1>4 DEF Read

\* The response joins those written before it.
LEMMA AnswerJoins ==
    ASSUME FramingInv, NEW line, NEW response \in Responses(line), thread # "ended",
           ~HasLine(line), handled' = Append(handled, line),
           Replied' = Append(Replied, response)
    PROVE  /\ \A i \in DOMAIN handled' : ~HasLine(handled'[i])
           /\ Len(Replied') = Len(handled')
           /\ Len(Replied') <= Len(handled')
           /\ \A i \in DOMAIN Replied' : Replied'[i] \in Responses(handled'[i])
<1>1. PICK T : handled \in Seq(T)
  BY HandledTyped
<1>2. PICK U : Replied \in Seq(U)
  BY FramingTypes, LinesTyped DEF Replied
<1>3. /\ Len(handled) \in Nat /\ DOMAIN handled = 1..Len(handled)
      /\ Len(handled') = Len(handled) + 1 /\ DOMAIN handled' = 1..(Len(handled) + 1)
      /\ \A n \in 1..Len(handled) : handled'[n] = handled[n]
      /\ handled'[Len(handled) + 1] = line
  BY <1>1, OneMore
<1>4. /\ Len(Replied) \in Nat /\ DOMAIN Replied = 1..Len(Replied)
      /\ Len(Replied') = Len(Replied) + 1 /\ DOMAIN Replied' = 1..(Len(Replied) + 1)
      /\ \A n \in 1..Len(Replied) : Replied'[n] = Replied[n]
      /\ Replied'[Len(Replied) + 1] = response
  BY <1>2, OneMore
<1>5. /\ \A i \in DOMAIN handled : ~HasLine(handled[i])
      /\ \A i \in DOMAIN Replied : Replied[i] \in Responses(handled[i])
      /\ Len(Replied) = Len(handled)
  BY DEF FramingInv, FramingTypeOK
<1>6. ASSUME NEW i \in DOMAIN handled' PROVE ~HasLine(handled'[i])
  <2>1. i \in 1..Len(handled) \/ i = Len(handled) + 1
    BY <1>3
  <2>2. QED
    BY <1>3, <1>5, <2>1
<1>7. ASSUME NEW i \in DOMAIN Replied' PROVE Replied'[i] \in Responses(handled'[i])
  <2>1. i \in 1..Len(Replied) \/ i = Len(Replied) + 1
    BY <1>4
  <2>2. QED
    BY <1>3, <1>4, <1>5, <2>1
<1>8. QED
  BY <1>3, <1>4, <1>5, <1>6, <1>7

\* The line joins those handled before it, and nothing is written.
LEMMA LineJoins ==
    ASSUME FramingInv, NEW line, ~HasLine(line), handled' = Append(handled, line),
           UNCHANGED output
    PROVE  /\ \A i \in DOMAIN handled' : ~HasLine(handled'[i])
           /\ Len(Replied') <= Len(handled')
           /\ \A i \in DOMAIN Replied' : Replied'[i] \in Responses(handled'[i])
<1>1. PICK T : handled \in Seq(T)
  BY HandledTyped
<1>2. PICK U : Replied \in Seq(U)
  BY FramingTypes, LinesTyped DEF Replied
<1>3. /\ Len(handled) \in Nat /\ DOMAIN handled = 1..Len(handled)
      /\ Len(handled') = Len(handled) + 1 /\ DOMAIN handled' = 1..(Len(handled) + 1)
      /\ \A n \in 1..Len(handled) : handled'[n] = handled[n]
      /\ handled'[Len(handled) + 1] = line
  BY <1>1, OneMore
<1>4. Len(Replied) \in Nat /\ DOMAIN Replied = 1..Len(Replied)
  BY <1>2
<1>5. /\ \A i \in DOMAIN handled : ~HasLine(handled[i])
      /\ \A i \in DOMAIN Replied : Replied[i] \in Responses(handled[i])
      /\ Len(Replied) <= Len(handled)
  BY DEF FramingInv, FramingTypeOK
<1>6. Replied' = Replied
  BY DEF Replied
<1>7. ASSUME NEW i \in DOMAIN handled' PROVE ~HasLine(handled'[i])
  <2>1. i \in 1..Len(handled) \/ i = Len(handled) + 1
    BY <1>3
  <2>2. QED
    BY <1>3, <1>5, <2>1
<1>8. \A i \in DOMAIN Replied : i \in 1..Len(handled)
  BY <1>3, <1>4, <1>5
<1>9. QED
  BY <1>3, <1>4, <1>5, <1>6, <1>7, <1>8

\* What is on its way to the program grows by the response.
LEMMA OutputGrows ==
    ASSUME FramingInv, open, NEW response \in Seq(Bytes), ~HasLine(response),
           output' = output \o (response \o <<NL>>),
           toClient' = toClient \o (response \o <<NL>>),
           UNCHANGED <<open, clientBuffer, got>>
    PROVE  /\ output' \in Seq(Bytes) /\ toClient' \in Seq(Bytes)
           /\ LineBreak(output', Len(output'))
           /\ Replied' = Append(Replied, response)
           /\ \E k \in 0..Len(output') : Taken(k)'
<1> DEFINE r == response \o <<NL>>
<1>1. /\ output \in Seq(Bytes) /\ Len(output) \in Nat
      /\ toClient \in Seq(Bytes) /\ clientBuffer \in Seq(Bytes)
  BY FramingTypes
<1>2. LineBreak(output, Len(output))
  BY DEF FramingInv
<1>3. /\ r \in Seq(Bytes) /\ output \o r \in Seq(Bytes)
      /\ LineBreak(output \o r, Len(output \o r))
      /\ LinesOf(output \o r) = Append(LinesOf(output), response)
  BY <1>1, <1>2, ResponseWritten
<1>4. output' = output \o r /\ toClient' = toClient \o r
  OBVIOUS
<1> HIDE DEF r
<1>5. PICK k \in 0..Len(output) : Taken(k)
  BY DEF FramingInv, Taken
<1>6. Holds(clientBuffer, toClient, output, k, Len(output))
  BY <1>5 DEF Taken, Holds
<1> DEFINE c == output \o r
<1>7. /\ Len(c) = Len(output) + Len(r) /\ Len(r) \in Nat
      /\ SubSeq(c, 1, k) = SubSeq(output, 1, k)
      /\ SubSeq(c, k + 1, Len(output)) = SubSeq(output, k + 1, Len(output))
      /\ SubSeq(c, Len(output) + 1, Len(output) + Len(r)) = r
      /\ LineBreak(output, k) => LineBreak(c, k)
  BY <1>1, <1>3, StreamKeeps
<1>8. c \in Seq(Bytes) /\ output' = c
  BY <1>3, <1>4
<1> HIDE DEF c
<1>9. Holds(clientBuffer, toClient, c, k, Len(output))
  BY <1>6, <1>7 DEF Holds
<1>10. toClient \o r \in Seq(Bytes) /\ Holds(clientBuffer, toClient \o r, c, k, Len(c))
  <2>1. Len(c) \in 0..Len(c) /\ Len(output) \in 0..Len(c) /\ r = SubSeq(c, Len(output) + 1, Len(c))
    BY <1>1, <1>7
  <2>2. QED
    BY <1>1, <1>3, <1>8, <1>9, <2>1, StreamGoesOn
<1>11. k \in 0..Len(output') /\ Taken(k)'
  <2>1. k \in 0..Len(output')
    BY <1>1, <1>7, <1>8
  <2>2. clientBuffer' = clientBuffer /\ got' = got /\ open' = open
    OBVIOUS
  <2>3. (Holds(clientBuffer, toClient, output, k, Len(output)))'
    BY <1>4, <1>8, <1>10, <2>2 DEF Holds
  <2>4. QED
    BY <1>5, <1>7, <1>8, <2>1, <2>2, <2>3 DEF Taken, Holds
<1>12. Replied' = Append(Replied, response) /\ LineBreak(output', Len(output'))
  BY <1>3, <1>4 DEF Replied
<1>13. QED
  BY <1>4, <1>8, <1>10, <1>11, <1>12

\* HandleLine: the next line of the input, and, unless the program has gone, the
\* response to it.
LEMMA HandleLineStep == ASSUME FramingInv, HandleLine PROVE FramingInv'
<1> DEFINE line == FirstLine(buffer)
<1>1. /\ thread = "split" /\ HasLine(buffer) /\ ~Blank(line) /\ handled' = Append(handled, line)
      /\ buffer' = Rest(buffer)
      /\ UNCHANGED <<input, written, open, toServer, clientBuffer, got>>
  BY DEF HandleLine
<1>2. PICK response \in Responses(line) :
         IF open
         THEN /\ output' = output \o (response \o <<NL>>)
              /\ toClient' = toClient \o (response \o <<NL>>)
              /\ UNCHANGED thread
         ELSE thread' = "ended" /\ UNCHANGED <<output, toClient>>
  BY DEF HandleLine
<1>3. response \in Seq(Bytes) /\ ~HasLine(response)
  BY ResponseProps
<1>4. ~HasLine(line)
  BY <1>1, FramingTypes, LineHasNone
<1>5. PICK m \in 1..written :
         /\ LineBreak(input, m) /\ AskedIn(SubSeq(input, 1, m)) = Append(handled, line)
         /\ Rest(buffer) \in Seq(Bytes)
         /\ Rest(buffer) \o toServer = SubSeq(input, m + 1, written)
  BY <1>1, NextRequest
<1> HIDE DEF line
<1>6. m \in 0..written' /\ Read(m)'
  BY <1>1, <1>5, FramingTypes DEF Read
<1>7. CASE open
  <2>1. /\ output' \in Seq(Bytes) /\ toClient' \in Seq(Bytes)
        /\ LineBreak(output', Len(output'))
        /\ Replied' = Append(Replied, response)
        /\ \E k \in 0..Len(output') : Taken(k)'
    BY <1>1, <1>2, <1>3, <1>7, OutputGrows
  <2>2. /\ \A i \in DOMAIN handled' : ~HasLine(handled'[i])
        /\ Len(Replied') = Len(handled')
        /\ Len(Replied') <= Len(handled')
        /\ \A i \in DOMAIN Replied' : Replied'[i] \in Responses(handled'[i])
    BY <1>1, <1>4, <2>1, AnswerJoins
  <2>3. FramingTypeOK'
    BY <1>1, <1>2, <1>5, <1>7, <2>1, <2>2 DEF FramingInv, FramingTypeOK
  <2>4. QED
    BY <1>6, <2>1, <2>2, <2>3 DEF FramingInv, Read, Taken
<1>8. CASE ~open
  <2>1. /\ \A i \in DOMAIN handled' : ~HasLine(handled'[i])
        /\ Len(Replied') <= Len(handled')
        /\ \A i \in DOMAIN Replied' : Replied'[i] \in Responses(handled'[i])
    BY <1>1, <1>2, <1>4, <1>8, LineJoins
  <2>2. FramingTypeOK'
    BY <1>1, <1>2, <1>5, <1>8, <2>1 DEF FramingInv, FramingTypeOK
  <2>3. \E k \in 0..Len(output') : Taken(k)'
    BY <1>1, <1>2, <1>8 DEF FramingInv, Taken
  <2>4. LineBreak(output', Len(output')) /\ thread' = "ended"
    BY <1>2, <1>8 DEF FramingInv
  <2>5. QED
    BY <1>6, <2>2, <2>3, <2>4 DEF FramingInv, Read, Taken
<1>9. QED
  BY <1>7, <1>8

-----------------------------------------------------------------------------
(* Theorems.                                                                *)

\* Each step keeps the invariant.
LEMMA FramingStep == FramingInv /\ [FramingNext]_framingVars => FramingInv'
<1> SUFFICES ASSUME FramingInv, [FramingNext]_framingVars PROVE FramingInv'
  OBVIOUS
<1>1. CASE Write
  BY <1>1, WriteStep
<1>2. CASE ClientReads
  BY <1>2, ClientTakesLineStep, ClientRecvStep DEF ClientReads
<1>3. CASE Close
  BY <1>3, CloseStep
<1>4. CASE ThreadStep
  BY <1>4, RecvStep, ThreadMoves, SkipBlankStep, HandleLineStep DEF ThreadStep
<1>5. CASE UNCHANGED framingVars
  <2>1. UNCHANGED <<input, written, open, toServer, toClient, thread, buffer, clientBuffer,
                    handled, output, got>>
    BY <1>5 DEF framingVars
  <2>2. (\E k \in 0..written' : Read(k)') /\ \E k \in 0..Len(output') : Taken(k)'
    BY <2>1 DEF FramingInv, Read, Taken
  <2>3. FramingTypeOK'
    BY <2>1, AnswersKept DEF FramingInv, FramingTypeOK
  <2>4. QED
    BY <2>1, <2>2, <2>3, AnswersKept DEF FramingInv, Read, Taken
<1>6. QED
  BY <1>1, <1>2, <1>3, <1>4, <1>5 DEF FramingNext

\* Each end of a connection has read its stream up to a newline, whatever pieces
\* recv() gave it, and has in its buffer what follows it (server.py:85-105,
\* client.py:386-400).
THEOREM StreamsFramed == FramingSpec => []FramingInv
  BY FramingInitInv, FramingStep, PTL DEF FramingSpec

\* What _handle_line is given is one line, and the n-th line the daemon writes is
\* a response to the n-th it was given (server.py:97-101).
THEOREM FramingTypeCorrect == FramingSpec => []FramingTypeOK
<1>1. FramingInv => FramingTypeOK
  BY DEF FramingInv
<1>2. QED
  BY <1>1, StreamsFramed, PTL

\* The n-th response the program reads is one to the n-th line that asked for one
\* (server.py:96-101, client.py:395-400).
THEOREM ResponsesPaired == FramingSpec => []PairedByOrder
<1>1. ASSUME FramingInv PROVE PairedByOrder
  <2>1. /\ output \in Seq(Bytes) /\ Len(output) \in 0..Len(output)
        /\ input \in Seq(Bytes) /\ written \in 0..Len(input)
    BY <1>1, FramingTypes
  <2>2. PICK k \in 0..Len(output) : Taken(k)
    BY <1>1 DEF FramingInv, Taken
  <2>3. PICK j \in 0..written : Read(j)
    BY <1>1 DEF FramingInv, Read
  <2>4. BeginsWith(Replied, got)
    <3>1. BeginsWith(LinesOf(SubSeq(output, 1, Len(output))), LinesOf(SubSeq(output, 1, k)))
      BY <2>1, StreamGrows
    <3>2. QED
      BY <2>1, <2>2, <3>1, SubSeqFull DEF Taken, Replied
  <2>5. BeginsWith(Asked, handled)
    BY <2>1, <2>3, StreamGrows DEF Read, Asked
  <2>6. /\ Len(Replied) <= Len(handled)
        /\ \A i \in DOMAIN Replied : Replied[i] \in Responses(handled[i])
    BY <1>1 DEF FramingInv, FramingTypeOK
  <2>7. Len(got) <= Len(Asked)
    BY <2>4, <2>5, <2>6 DEF BeginsWith
  <2>8. ASSUME NEW n \in DOMAIN got PROVE got[n] \in Responses(Asked[n])
    <3>1. n \in 1..Len(got) /\ n \in 1..Len(Replied) /\ n \in 1..Len(handled) /\ n \in DOMAIN Replied
      BY <2>4, <2>5, <2>6 DEF BeginsWith
    <3>2. got[n] = Replied[n] /\ handled[n] = Asked[n]
      BY <2>4, <2>5, <3>1 DEF BeginsWith
    <3>3. QED
      BY <2>6, <3>1, <3>2
  <2>9. QED
    BY <2>7, <2>8 DEF PairedByOrder
<1>2. QED
  BY <1>1, StreamsFramed, PTL

\* The newline of a line that asks adds that line.
LEMMA OneMoreAsked ==
    ASSUME NEW b \in Seq(Bytes), NEW m \in 1..Len(b), m \in Asks(b)
    PROVE  AskedIn(SubSeq(b, 1, m)) = Append(AskedIn(SubSeq(b, 1, m - 1)), LineAt(b, m))
<1> DEFINE line == LineAt(b, m)
<1>1. PICK k \in 0..(m - 1) : k + 1 = LineStart(b, m)
  <2>1. LineStart(b, m) \in 1..m
    BY LineStartProps
  <2>2. LineStart(b, m) - 1 \in 0..(m - 1) /\ LineStart(b, m) - 1 + 1 = LineStart(b, m)
    BY <2>1
  <2>3. QED
    BY <2>2
<1>2. LineBreak(b, k) /\ \A j \in (k + 1)..(m - 1) : b[j] # NL
  <2>1. LineBreak(b, LineStart(b, m) - 1) /\ k = LineStart(b, m) - 1
    BY <1>1, LineStartProps
  <2>2. QED
    BY <1>1, <2>1, LineStartProps
<1>3. /\ k \in 0..Len(b) /\ m \in (k + 1)..Len(b) /\ m - 1 \in k..Len(b)
      /\ b[m] = NL /\ line = SubSeq(b, k + 1, m - 1)
  BY <1>1 DEF Asks, Ends, LineAt
<1>0. NotBlank(line)
  BY DEF Asks
<1> HIDE DEF line
<1>4. AskedIn(SubSeq(b, 1, m)) = Append(AskedIn(SubSeq(b, 1, k)), line)
  <2>1. IsLine(line, b, k, m)
    BY <1>2, <1>3 DEF IsLine
  <2>2. QED
    BY <1>0, <1>2, <1>3, <2>1, NextLine
<1>5. AskedIn(SubSeq(b, 1, m - 1)) = AskedIn(SubSeq(b, 1, k))
  <2>1. \A i \in (k + 1)..(m - 1) : i \notin Asks(b)
    BY <1>2 DEF Asks, Ends
  <2>2. QED
    BY <1>3, <2>1, NothingAsked
<1>6. QED
  BY <1>0, <1>4, <1>5 DEF line

\* A byte that ends no question asks nothing; one that does sends a line.
LEMMA WriteSends == ASSUME FramingInv, Write PROVE [Lines!Next]_<<Asked, handled>>
<1> DEFINE m == written + 1
           line == LineAt(input, m)
<1>1. /\ input \in Seq(Bytes) /\ written \in Nat /\ written \in 0..Len(input)
      /\ m \in 1..Len(input) /\ m \in 0..Len(input) /\ m \in Nat /\ input \in Inputs
  <2>1. /\ input \in Seq(Bytes) /\ Len(input) \in Nat /\ written \in 0..Len(input)
        /\ written < Len(input)
    BY FramingTypes DEF Write
  <2>2. input \in Inputs
    BY DEF FramingInv, FramingTypeOK
  <2>3. QED
    BY <2>1, <2>2
<1>2. input' = input /\ written' = m /\ handled' = handled
  BY DEF Write
<1>3. Asked' = AskedIn(SubSeq(input, 1, m))
  BY <1>2 DEF Asked
<1>4. CASE m \notin Asks(input)
  <2>1. AskedIn(SubSeq(input, 1, m)) = Asked
    <3>1. \A i \in (written + 1)..m : i \notin Asks(input)
      BY <1>1, <1>4
    <3>2. m \in written..Len(input)
      BY <1>1
    <3>3. QED
      BY <1>1, <3>1, <3>2, NothingAsked DEF Asked
  <2>2. QED
    BY <1>2, <1>3, <2>1
<1>5. CASE m \in Asks(input)
  <2>1. written = m - 1
    BY <1>1
  <2> HIDE DEF m
  <2>2. AskedIn(SubSeq(input, 1, m)) = Append(AskedIn(SubSeq(input, 1, m - 1)), line)
    BY <1>1, <1>5, OneMoreAsked
  <2>3. line \in PossibleLines
    BY <1>1, <1>5 DEF PossibleLines
  <2> HIDE DEF line
  <2>4. Lines!Send
    BY <1>2, <1>3, <2>1, <2>2, <2>3 DEF Lines!Send, Asked
  <2>5. QED
    BY <2>4 DEF Lines!Next
<1>6. QED
  BY <1>4, <1>5

\* The line handled is the first of those asked that was not.
LEMMA HandleLineReceives == ASSUME FramingInv, HandleLine PROVE Lines!Receive
<1> DEFINE line == FirstLine(buffer)
<1>1. /\ HasLine(buffer) /\ ~Blank(line) /\ handled' = Append(handled, line)
      /\ UNCHANGED <<input, written>>
  BY DEF HandleLine
<1>2. PICK m \in 1..written : AskedIn(SubSeq(input, 1, m)) = Append(handled, line)
  BY <1>1, NextRequest
<1> HIDE DEF line
<1>3. input \in Seq(Bytes) /\ written \in 0..Len(input) /\ m \in 0..written
  BY FramingTypes
<1>4. BeginsWith(Asked, Append(handled, line))
  BY <1>2, <1>3, StreamGrows DEF Asked
<1>5. PICK T : handled \in Seq(T)
  BY HandledTyped
<1>6. /\ Len(handled) \in Nat /\ Len(Append(handled, line)) = Len(handled) + 1
      /\ Append(handled, line)[Len(handled) + 1] = line
  BY <1>5, OneMore
<1>7. Len(handled) < Len(Asked) /\ Asked[Len(handled) + 1] = line
  BY <1>4, <1>6 DEF BeginsWith
<1>8. Asked' = Asked
  BY <1>1 DEF Asked
<1>9. QED
  BY <1>1, <1>7, <1>8 DEF Lines!Receive

\* However the bytes are cut into pieces, _handle_line gets the lines that were
\* written, whole, each once and in their order: the connection is the queue of
\* lines that HalRpc takes it for (server.py:91-100).
THEOREM BytesComeToLines == FramingSpec => RequestsInOrder
<1>1. ASSUME FramingInit PROVE Lines!Init
  <2>1. SubSeq(input, 1, written) = <<>> /\ handled = <<>>
    BY <1>1, SubSeqEmpty DEF FramingInit
  <2>2. QED
    BY <2>1, NoLines DEF Lines!Init, Asked
<1>2. ASSUME FramingInv, [FramingNext]_framingVars PROVE [Lines!Next]_<<Asked, handled>>
  <2>1. CASE Write
    BY <1>2, <2>1, WriteSends
  <2>2. CASE HandleLine
    BY <1>2, <2>2, HandleLineReceives DEF Lines!Next
  <2>3. CASE UNCHANGED <<input, written, handled>>
    BY <2>3 DEF Asked
  <2>4. ASSUME ~Write, ~HandleLine PROVE UNCHANGED <<input, written, handled>>
    BY <1>2, <2>4 DEF FramingNext, ClientReads, ThreadStep, ClientTakesLine, ClientRecv, Close,
                      Recv, RecvNothing, SkipBlank, ThreadDies, NoMoreLines, framingVars
  <2>5. QED
    BY <2>1, <2>2, <2>3, <2>4
<1>3. QED
  BY <1>1, <1>2, StreamsFramed, PTL DEF FramingSpec, RequestsInOrder, Lines!Spec

=============================================================================
