--------------------------- MODULE FramingProofs ---------------------------
(* The bytes of a connection implement a channel of lines, for any lines,  *)
(* any size of the reader's buffer and any capacity of the network.        *)
EXTENDS LineFraming, SequenceTheorems, FiniteSetTheorems, WellFoundedInduction, TLAPS

-----------------------------------------------------------------------------
(* Positions and their ranks.                                              *)

(* A nonempty set of numbers up to m has a greatest one.                   *)
LEMMA Greatest ==
  ASSUME NEW S, S \subseteq Nat, NEW m \in Nat, \A i \in S : i <= m, S # {}
  PROVE  \E i \in S : \A j \in S : j <= i
<1> DEFINE T == {n \in Nat : \E i \in S : n = m - i}
<1>1. T \subseteq Nat /\ T # {}
  <2>1. PICK i \in S : TRUE
    OBVIOUS
  <2>2. m - i \in Nat
    BY <2>1
  <2>3. m - i \in T
    BY <2>1, <2>2
  <2>4. QED
    BY <2>3
<1>2. PICK n \in T : \A k \in T : ~(<<k, n>> \in OpToRel(<, Nat))
  BY <1>1, NatLessThanWellFounded, WFMin
<1>3. PICK i \in S : n = m - i
  BY <1>2
<1>4. ASSUME NEW j \in S PROVE j <= i
  <2>1. m - j \in T
    OBVIOUS
  <2>2. ~(m - j < m - i)
    <3>1. ~(<<m - j, n>> \in OpToRel(<, Nat))
      BY <1>2, <2>1
    <3>2. QED
      BY <1>1, <1>2, <1>3, <2>1, <3>1 DEF OpToRel
  <2>3. QED
    BY <2>2
<1>5. QED
  BY <1>3, <1>4

LEMMA Least ==
  ASSUME NEW S, S \subseteq Nat, S # {}
  PROVE  \E i \in S : \A j \in S : i <= j
<1>1. PICK i \in S : \A j \in S : ~(<<j, i>> \in OpToRel(<, Nat))
  BY NatLessThanWellFounded, WFMin
<1>2. ASSUME NEW j \in S PROVE i <= j
  <2>1. i \in Nat /\ j \in Nat
    OBVIOUS
  <2>2. ~(j < i)
    BY <1>1, <2>1 DEF OpToRel
  <2>3. QED
    BY <2>1, <2>2
<1>3. QED
  BY <1>2

LEMMA RankType ==
  ASSUME NEW S, IsFiniteSet(S), S \subseteq Nat, NEW e \in S
  PROVE  Rank(S, e) \in 1..Cardinality(S)
<1> DEFINE T == {i \in S : i <= e}
<1>1. IsFiniteSet(T) /\ Cardinality(T) <= Cardinality(S)
  BY FS_Subset
<1>2. Cardinality(T) \in Nat /\ Cardinality(S) \in Nat
  BY <1>1, FS_CardinalityType
<1>3. e \in T
  OBVIOUS
<1>4. Cardinality(T) # 0
  BY <1>1, <1>3, FS_EmptySet
<1>5. QED
  BY <1>1, <1>2, <1>4 DEF Rank

LEMMA RankGrows ==
  ASSUME NEW S, IsFiniteSet(S), S \subseteq Nat, NEW d \in S, NEW e \in S, d < e
  PROVE  Rank(S, d) < Rank(S, e)
<1> DEFINE T == {i \in S : i <= e}
           U == {i \in S : i <= d}
<1>1. IsFiniteSet(T)
  BY FS_Subset
<1>2. U \in SUBSET T /\ e \in T /\ e \notin U
  <2>1. \A i \in S : i \in Nat
    OBVIOUS
  <2>2. \A i \in S : i <= d => i <= e
    BY <2>1
  <2>3. e <= e /\ ~(e <= d)
    BY <2>1
  <2>4. QED
    BY <2>2, <2>3
<1>3. IsFiniteSet(U) /\ Cardinality(U) <= Cardinality(T) /\ Cardinality(T) # Cardinality(U)
  BY <1>1, <1>2, FS_Subset
<1>4. Cardinality(T) \in Nat /\ Cardinality(U) \in Nat
  BY <1>1, <1>3, FS_CardinalityType
<1>5. QED
  BY <1>3, <1>4 DEF Rank

(* Each number up to the size of the set is the rank of one position.      *)
LEMMA RankReached ==
  ASSUME NEW S, IsFiniteSet(S), S \subseteq Nat, NEW k \in 1..Cardinality(S)
  PROVE  \E e \in S : Rank(S, e) = k
<1> DEFINE f == [e \in S |-> Rank(S, e)]
           n == Cardinality(S)
<1>1. n \in Nat
  BY FS_CardinalityType
<1>2. f \in [S -> 1..n]
  BY RankType
<1>3. \A d, e \in S : f[d] = f[e] => d = e
  <2>1. SUFFICES ASSUME NEW d \in S, NEW e \in S, d # e PROVE f[d] # f[e]
    OBVIOUS
  <2>2. d \in Nat /\ e \in Nat /\ f[d] = Rank(S, d) /\ f[e] = Rank(S, e)
    OBVIOUS
  <2>3. f[d] \in Nat /\ f[e] \in Nat
    BY <1>1, <1>2
  <2>4. d < e => f[d] < f[e]
    BY <2>2, RankGrows
  <2>5. e < d => f[e] < f[d]
    BY <2>2, RankGrows
  <2>6. QED
    BY <2>1, <2>2, <2>3, <2>4, <2>5
<1>4. f \in Injection(S, 1..n)
  BY <1>2, <1>3 DEF Injection, IsInjective
<1>5. IsFiniteSet(1..n) /\ Cardinality(1..n) = n
  BY <1>1, FS_Interval
<1>6. f \in Surjection(S, 1..n)
  BY <1>4, <1>5, FS_Injection
<1>7. \E e \in S : f[e] = k
  BY <1>6 DEF Surjection
<1>8. QED
  BY <1>7

LEMMA ShiftedSet ==
  ASSUME NEW S, IsFiniteSet(S), S \subseteq Nat, NEW n \in Nat
  PROVE  /\ IsFiniteSet({i + n : i \in S})
         /\ Cardinality({i + n : i \in S}) = Cardinality(S)
<1> DEFINE T == {i + n : i \in S}
           f == [i \in S |-> i + n]
<1>1. f \in Surjection(S, T)
  BY DEF Surjection
<1>2. \A i \in S : i \in Nat
  OBVIOUS
<1>3. \A i, j \in Nat : i + n = j + n => i = j
  OBVIOUS
<1>4. f \in [S -> T]
  OBVIOUS
<1>5. f \in Injection(S, T)
  BY <1>2, <1>3, <1>4 DEF Injection, IsInjective
<1>6. QED
  BY <1>1, <1>5, FS_Surjection

LEMMA ShiftedRank ==
  ASSUME NEW S, IsFiniteSet(S), S \subseteq Nat, NEW n \in Nat, NEW e \in S
  PROVE  Rank({i + n : i \in S}, e + n) = Rank(S, e)
<1> DEFINE T == {i \in S : i <= e}
<1>1. IsFiniteSet(T) /\ T \subseteq Nat
  BY FS_Subset
<1>2. \A i \in S : i \in Nat /\ (i + n <= e + n <=> i <= e)
  OBVIOUS
<1>3. {i \in {j + n : j \in S} : i <= e + n} = {i + n : i \in T}
  BY <1>2
<1>4. QED
  BY <1>1, <1>3, ShiftedSet DEF Rank

(* A new first position moves all others up by one.                        *)
LEMMA RankBehind ==
  ASSUME NEW S, IsFiniteSet(S), S \subseteq Nat, NEW n \in Nat, \A i \in S : i > n
  PROVE  /\ Rank(S \cup {n}, n) = 1
         /\ \A e \in S : Rank(S \cup {n}, e) = Rank(S, e) + 1
<1>1. \A i \in S : i \in Nat /\ ~(i <= n) /\ n <= i
  OBVIOUS
<1>2. {i \in S \cup {n} : i <= n} = {n}
  <2>1. n <= n
    OBVIOUS
  <2>2. \A i : i \in S \cup {n} /\ i <= n <=> i = n
    BY <1>1, <2>1
  <2>3. QED
    BY <2>2
<1>3. Rank(S \cup {n}, n) = 1
  BY <1>2, FS_Singleton DEF Rank
<1>4. ASSUME NEW e \in S PROVE Rank(S \cup {n}, e) = Rank(S, e) + 1
  <2> DEFINE T == {i \in S : i <= e}
  <2>1. IsFiniteSet(T) /\ n \notin T
    BY <1>1, FS_Subset
  <2>2. {i \in S \cup {n} : i <= e} = T \cup {n}
    BY <1>1
  <2>3. QED
    BY <2>1, <2>2, FS_AddElement DEF Rank
<1>5. QED
  BY <1>3, <1>4

-----------------------------------------------------------------------------
(* Where lines begin and end.                                              *)

Data == Byte \cup {NL}

LEMMA Associative == \A s, t, u \in Seq(Data) : (s \o t) \o u = s \o (t \o u)
  BY ConcatAssociative

LEMMA EndsFinite ==
  ASSUME NEW bytes \in Seq(Data)
  PROVE  /\ IsFiniteSet(Ends(bytes))
         /\ Ends(bytes) \subseteq Nat
         /\ Ends(bytes) \subseteq 2..Len(bytes)
         /\ Cardinality(Ends(bytes)) \in Nat
<1>1. Len(bytes) \in Nat
  BY LenProperties
<1>2. Ends(bytes) \in SUBSET (2..Len(bytes))
  BY DEF Ends
<1>3. IsFiniteSet(2..Len(bytes))
  BY <1>1, FS_Interval
<1>4. IsFiniteSet(Ends(bytes))
  BY <1>2, <1>3, FS_Subset
<1>5. 2..Len(bytes) \subseteq Nat
  BY <1>1
<1>6. QED
  BY <1>2, <1>4, <1>5, FS_CardinalityType

LEMMA StartExists ==
  ASSUME NEW bytes \in Seq(Data), NEW e \in 1..Len(bytes) + 1
  PROVE  \E b \in 0..e - 1 : StartsBehind(bytes, b, e)
<1> DEFINE S == {b \in 0..e - 1 : b = 0 \/ bytes[b] = NL}
<1>1. Len(bytes) \in Nat
  BY LenProperties
<1>2. e \in Nat /\ e - 1 \in Nat
  BY <1>1
<1>3. S \subseteq Nat /\ (\A i \in S : i <= e - 1) /\ 0 \in S
  BY <1>2
<1>4. PICK b \in S : \A j \in S : j <= b
  BY <1>2, <1>3, Greatest
<1>5. ASSUME NEW i \in b + 1..e - 1 PROVE bytes[i] # NL
  <2>1. i \in 0..e - 1 /\ ~(i <= b)
    BY <1>2, <1>4
  <2>2. QED
    BY <1>4, <2>1
<1>6. QED
  BY <1>4, <1>5 DEF StartsBehind

LEMMA LineIs ==
  ASSUME NEW bytes \in Seq(Data), NEW e \in 1..Len(bytes) + 1,
         NEW b \in 0..e - 1, StartsBehind(bytes, b, e)
  PROVE  LineTo(bytes, e) = SubSeq(bytes, b + 1, e - 1)
<1>1. Len(bytes) \in Nat
  BY LenProperties
<1>2. ASSUME NEW c \in 0..e - 1, StartsBehind(bytes, c, e) PROVE c = b
  <2>1. CASE c < b
    <3>1. b \in c + 1..e - 1 /\ b # 0
      BY <1>1, <2>1
    <3>2. QED
      BY <1>2, <3>1 DEF StartsBehind
  <2>2. CASE b < c
    <3>1. c \in b + 1..e - 1 /\ c # 0
      BY <1>1, <2>2
    <3>2. QED
      BY <1>2, <3>1 DEF StartsBehind
  <2>3. QED
    BY <1>1, <2>1, <2>2
<1> DEFINE c == CHOOSE c \in 0..e - 1 : StartsBehind(bytes, c, e)
<1>3. c \in 0..e - 1 /\ StartsBehind(bytes, c, e)
  OBVIOUS
<1>4. c = b
  BY <1>2, <1>3
<1>5. QED
  BY <1>4 DEF LineTo

(* What the bytes up to the end say of a line is all there is to it.       *)
LEMMA LineToPrefix ==
  ASSUME NEW x \in Seq(Data), NEW c \in Seq(Data), NEW e \in 1..Len(x) + 1
  PROVE  LineTo(x \o c, e) = LineTo(x, e)
<1>1. /\ Len(x) \in Nat /\ Len(c) \in Nat
      /\ x \o c \in Seq(Data) /\ Len(x \o c) = Len(x) + Len(c)
      /\ \A i \in 1..Len(x) : (x \o c)[i] = x[i] /\ x[i] \in Data
  BY LenProperties, ConcatProperties
<1>2. PICK b \in 0..e - 1 : StartsBehind(x, b, e)
  BY StartExists
<1>3. \A i \in 1..e - 1 : i \in 1..Len(x)
  BY <1>1
<1>4. StartsBehind(x \o c, b, e)
  <2>1. b = 0 \/ b \in 1..e - 1
    BY <1>1
  <2>2. \A i \in b + 1..e - 1 : i \in 1..e - 1
    BY <1>1
  <2>3. QED
    BY <1>1, <1>2, <1>3, <2>1, <2>2 DEF StartsBehind
<1>5. e \in 1..Len(x \o c) + 1
  BY <1>1
<1>6. LineTo(x \o c, e) = SubSeq(x \o c, b + 1, e - 1)
  BY <1>1, <1>4, <1>5, LineIs
<1>7. LineTo(x, e) = SubSeq(x, b + 1, e - 1)
  BY <1>2, LineIs
<1>8. SubSeq(x \o c, b + 1, e - 1) = SubSeq(x, b + 1, e - 1)
  <2>1. \A i \in b + 1..e - 1 : (x \o c)[i] = x[i] /\ x[i] \in Data
    BY <1>1, <1>3
  <2>2. b + 1 \in Int /\ e - 1 \in Int
    BY <1>1
  <2>3. /\ SubSeq(x, b + 1, e - 1) \in Seq(Data)
        /\ Len(SubSeq(x, b + 1, e - 1)) = IF b + 1 <= e - 1 THEN e - 1 - (b + 1) + 1 ELSE 0
        /\ \A i \in 1..e - 1 - (b + 1) + 1 : SubSeq(x, b + 1, e - 1)[i] = x[b + 1 + i - 1]
    BY <2>1, <2>2, SubSeqProperties
  <2>4. /\ SubSeq(x \o c, b + 1, e - 1) \in Seq(Data)
        /\ Len(SubSeq(x \o c, b + 1, e - 1)) = IF b + 1 <= e - 1 THEN e - 1 - (b + 1) + 1 ELSE 0
        /\ \A i \in 1..e - 1 - (b + 1) + 1 :
             SubSeq(x \o c, b + 1, e - 1)[i] = (x \o c)[b + 1 + i - 1]
    BY <2>1, <2>2, SubSeqProperties
  <2>5. \A i \in 1..Len(SubSeq(x, b + 1, e - 1)) :
           i \in 1..e - 1 - (b + 1) + 1 /\ b + 1 + i - 1 \in b + 1..e - 1
    BY <1>1, <2>3
  <2>6. QED
    BY <2>1, <2>3, <2>4, <2>5, SeqEqual
<1>9. QED
  BY <1>6, <1>7, <1>8

-----------------------------------------------------------------------------
(* The lines among the bytes.                                              *)

LEMMA LineTyped ==
  ASSUME NEW bytes \in Seq(Data), NEW e \in 1..Len(bytes) + 1
  PROVE  LineTo(bytes, e) \in Seq(Data)
<1>1. Len(bytes) \in Nat /\ \A i \in 1..Len(bytes) : bytes[i] \in Data
  BY LenProperties
<1>2. PICK b \in 0..e - 1 : StartsBehind(bytes, b, e)
  BY StartExists
<1>3. b + 1 \in Int /\ e - 1 \in Int /\ \A i \in b + 1..e - 1 : i \in 1..Len(bytes)
  BY <1>1
<1>4. SubSeq(bytes, b + 1, e - 1) \in Seq(Data)
  BY <1>1, <1>3, SubSeqProperties
<1>5. QED
  BY <1>2, <1>4, LineIs

LEMMA LineAt ==
  ASSUME NEW bytes \in Seq(Data), NEW e \in Ends(bytes)
  PROVE  /\ Rank(Ends(bytes), e) \in 1..Cardinality(Ends(bytes))
         /\ LinesIn(bytes)[Rank(Ends(bytes), e)] = LineTo(bytes, e)
<1> DEFINE S == Ends(bytes)
           k == Rank(S, e)
           d == CHOOSE d \in S : Rank(S, d) = k
<1>1. IsFiniteSet(S) /\ S \subseteq Nat /\ Cardinality(S) \in Nat
  BY EndsFinite
<1> HIDE DEF S
<1>2. e \in S
  BY DEF S
<1>3. k \in 1..Cardinality(S)
  BY <1>1, <1>2, RankType
<1>4. d \in S /\ Rank(S, d) = k
  BY <1>2
<1>5. d = e
  <2>1. d \in Nat /\ e \in Nat
    BY <1>1, <1>2, <1>4
  <2>2. d < e => Rank(S, d) < k
    BY <1>1, <1>2, <1>4, RankGrows
  <2>3. e < d => k < Rank(S, d)
    BY <1>1, <1>2, <1>4, RankGrows
  <2>4. k \in Nat
    BY <1>1, <1>3
  <2>5. QED
    BY <1>4, <2>1, <2>2, <2>3, <2>4
<1>6. LinesIn(bytes)[k] = LineTo(bytes, d)
  BY <1>3 DEF LinesIn, S
<1>7. QED
  BY <1>3, <1>5, <1>6 DEF S

LEMMA LinesTyped ==
  ASSUME NEW bytes \in Seq(Data)
  PROVE  /\ LinesIn(bytes) \in Seq(Seq(Data))
         /\ Len(LinesIn(bytes)) = Cardinality(Ends(bytes))
<1> DEFINE S == Ends(bytes)
           n == Cardinality(S)
<1>1. IsFiniteSet(S) /\ S \subseteq Nat /\ n \in Nat /\ S \subseteq 2..Len(bytes)
  BY EndsFinite
<1>2. Len(bytes) \in Nat
  BY LenProperties
<1>3. ASSUME NEW k \in 1..n PROVE LinesIn(bytes)[k] \in Seq(Data)
  <2>1. PICK e \in S : Rank(S, e) = k
    BY <1>1, RankReached
  <2>2. e \in 1..Len(bytes) + 1
    BY <1>1, <1>2
  <2>3. QED
    BY <2>1, <2>2, LineAt, LineTyped
<1>4. LinesIn(bytes) = [k \in 1..n |-> LinesIn(bytes)[k]]
  BY DEF LinesIn
<1>5. LinesIn(bytes) \in [1..n -> Seq(Data)]
  BY <1>3, <1>4
<1>6. QED
  BY <1>1, <1>5

(* Two sequences of bytes with the same lines at the same places.          *)
LEMMA LinesSame ==
  ASSUME NEW x \in Seq(Data), NEW y \in Seq(Data), Ends(x) = Ends(y),
         \A e \in Ends(x) : LineTo(x, e) = LineTo(y, e)
  PROVE  LinesIn(x) = LinesIn(y)
<1>1. IsFiniteSet(Ends(x)) /\ Ends(x) \subseteq Nat
  BY EndsFinite
<1>2. ASSUME NEW k \in 1..Len(LinesIn(x)) PROVE LinesIn(x)[k] = LinesIn(y)[k]
  <2>1. k \in 1..Cardinality(Ends(x))
    BY LinesTyped
  <2>2. PICK e \in Ends(x) : Rank(Ends(x), e) = k
    BY <1>1, <2>1, RankReached
  <2>3. LinesIn(x)[k] = LineTo(x, e) /\ LinesIn(y)[k] = LineTo(y, e)
    BY <2>2, LineAt
  <2>4. QED
    BY <2>3
<1>3. LinesIn(x) \in Seq(Seq(Data)) /\ LinesIn(y) \in Seq(Seq(Data)) /\ Len(LinesIn(x)) = Len(LinesIn(y))
  BY LinesTyped
<1>4. QED
  BY <1>2, <1>3, SeqEqual

(* Bytes without a newline complete no line.                               *)
LEMMA NoNewline ==
  ASSUME NEW x \in Seq(Data), NEW c \in Seq(Data), \A i \in 1..Len(c) : c[i] # NL
  PROVE  LinesIn(x \o c) = LinesIn(x)
<1>1. /\ Len(x) \in Nat /\ Len(c) \in Nat
      /\ x \o c \in Seq(Data) /\ Len(x \o c) = Len(x) + Len(c)
      /\ \A i \in 1..Len(x) + Len(c) :
           (x \o c)[i] = IF i <= Len(x) THEN x[i] ELSE c[i - Len(x)]
  BY LenProperties, ConcatProperties
<1>2. ASSUME NEW i \in 2..Len(x) + Len(c)
      PROVE  i \in Ends(x \o c) <=> i \in Ends(x)
  <2>1. CASE i <= Len(x)
    <3>1. i \in 2..Len(x) /\ i \in 1..Len(x) + Len(c) /\ i - 1 \in 1..Len(x) + Len(c) /\ i - 1 <= Len(x)
      BY <1>1, <2>1
    <3>2. (x \o c)[i] = x[i] /\ (x \o c)[i - 1] = x[i - 1]
      BY <1>1, <2>1, <3>1
    <3>3. QED
      BY <1>1, <3>1, <3>2 DEF Ends
  <2>2. CASE ~(i <= Len(x))
    <3>1. i \in 1..Len(x) + Len(c) /\ i - Len(x) \in 1..Len(c) /\ i \notin 2..Len(x)
      BY <1>1, <2>2
    <3>2. (x \o c)[i] # NL
      BY <1>1, <2>2, <3>1
    <3>3. QED
      BY <3>1, <3>2 DEF Ends
  <2>3. QED
    BY <2>1, <2>2
<1>3. \A i \in 2..Len(x) : i \in 2..Len(x) + Len(c)
  BY <1>1
<1>4. Ends(x) = Ends(x \o c)
  <2>1. Ends(x) \subseteq 2..Len(x) + Len(c) /\ Ends(x \o c) \subseteq 2..Len(x) + Len(c)
    BY <1>1, <1>3 DEF Ends
  <2>2. QED
    BY <1>2, <2>1
<1>5. ASSUME NEW e \in Ends(x) PROVE LineTo(x, e) = LineTo(x \o c, e)
  <2>1. e \in 1..Len(x) + 1
    BY <1>1 DEF Ends
  <2>2. QED
    BY <2>1, LineToPrefix
<1>6. QED
  BY <1>1, <1>4, <1>5, LinesSame

(* Bytes up to a newline complete the line that was begun, if any.         *)
LEMMA LineCompleted ==
  ASSUME NEW x \in Seq(Data), NEW c \in Seq(Data), c # << >>, c[Len(c)] = NL,
         \A i \in 1..Len(c) - 1 : c[i] # NL,
         NEW b \in 0..Len(x), StartsBehind(x, b, Len(x) + 1)
  PROVE  LET line == SubSeq(x \o c, b + 1, Len(x \o c) - 1)
         IN  LinesIn(x \o c) = IF NotBlank(line) THEN Append(LinesIn(x), line) ELSE LinesIn(x)
<1> DEFINE y == x \o c
           m == Len(y)
           n == Cardinality(Ends(x))
           line == SubSeq(y, b + 1, m - 1)
<1>1. /\ Len(x) \in Nat /\ Len(c) \in Nat /\ Len(c) >= 1
      /\ y \in Seq(Data) /\ m = Len(x) + Len(c)
      /\ \A i \in 1..Len(x) + Len(c) : y[i] = IF i <= Len(x) THEN x[i] ELSE c[i - Len(x)]
  BY LenProperties, ConcatProperties, EmptySeq
<1>2. ASSUME NEW e \in 1..Len(x) + 1 PROVE LineTo(y, e) = LineTo(x, e)
  BY LineToPrefix
<1> HIDE DEF y, m
<1>3. m \in Nat /\ m > Len(x) /\ b \in 0..m - 1 /\ m \in 1..Len(y) + 1
  BY <1>1 DEF m
<1>4. \A j \in b + 1..m - 1 : y[j] # NL
  <2>1. SUFFICES ASSUME NEW j \in b + 1..m - 1 PROVE y[j] # NL
    OBVIOUS
  <2>2. j \in 1..Len(x) + Len(c)
    BY <1>1, <1>3
  <2>3. CASE j <= Len(x)
    <3>1. j \in b + 1..Len(x) + 1 - 1
      BY <1>1, <2>3
    <3>2. QED
      BY <1>1, <2>2, <2>3, <3>1 DEF StartsBehind
  <2>4. CASE ~(j <= Len(x))
    <3>1. j - Len(x) \in 1..Len(c) - 1
      BY <1>1, <1>3, <2>4
    <3>2. QED
      BY <1>1, <2>2, <2>4, <3>1
  <2>5. QED
    BY <2>3, <2>4
<1>5. b = 0 \/ y[b] = NL
  <2>1. CASE b # 0
    <3>1. b \in 1..Len(x) + Len(c) /\ b <= Len(x)
      BY <1>1, <2>1
    <3>2. QED
      BY <1>1, <2>1, <3>1 DEF StartsBehind
  <2>2. QED
    BY <2>1
<1>6. StartsBehind(y, b, m)
  BY <1>4, <1>5 DEF StartsBehind
<1>7. LineTo(y, m) = line
  BY <1>1, <1>3, <1>6, LineIs
<1>8. y[m] = NL
  <2>1. m \in 1..Len(x) + Len(c) /\ ~(m <= Len(x)) /\ m - Len(x) = Len(c)
    BY <1>1, <1>3
  <2>2. QED
    BY <1>1, <2>1
<1>9. ASSUME NEW i \in 2..m, i # m PROVE i \in Ends(y) <=> i \in Ends(x)
  <2>1. CASE i <= Len(x)
    <3>1. i \in 2..Len(x) /\ i \in 1..Len(x) + Len(c) /\ i - 1 \in 1..Len(x) + Len(c) /\ i - 1 <= Len(x)
      BY <1>1, <2>1
    <3>2. y[i] = x[i] /\ y[i - 1] = x[i - 1]
      BY <1>1, <2>1, <3>1
    <3>3. QED
      BY <1>1, <1>9, <3>1, <3>2 DEF Ends, m
  <2>2. CASE ~(i <= Len(x))
    <3>1. i \in b + 1..m - 1 /\ i \notin 2..Len(x)
      BY <1>1, <1>3, <1>9, <2>2
    <3>2. QED
      BY <1>4, <3>1 DEF Ends
  <2>3. QED
    BY <2>1, <2>2
<1>10. m \notin Ends(x) /\ Ends(x) \subseteq 2..m /\ Ends(y) \subseteq 2..m
  <2>1. m \notin 2..Len(x) /\ (\A i \in 2..Len(x) : i \in 2..m)
    BY <1>1, <1>3
  <2>2. QED
    BY <2>1 DEF Ends, m
<1>11. NotBlank(line) <=> b < m - 1
  <2>1. \A i \in b + 1..m - 1 : y[i] \in Data
    <3>1. \A i \in b + 1..m - 1 : i \in 1..Len(y)
      BY <1>1, <1>3 DEF m
    <3>2. QED
      BY <1>1, <3>1, LenProperties
  <2>2. b + 1 \in Int /\ m - 1 \in Int
    BY <1>1, <1>3
  <2>3. line \in Seq(Data) /\ Len(line) = IF b + 1 <= m - 1 THEN m - 1 - (b + 1) + 1 ELSE 0
    BY <2>1, <2>2, SubSeqProperties
  <2>4. NotBlank(line) <=> Len(line) # 0
    BY <2>3, EmptySeq DEF NotBlank
  <2>5. b + 1 <= m - 1 <=> m - 1 - (b + 1) + 1 # 0 /\ b + 1 <= m - 1
    BY <1>3
  <2>6. QED
    BY <1>3, <2>3, <2>4, <2>5
<1>12. CASE b < m - 1
  <2>1. m \in Ends(y)
    <3>1. m - 1 \in b + 1..m - 1 /\ m \in 2..Len(y)
      BY <1>1, <1>3, <1>12 DEF m
    <3>2. y[m - 1] # NL
      BY <1>4, <3>1
    <3>3. QED
      BY <1>8, <3>1, <3>2 DEF Ends
  <2>2. Ends(y) = Ends(x) \cup {m}
    BY <1>9, <1>10, <2>1
  <2>3. IsFiniteSet(Ends(x)) /\ Ends(x) \subseteq Nat /\ n \in Nat
    BY EndsFinite
  <2>4. Cardinality(Ends(y)) = n + 1
    BY <1>10, <2>2, <2>3, FS_AddElement
  <2>5. ASSUME NEW e \in Ends(x) PROVE Rank(Ends(y), e) = Rank(Ends(x), e)
    <3>1. e \in 2..Len(x)
      BY DEF Ends
    <3>2. ~(m <= e)
      BY <1>1, <1>3, <3>1
    <3>3. \A i : i \in Ends(y) /\ i <= e <=> i \in Ends(x) /\ i <= e
      BY <2>2, <3>2
    <3>4. {i \in Ends(y) : i <= e} = {i \in Ends(x) : i <= e}
      BY <3>3
    <3>5. QED
      BY <3>4 DEF Rank
  <2>6. Rank(Ends(y), m) = n + 1
    <3>1. \A i \in Ends(y) : i <= m
      BY <1>10
    <3>2. {i \in Ends(y) : i <= m} = Ends(y)
      BY <3>1
    <3>3. QED
      BY <2>4, <3>2 DEF Rank
  <2>7. LinesIn(y)[n + 1] = line
    BY <1>1, <1>7, <2>1, <2>6, LineAt
  <2>8. ASSUME NEW k \in 1..n PROVE LinesIn(y)[k] = LinesIn(x)[k]
    <3>1. PICK e \in Ends(x) : Rank(Ends(x), e) = k
      BY <2>3, RankReached
    <3>2. e \in 1..Len(x) + 1
      BY <1>1 DEF Ends
    <3>3. e \in Ends(y)
      BY <2>2
    <3>4. LinesIn(y)[k] = LineTo(y, e) /\ LinesIn(x)[k] = LineTo(x, e)
      BY <1>1, <2>5, <3>1, <3>3, LineAt
    <3>5. QED
      BY <1>2, <3>2, <3>4
  <2>9. /\ LinesIn(x) \in Seq(Seq(Data)) /\ Len(LinesIn(x)) = n
        /\ LinesIn(y) \in Seq(Seq(Data)) /\ Len(LinesIn(y)) = n + 1
    BY <1>1, <2>4, LinesTyped
  <2>10. line \in Seq(Data)
    BY <1>1, <1>3, <1>7, LineTyped
  <2>11. LinesIn(y) = Append(LinesIn(x), line)
    <3> HIDE DEF line, n
    <3>1. /\ Append(LinesIn(x), line) \in Seq(Seq(Data))
          /\ Len(Append(LinesIn(x), line)) = n + 1
          /\ \A i \in 1..n : Append(LinesIn(x), line)[i] = LinesIn(x)[i]
          /\ Append(LinesIn(x), line)[n + 1] = line
      BY <2>9, <2>10, AppendProperties
    <3>2. \A i \in 1..n + 1 : i \in 1..n \/ i = n + 1
      BY <2>3
    <3>3. \A i \in 1..Len(LinesIn(y)) : LinesIn(y)[i] = Append(LinesIn(x), line)[i]
      BY <2>7, <2>8, <2>9, <3>1, <3>2
    <3>4. QED
      BY <2>9, <3>1, <3>3, SeqEqual
  <2>12. LinesIn(y) = IF NotBlank(line) THEN Append(LinesIn(x), line) ELSE LinesIn(x)
    BY <1>11, <1>12, <2>11
  <2>13. QED
    BY <2>12 DEF y, m
<1>13. CASE ~(b < m - 1)
  <2>1. b = m - 1
    BY <1>3, <1>13
  <2>2. m \notin Ends(y)
    <3>1. CASE b = 0
      BY <1>3, <2>1, <3>1 DEF Ends
    <3>2. CASE b # 0
      BY <1>5, <2>1, <3>2 DEF Ends
    <3>3. QED
      BY <3>1, <3>2
  <2>3. Ends(x) = Ends(y)
    <3>1. \A i : i \in Ends(x) <=> i \in Ends(y)
      BY <1>9, <1>10, <2>2
    <3>2. QED
      BY <3>1
  <2>4. ASSUME NEW e \in Ends(x) PROVE LineTo(x, e) = LineTo(y, e)
    <3>1. e \in 1..Len(x) + 1
      BY <1>1 DEF Ends
    <3>2. QED
      BY <1>2, <3>1
  <2>5. LinesIn(x) = LinesIn(y)
    BY <1>1, <2>3, <2>4, LinesSame
  <2>6. LinesIn(y) = IF NotBlank(line) THEN Append(LinesIn(x), line) ELSE LinesIn(x)
    BY <1>11, <1>13, <2>5
  <2>7. QED
    BY <2>6 DEF y, m
<1>14. QED
  BY <1>12, <1>13

(* The bytes behind position n.                                            *)
LEMMA Dropped ==
  ASSUME NEW x \in Seq(Data), NEW n \in 1..Len(x)
  PROVE  /\ SubSeq(x, n + 1, Len(x)) \in Seq(Data)
         /\ Len(SubSeq(x, n + 1, Len(x))) = Len(x) - n
         /\ \A i \in 1..Len(x) - n : SubSeq(x, n + 1, Len(x))[i] = x[i + n]
<1> DEFINE y == SubSeq(x, n + 1, Len(x))
<1>1. Len(x) \in Nat /\ n \in Nat /\ \A i \in 1..Len(x) : x[i] \in Data
  BY LenProperties
<1>2. n + 1 \in Int /\ Len(x) \in Int /\ \A i \in n + 1..Len(x) : i \in 1..Len(x)
  BY <1>1
<1>3. /\ y \in Seq(Data)
      /\ Len(y) = IF n + 1 <= Len(x) THEN Len(x) - (n + 1) + 1 ELSE 0
      /\ \A i \in 1..Len(x) - (n + 1) + 1 : y[i] = x[n + 1 + i - 1]
  BY <1>1, <1>2, SubSeqProperties
<1>4. Len(x) - (n + 1) + 1 = Len(x) - n /\ (~(n + 1 <= Len(x)) => Len(x) - n = 0)
  BY <1>1
<1>5. \A i \in 1..Len(x) - n : n + 1 + i - 1 = i + n
  BY <1>1
<1>6. QED
  BY <1>3, <1>4, <1>5

LEMMA DroppedPart ==
  ASSUME NEW x \in Seq(Data), NEW n \in 1..Len(x),
         NEW p \in Nat \ {0}, NEW q \in 0..Len(x) - n
  PROVE  SubSeq(x, p + n, q + n) = SubSeq(SubSeq(x, n + 1, Len(x)), p, q)
<1> DEFINE y == SubSeq(x, n + 1, Len(x))
           u == SubSeq(x, p + n, q + n)
           v == SubSeq(y, p, q)
<1>1. /\ Len(x) \in Nat /\ n \in Nat /\ q \in Nat
      /\ \A i \in 1..Len(x) : x[i] \in Data
  BY LenProperties
<1>2. y \in Seq(Data) /\ Len(y) = Len(x) - n /\ \A i \in 1..Len(x) - n : y[i] = x[i + n]
  BY Dropped
<1> HIDE DEF y
<1>3. /\ \A i \in p + n..q + n : i \in 1..Len(x)
      /\ \A i \in p..q : i \in 1..Len(y)
      /\ p + n \in Int /\ q + n \in Int /\ p \in Int /\ q \in Int
  BY <1>1, <1>2
<1>4. \A i \in p..q : y[i] \in Data
  <2>1. \A i \in 1..Len(y) : y[i] \in Data
    BY <1>2, LenProperties
  <2>2. QED
    BY <1>3, <2>1
<1>5. /\ u \in Seq(Data)
      /\ Len(u) = IF p + n <= q + n THEN q + n - (p + n) + 1 ELSE 0
      /\ \A i \in 1..q + n - (p + n) + 1 : u[i] = x[p + n + i - 1]
  BY <1>1, <1>3, SubSeqProperties
<1>6. /\ v \in Seq(Data)
      /\ Len(v) = IF p <= q THEN q - p + 1 ELSE 0
      /\ \A i \in 1..q - p + 1 : v[i] = y[p + i - 1]
  <2>1. p \in Int /\ q \in Int
    BY <1>3
  <2>2. QED
    BY <1>4, <2>1, SubSeqProperties
<1> HIDE DEF u, v
<1>7. q + n - (p + n) + 1 = q - p + 1 /\ (p + n <= q + n <=> p <= q)
  BY <1>1
<1>8. Len(u) = Len(v)
  BY <1>5, <1>6, <1>7
<1>9. ASSUME NEW i \in 1..Len(u) PROVE u[i] = v[i]
  <2>1. i \in 1..q - p + 1
    BY <1>1, <1>6, <1>8
  <2>2. p + i - 1 \in 1..Len(x) - n /\ p + i - 1 + n = p + n + i - 1
    BY <1>1, <2>1
  <2>3. QED
    BY <1>2, <1>5, <1>6, <1>7, <2>1, <2>2
<1>10. u = v
  BY <1>5, <1>6, <1>8, <1>9, SeqEqual
<1>11. QED
  BY <1>10 DEF u, v, y

(* A line behind the first newline is the same without what is before it.  *)
LEMMA LineShifted ==
  ASSUME NEW x \in Seq(Data), NEW n \in 1..Len(x), x[n] = NL,
         NEW e \in 1..Len(x) - n
  PROVE  LineTo(x, e + n) = LineTo(SubSeq(x, n + 1, Len(x)), e)
<1> DEFINE y == SubSeq(x, n + 1, Len(x))
<1>1. /\ Len(x) \in Nat /\ n \in Nat /\ e \in Nat
      /\ \A i \in 1..Len(x) : x[i] \in Data
  BY LenProperties
<1>2. y \in Seq(Data) /\ Len(y) = Len(x) - n /\ \A i \in 1..Len(x) - n : y[i] = x[i + n]
  BY Dropped
<1> HIDE DEF y
<1>3. e \in 1..Len(y) + 1 /\ e + n \in 1..Len(x) + 1
  BY <1>1, <1>2
<1>4. PICK b \in 0..e - 1 : StartsBehind(y, b, e)
  BY <1>2, <1>3, StartExists
<1>5. b + n \in 0..e + n - 1
  BY <1>1
<1>6. StartsBehind(x, b + n, e + n)
  <2>1. x[b + n] = NL
    <3>1. CASE b = 0
      BY <1>1, <3>1
    <3>2. CASE b # 0
      <4>1. b \in 1..Len(x) - n
        BY <1>1, <3>2
      <4>2. QED
        BY <1>2, <1>4, <3>2, <4>1 DEF StartsBehind
    <3>3. QED
      BY <3>1, <3>2
  <2>2. ASSUME NEW i \in b + n + 1..e + n - 1 PROVE x[i] # NL
    <3>1. i - n \in b + 1..e - 1 /\ i - n \in 1..Len(x) - n /\ i - n + n = i
      BY <1>1
    <3>2. QED
      BY <1>2, <1>4, <3>1 DEF StartsBehind
  <2>3. QED
    BY <2>1, <2>2 DEF StartsBehind
<1>7. LineTo(x, e + n) = SubSeq(x, b + n + 1, e + n - 1)
  BY <1>3, <1>5, <1>6, LineIs
<1>8. LineTo(y, e) = SubSeq(y, b + 1, e - 1)
  BY <1>2, <1>3, <1>4, LineIs
<1>9. SubSeq(x, b + n + 1, e + n - 1) = SubSeq(y, b + 1, e - 1)
  <2>1. b + 1 \in Nat \ {0} /\ e - 1 \in 0..Len(x) - n /\ b + 1 + n = b + n + 1 /\ e - 1 + n = e + n - 1
    BY <1>1
  <2>2. SubSeq(x, b + 1 + n, e - 1 + n) = SubSeq(y, b + 1, e - 1)
    BY <2>1, DroppedPart DEF y
  <2>3. QED
    BY <2>1, <2>2
<1>10. QED
  BY <1>7, <1>8, <1>9 DEF y

(* Taking the first line away from the bytes takes it away from the lines. *)
LEMMA FirstLine ==
  ASSUME NEW x \in Seq(Data), NEW n \in 1..Len(x), x[n] = NL,
         \A i \in 1..n - 1 : x[i] # NL
  PROVE  LET line == SubSeq(x, 1, n - 1)
             rest == LinesIn(SubSeq(x, n + 1, Len(x)))
         IN  IF NotBlank(line)
             THEN LinesIn(x) # << >> /\ Head(LinesIn(x)) = line /\ Tail(LinesIn(x)) = rest
             ELSE LinesIn(x) = rest
<1> DEFINE y == SubSeq(x, n + 1, Len(x))
           line == SubSeq(x, 1, n - 1)
           S == Ends(y)
           shifted == {i + n : i \in S}
           size == Cardinality(S)
<1>1. /\ Len(x) \in Nat /\ n \in Nat /\ n >= 1 /\ n <= Len(x)
      /\ \A i \in 1..Len(x) : x[i] \in Data
  BY LenProperties
<1>2. y \in Seq(Data) /\ Len(y) = Len(x) - n /\ \A i \in 1..Len(x) - n : y[i] = x[i + n]
  BY Dropped
<1>3. ASSUME NEW e \in 1..Len(x) - n PROVE LineTo(x, e + n) = LineTo(y, e)
  BY LineShifted
<1>4. NotBlank(line) <=> n # 1
  <2>1. \A i \in 1..n - 1 : i \in 1..Len(x)
    BY <1>1
  <2>2. line \in Seq(Data) /\ Len(line) = IF 1 <= n - 1 THEN n - 1 - 1 + 1 ELSE 0
    BY <1>1, <2>1, SubSeqProperties
  <2>3. NotBlank(line) <=> Len(line) # 0
    BY <2>2, EmptySeq DEF NotBlank
  <2>4. QED
    BY <1>1, <2>2, <2>3
<1>5. LineTo(x, n) = line
  <2>1. StartsBehind(x, 0, n)
    BY <1>1 DEF StartsBehind
  <2>2. n \in 1..Len(x) + 1 /\ 0 \in 0..n - 1 /\ 0 + 1 = 1
    BY <1>1
  <2>3. QED
    BY <2>1, <2>2, LineIs
<1> HIDE DEF y, line
<1>6. /\ IsFiniteSet(S) /\ S \subseteq Nat /\ size \in Nat /\ S \subseteq 2..Len(y)
      /\ IsFiniteSet(Ends(x)) /\ Ends(x) \subseteq 2..Len(x)
  BY <1>2, EndsFinite
<1>7. ASSUME NEW i \in 1..Len(x) - n PROVE i \in S <=> i + n \in Ends(x)
  <2>1. i + n \in 2..Len(x) /\ i + n - 1 = i - 1 + n
    BY <1>1
  <2>2. y[i] = x[i + n]
    BY <1>2
  <2>3. CASE i = 1
    <3>1. i + n - 1 = n
      BY <1>1, <2>3
    <3>2. i + n \notin Ends(x) /\ i \notin S
      BY <1>1, <2>3, <3>1 DEF Ends
    <3>3. QED
      BY <3>2
  <2>4. CASE i # 1
    <3>1. i - 1 \in 1..Len(x) - n /\ i \in 2..Len(y)
      BY <1>1, <1>2, <2>4
    <3>2. y[i - 1] = x[i + n - 1]
      BY <1>2, <2>1, <3>1
    <3>3. QED
      BY <2>1, <2>2, <3>1, <3>2 DEF Ends
  <2>5. QED
    BY <2>3, <2>4
<1>8. ASSUME NEW i \in Ends(x) PROVE (i = n /\ n # 1) \/ i \in shifted
  <2>1. i \in 2..Len(x) /\ x[i] = NL
    BY DEF Ends
  <2>2. ~(i \in 1..n - 1)
    BY <2>1
  <2>3. i = n \/ i - n \in 1..Len(x) - n
    BY <1>1, <2>1, <2>2
  <2>4. CASE i = n
    BY <1>1, <2>1, <2>4
  <2>5. CASE i - n \in 1..Len(x) - n
    <3>1. i - n + n = i
      BY <1>1, <2>1
    <3>2. i - n \in S
      BY <1>7, <2>5, <3>1
    <3>3. QED
      BY <3>1, <3>2
  <2>6. QED
    BY <2>3, <2>4, <2>5
<1>9. shifted \subseteq Ends(x) /\ (\A i \in shifted : i > n)
  <2>1. \A i \in S : i \in 1..Len(x) - n /\ i + n > n
    BY <1>1, <1>2, <1>6
  <2>2. QED
    BY <1>7, <2>1
<1>10. IsFiniteSet(shifted) /\ Cardinality(shifted) = size /\ shifted \subseteq Nat
  <2>1. \A i \in 2..Len(x) : i \in Nat
    BY <1>1
  <2>2. QED
    BY <1>1, <1>6, <1>9, <2>1, ShiftedSet
<1>11. ASSUME NEW i \in S
       PROVE  i + n \in Ends(x) /\ LineTo(x, i + n) = LineTo(y, i) /\ Rank(shifted, i + n) = Rank(S, i)
  <2>1. i \in 1..Len(x) - n
    BY <1>1, <1>2, <1>6
  <2>2. QED
    BY <1>1, <1>3, <1>6, <1>9, <2>1, ShiftedRank
<1>12. /\ LinesIn(x) \in Seq(Seq(Data)) /\ Len(LinesIn(x)) = Cardinality(Ends(x))
       /\ LinesIn(y) \in Seq(Seq(Data)) /\ Len(LinesIn(y)) = size
  BY <1>2, LinesTyped
<1> HIDE DEF S, size, shifted
<1>13. CASE n = 1
  <2>1. \A i : i \in Ends(x) <=> i \in shifted
    BY <1>8, <1>9, <1>13
  <2>2. Ends(x) = shifted
    BY <2>1
  <2>3. ASSUME NEW k \in 1..size PROVE LinesIn(x)[k] = LinesIn(y)[k]
    <3>1. PICK i \in S : Rank(S, i) = k
      BY <1>6, RankReached DEF size
    <3>2. LinesIn(y)[k] = LineTo(y, i)
      BY <1>2, <3>1, LineAt DEF S
    <3>3. LinesIn(x)[k] = LineTo(x, i + n)
      BY <1>11, <2>2, <3>1, LineAt
    <3>4. QED
      BY <1>11, <3>2, <3>3
  <2>4. LinesIn(x) = LinesIn(y)
    BY <1>10, <1>12, <2>2, <2>3, SeqEqual
  <2>5. QED
    BY <1>4, <1>13, <2>4 DEF y, line
<1>14. CASE n # 1
  <2>1. n \in Ends(x)
    <3>1. n \in 2..Len(x) /\ n - 1 \in 1..n - 1
      BY <1>1, <1>14
    <3>2. QED
      BY <3>1 DEF Ends
  <2>2. n \notin shifted
    BY <1>1, <1>9
  <2>3. \A i : i \in Ends(x) <=> i \in shifted \cup {n}
    BY <1>8, <1>9, <2>1
  <2>4. Ends(x) = shifted \cup {n}
    BY <2>3
  <2>5. Cardinality(Ends(x)) = size + 1
    BY <1>10, <2>2, <2>4, FS_AddElement
  <2>6. Rank(Ends(x), n) = 1 /\ \A e \in shifted : Rank(Ends(x), e) = Rank(shifted, e) + 1
    <3>1. n \in Nat /\ \A i \in shifted : i > n
      BY <1>1, <1>9
    <3>2. /\ Rank(shifted \cup {n}, n) = 1
          /\ \A e \in shifted : Rank(shifted \cup {n}, e) = Rank(shifted, e) + 1
      BY <1>10, <3>1, RankBehind
    <3>3. QED
      BY <2>4, <3>2
  <2>7. LinesIn(x)[1] = line
    BY <1>5, <2>1, <2>6, LineAt
  <2>8. ASSUME NEW k \in 1..size PROVE LinesIn(x)[k + 1] = LinesIn(y)[k]
    <3>1. PICK i \in S : Rank(S, i) = k
      BY <1>6, RankReached DEF size
    <3>2. LinesIn(y)[k] = LineTo(y, i)
      BY <1>2, <3>1, LineAt DEF S
    <3>3. Rank(Ends(x), i + n) = k + 1
      BY <1>11, <2>6, <3>1 DEF shifted
    <3>4. LinesIn(x)[k + 1] = LineTo(x, i + n)
      BY <1>11, <3>3, LineAt
    <3>5. QED
      BY <1>11, <3>2, <3>4
  <2>9. LinesIn(x) # << >>
    BY <1>6, <1>12, <2>5, EmptySeq
  <2>10. Head(LinesIn(x)) = line
    BY <1>12, <2>7, <2>9
  <2>11. Tail(LinesIn(x)) = LinesIn(y)
    <3>1. /\ Tail(LinesIn(x)) \in Seq(Seq(Data)) /\ Len(Tail(LinesIn(x))) = size + 1 - 1
          /\ \A i \in 1..Len(Tail(LinesIn(x))) : Tail(LinesIn(x))[i] = LinesIn(x)[i + 1]
      BY <1>12, <2>5, <2>9, HeadTailProperties
    <3>2. size + 1 - 1 = size
      BY <1>6
    <3>3. Len(Tail(LinesIn(x))) = Len(LinesIn(y))
      BY <1>12, <3>1, <3>2
    <3>4. \A i \in 1..Len(Tail(LinesIn(x))) : Tail(LinesIn(x))[i] = LinesIn(y)[i]
      BY <1>12, <2>8, <3>1, <3>3
    <3>5. QED
      BY <1>12, <3>1, <3>3, <3>4, SeqEqual
  <2>12. QED
    BY <1>4, <1>14, <2>9, <2>10, <2>11 DEF y, line
<1>15. QED
  BY <1>13, <1>14

-----------------------------------------------------------------------------
(* The bytes at the reader and in the network end with a newline, or with  *)
(* the part of a line whose rest is still to be written.                   *)
Framed(bytes, out) ==
  \E b \in 0..Len(bytes) :
    /\ StartsBehind(bytes, b, Len(bytes) + 1)
    /\ IF out = << >>
       THEN b = Len(bytes)
       ELSE \E line \in Payload : SubSeq(bytes, b + 1, Len(bytes)) \o out = Append(line, NL)

BytesTyped ==
  /\ outgoing \in Seq(Data) /\ stream \in Seq(Data) /\ buffer \in Seq(Data)
  /\ pc \in {"recv", "split", "failed"}

FramingInv == BytesTyped /\ (pc # "failed" => Framed(buffer \o stream, outgoing))

LEMMA PayloadTyped ==
  ASSUME NEW line \in Payload
  PROVE  /\ line \in Seq(Data) /\ Append(line, NL) \in Seq(Data) /\ Append(line, NL) # << >>
         /\ Len(line) \in Nat /\ Len(Append(line, NL)) = Len(line) + 1
         /\ \A i \in 1..Len(line) : Append(line, NL)[i] = line[i] /\ line[i] # NL
         /\ Append(line, NL)[Len(line) + 1] = NL
<1>1. line \in Seq(Byte)
  BY FramingAssumption
<1>2. Byte \subseteq Data /\ NL \in Data /\ NL \notin Byte
  BY DEF Data, Byte, NL
<1>3. line \in Seq(Data)
  BY <1>1, <1>2, SeqMonotonic
<1>4. \A i \in 1..Len(line) : line[i] \in Byte
  BY <1>1, LenProperties
<1>5. QED
  BY <1>2, <1>3, <1>4, AppendProperties, LenProperties

LEMMA LineBegun ==
  ASSUME NEW x \in Seq(Data), Framed(x, << >>), NEW line \in Payload
  PROVE  Framed(x, Append(line, NL))
<1>1. Len(x) \in Nat
  BY LenProperties
<1>2. StartsBehind(x, Len(x), Len(x) + 1)
  BY DEF Framed
<1>3. SubSeq(x, Len(x) + 1, Len(x)) = << >>
  BY <1>1, SubSeqEmpty
<1>4. << >> \o Append(line, NL) = Append(line, NL) /\ Append(line, NL) # << >>
  BY PayloadTyped, ConcatEmptySeq
<1>5. Len(x) \in 0..Len(x)
  BY <1>1
<1>6. QED
  BY <1>2, <1>3, <1>4, <1>5 DEF Framed

(* The end of a sequence of bytes and what is added to it.                 *)
LEMMA EndAdded ==
  ASSUME NEW x \in Seq(Data), NEW c \in Seq(Data), NEW b \in 0..Len(x)
  PROVE  /\ SubSeq(x, b + 1, Len(x)) \in Seq(Data)
         /\ Len(SubSeq(x, b + 1, Len(x))) = Len(x) - b
         /\ SubSeq(x \o c, b + 1, Len(x \o c)) = SubSeq(x, b + 1, Len(x)) \o c
<1> DEFINE y == x \o c
           t == SubSeq(x, b + 1, Len(x))
           z == SubSeq(y, b + 1, Len(y))
<1>1. /\ Len(x) \in Nat /\ Len(c) \in Nat
      /\ y \in Seq(Data) /\ Len(y) = Len(x) + Len(c)
      /\ \A i \in 1..Len(x) + Len(c) : y[i] = IF i <= Len(x) THEN x[i] ELSE c[i - Len(x)]
      /\ \A i \in 1..Len(x) : x[i] \in Data
  BY LenProperties, ConcatProperties
<1> HIDE DEF y
<1>2. b + 1 \in Int /\ Len(x) \in Int /\ Len(y) \in Int
  BY <1>1
<1>3. \A i \in b + 1..Len(x) : x[i] \in Data
  <2>1. \A i \in b + 1..Len(x) : i \in 1..Len(x)
    BY <1>1
  <2>2. QED
    BY <1>1, <2>1
<1>4. \A i \in b + 1..Len(y) : y[i] \in Data
  <2>1. \A i \in b + 1..Len(y) : i \in 1..Len(y)
    BY <1>1
  <2>2. \A i \in 1..Len(y) : y[i] \in Data
    BY <1>1, LenProperties
  <2>3. QED
    BY <2>1, <2>2
<1>5. /\ t \in Seq(Data)
      /\ Len(t) = IF b + 1 <= Len(x) THEN Len(x) - (b + 1) + 1 ELSE 0
      /\ \A i \in 1..Len(x) - (b + 1) + 1 : t[i] = x[b + 1 + i - 1]
  BY <1>2, <1>3, SubSeqProperties
<1>6. /\ z \in Seq(Data)
      /\ Len(z) = IF b + 1 <= Len(y) THEN Len(y) - (b + 1) + 1 ELSE 0
      /\ \A i \in 1..Len(y) - (b + 1) + 1 : z[i] = y[b + 1 + i - 1]
  BY <1>2, <1>4, SubSeqProperties
<1> HIDE DEF t, z
<1>7. Len(t) = Len(x) - b /\ Len(z) = Len(y) - b
  BY <1>1, <1>5, <1>6
<1>8. /\ t \o c \in Seq(Data) /\ Len(t \o c) = Len(t) + Len(c)
      /\ \A i \in 1..Len(t) + Len(c) : (t \o c)[i] = IF i <= Len(t) THEN t[i] ELSE c[i - Len(t)]
  BY <1>5, ConcatProperties
<1>9. ASSUME NEW i \in 1..Len(z) PROVE z[i] = (t \o c)[i]
  <2>1. /\ i \in 1..Len(y) - (b + 1) + 1 /\ b + 1 + i - 1 \in 1..Len(x) + Len(c)
        /\ b + 1 + i - 1 <= Len(x) <=> i <= Len(t)
        /\ i <= Len(t) => i \in 1..Len(x) - (b + 1) + 1
        /\ b + 1 + i - 1 - Len(x) = i - Len(t) /\ i \in 1..Len(t) + Len(c)
    BY <1>1, <1>7
  <2>2. z[i] = y[b + 1 + i - 1]
    BY <1>6, <2>1
  <2>3. CASE i <= Len(t)
    BY <1>1, <1>5, <1>8, <2>1, <2>2, <2>3
  <2>4. CASE ~(i <= Len(t))
    <3>1. y[b + 1 + i - 1] = c[b + 1 + i - 1 - Len(x)]
      <4> DEFINE k == b + 1 + i - 1
      <4>1. k \in 1..Len(x) + Len(c) /\ ~(k <= Len(x))
        BY <2>1, <2>4
      <4> HIDE DEF k
      <4>2. y[k] = c[k - Len(x)]
        BY <1>1, <4>1
      <4>3. QED
        BY <4>2 DEF k
    <3>2. (t \o c)[i] = c[i - Len(t)]
      BY <1>8, <2>1, <2>4
    <3>3. QED
      BY <2>1, <2>2, <3>1, <3>2
  <2>5. QED
    BY <2>3, <2>4
<1>10. Len(z) = Len(t \o c)
  BY <1>1, <1>7, <1>8
<1>11. z = t \o c
  BY <1>6, <1>8, <1>9, <1>10, SeqEqual
<1>12. QED
  BY <1>5, <1>7, <1>11 DEF t, y, z

(* Taking the first line away leaves the end alone.                        *)
LEMMA FramedRest ==
  ASSUME NEW x \in Seq(Data), NEW out, Framed(x, out), NEW n \in 1..Len(x), x[n] = NL
  PROVE  Framed(SubSeq(x, n + 1, Len(x)), out)
<1> DEFINE y == SubSeq(x, n + 1, Len(x))
<1>1. PICK b \in 0..Len(x) :
        /\ StartsBehind(x, b, Len(x) + 1)
        /\ IF out = << >>
           THEN b = Len(x)
           ELSE \E line \in Payload : SubSeq(x, b + 1, Len(x)) \o out = Append(line, NL)
  BY DEF Framed
<1>2. Len(x) \in Nat /\ n \in Nat /\ b \in Nat
  BY LenProperties
<1>3. y \in Seq(Data) /\ Len(y) = Len(x) - n /\ \A i \in 1..Len(x) - n : y[i] = x[i + n]
  BY Dropped
<1>4. n <= b
  <2>1. ~(n \in b + 1..Len(x) + 1 - 1)
    BY <1>1 DEF StartsBehind
  <2>2. QED
    BY <1>2, <2>1
<1>5. SubSeq(x, b + 1, Len(x)) = SubSeq(y, b - n + 1, Len(y))
  <2>1. /\ b - n + 1 \in Nat \ {0} /\ Len(x) - n \in 0..Len(x) - n
        /\ b - n + 1 + n = b + 1 /\ Len(x) - n + n = Len(x)
    BY <1>2, <1>4
  <2>2. SubSeq(x, b - n + 1 + n, Len(x) - n + n) = SubSeq(y, b - n + 1, Len(x) - n)
    BY <2>1, DroppedPart
  <2>3. QED
    BY <1>3, <2>1, <2>2
<1> HIDE DEF y
<1>6. StartsBehind(y, b - n, Len(y) + 1)
  <2>1. b - n = 0 \/ y[b - n] = NL
    <3>1. CASE b - n # 0
      <4>1. b - n \in 1..Len(x) - n /\ b - n + n = b /\ b # 0
        BY <1>2, <1>4, <3>1
      <4>2. QED
        BY <1>1, <1>3, <4>1 DEF StartsBehind
    <3>2. QED
      BY <3>1
  <2>2. ASSUME NEW i \in b - n + 1..Len(y) + 1 - 1 PROVE y[i] # NL
    <3>1. i \in 1..Len(x) - n /\ i + n \in b + 1..Len(x) + 1 - 1
      BY <1>2, <1>3, <1>4
    <3>2. QED
      BY <1>1, <1>3, <3>1 DEF StartsBehind
  <2>3. QED
    BY <2>1, <2>2 DEF StartsBehind
<1>7. b - n \in 0..Len(y) /\ (b = Len(x) => b - n = Len(y))
  BY <1>2, <1>3, <1>4
<1>8. Framed(y, out)
  BY <1>1, <1>5, <1>6, <1>7 DEF Framed
<1>9. QED
  BY <1>8 DEF y

(* Whatever part of a line send() writes, the lines among the bytes stay   *)
(* what they are until its last byte completes it.                         *)
LEMMA PartWritten ==
  ASSUME NEW x \in Seq(Data), NEW out \in Seq(Data), Framed(x, out), NEW n \in 1..Len(out)
  PROVE  LET y == x \o SubSeq(out, 1, n)
         IN  /\ Framed(y, SubSeq(out, n + 1, Len(out)))
             /\ \/ LinesIn(y) = LinesIn(x)
                \/ \E line \in Payload \ {<< >>} : LinesIn(y) = Append(LinesIn(x), line)
<1> DEFINE c == SubSeq(out, 1, n)
           rest == SubSeq(out, n + 1, Len(out))
           y == x \o c
<1>1. /\ Len(x) \in Nat /\ Len(out) \in Nat /\ n \in Nat /\ out # << >>
      /\ \A i \in 1..Len(out) : out[i] \in Data
  BY LenProperties, EmptySeq
<1>2. PICK b \in 0..Len(x) :
        /\ StartsBehind(x, b, Len(x) + 1)
        /\ \E line \in Payload : SubSeq(x, b + 1, Len(x)) \o out = Append(line, NL)
  BY <1>1 DEF Framed
<1> DEFINE t == SubSeq(x, b + 1, Len(x))
<1>3. PICK line \in Payload : t \o out = Append(line, NL)
  BY <1>2
<1>4. /\ c \in Seq(Data) /\ Len(c) = n /\ \A i \in 1..n : c[i] = out[i]
  <2>1. 1 \in Int /\ n \in Int /\ \A i \in 1..n : i \in 1..Len(out)
    BY <1>1
  <2>2. \A i \in 1..n : out[i] \in Data
    BY <1>1, <2>1
  <2>3. /\ c \in Seq(Data) /\ Len(c) = IF 1 <= n THEN n - 1 + 1 ELSE 0
        /\ \A i \in 1..n - 1 + 1 : c[i] = out[1 + i - 1]
    BY <2>1, <2>2, SubSeqProperties
  <2>4. n - 1 + 1 = n /\ 1 <= n /\ \A i \in 1..n : 1 + i - 1 = i
    BY <1>1
  <2>5. QED
    BY <2>3, <2>4
<1>5. rest \in Seq(Data) /\ Len(rest) = Len(out) - n
  BY Dropped
<1>6. c \o rest = out
  <2>1. 1 \in 1..Len(out) + 1 /\ n \in 1 - 1..Len(out) /\ Len(out) \in n..Len(out)
    BY <1>1
  <2>2. c \o rest = SubSeq(out, 1, Len(out))
    BY <2>1, ConcatAdjacentSubSeq
  <2>3. QED
    BY <2>2, SubSeqFull
<1>7. /\ t \in Seq(Data) /\ Len(t) = Len(x) - b
      /\ SubSeq(y, b + 1, Len(y)) = t \o c
  BY <1>4, EndAdded
<1>8. /\ y \in Seq(Data) /\ Len(y) = Len(x) + n
      /\ \A i \in 1..Len(x) + n : y[i] = IF i <= Len(x) THEN x[i] ELSE c[i - Len(x)]
  BY <1>4, ConcatProperties
<1> HIDE DEF c, rest, y, t
<1>9. /\ Len(line) \in Nat /\ Len(Append(line, NL)) = Len(line) + 1
      /\ \A i \in 1..Len(line) : Append(line, NL)[i] = line[i] /\ line[i] # NL
      /\ Append(line, NL)[Len(line) + 1] = NL
      /\ line \in Seq(Data)
  BY PayloadTyped
<1>10. /\ Len(t) + Len(out) = Len(line) + 1
       /\ \A i \in 1..Len(t) + Len(out) :
            Append(line, NL)[i] = IF i <= Len(t) THEN t[i] ELSE out[i - Len(t)]
  <2>1. /\ Len(t \o out) = Len(t) + Len(out)
        /\ \A i \in 1..Len(t) + Len(out) : (t \o out)[i] = IF i <= Len(t) THEN t[i] ELSE out[i - Len(t)]
    BY <1>7, ConcatProperties
  <2>2. QED
    BY <1>3, <1>9, <2>1
<1>11. Len(t) \in Nat
  BY <1>7, LenProperties
<1>12. ASSUME NEW i \in 1..Len(out)
       PROVE  /\ i < Len(out) => out[i] # NL
              /\ i = Len(out) => out[i] = NL
  <2> DEFINE k == Len(t) + i
  <2>1. k \in 1..Len(t) + Len(out) /\ ~(k <= Len(t)) /\ k - Len(t) = i
    BY <1>1, <1>11
  <2>2. Append(line, NL)[k] = out[i]
    <3> HIDE DEF k
    <3>1. Append(line, NL)[k] = out[k - Len(t)]
      BY <1>10, <2>1
    <3>2. QED
      BY <2>1, <3>1
  <2>3. /\ i < Len(out) => k \in 1..Len(line)
        /\ i = Len(out) => k = Len(line) + 1
    <3>1. Len(t) + Len(out) = Len(line) + 1
      BY <1>10
    <3>2. QED
      BY <1>1, <1>9, <1>11, <3>1
  <2> HIDE DEF k
  <2>4. QED
    BY <1>9, <2>2, <2>3
<1>13. CASE n < Len(out)
  <2>1. \A i \in 1..Len(c) : c[i] # NL
    <3>1. \A i \in 1..n : i \in 1..Len(out) /\ i < Len(out)
      BY <1>1, <1>13
    <3>2. QED
      BY <1>4, <1>12, <3>1
  <2>2. LinesIn(y) = LinesIn(x)
    BY <1>4, <2>1, NoNewline DEF y
  <2>3. StartsBehind(y, b, Len(y) + 1)
    <3>1. b = 0 \/ y[b] = NL
      <4>1. b # 0 => b \in 1..Len(x) + n /\ b <= Len(x)
        BY <1>1
      <4>2. QED
        BY <1>2, <1>8, <4>1 DEF StartsBehind
    <3>2. ASSUME NEW i \in b + 1..Len(y) + 1 - 1 PROVE y[i] # NL
      <4>1. i \in 1..Len(x) + n
        BY <1>1, <1>8
      <4>2. CASE i <= Len(x)
        <5>1. i \in b + 1..Len(x) + 1 - 1
          BY <1>1, <4>2
        <5>2. QED
          BY <1>2, <1>8, <4>1, <4>2, <5>1 DEF StartsBehind
      <4>3. CASE ~(i <= Len(x))
        <5>1. i - Len(x) \in 1..Len(c)
          BY <1>1, <1>4, <4>1, <4>3
        <5>2. QED
          BY <1>8, <2>1, <4>1, <4>3, <5>1
      <4>4. QED
        BY <4>2, <4>3
    <3>3. QED
      BY <3>1, <3>2 DEF StartsBehind
  <2>4. rest # << >>
    BY <1>1, <1>5, <1>13, EmptySeq
  <2>5. SubSeq(y, b + 1, Len(y)) \o rest = Append(line, NL)
    <3>1. (t \o c) \o rest = t \o (c \o rest)
      <4>1. t \in Seq(Data) /\ c \in Seq(Data) /\ rest \in Seq(Data)
        BY <1>4, <1>5, <1>7
      <4>2. QED
        BY <4>1, Associative, ZenonT(60)
    <3>2. QED
      BY <1>3, <1>6, <1>7, <3>1
  <2>6. b \in 0..Len(y)
    BY <1>1, <1>8
  <2>7. Framed(y, rest)
    BY <2>3, <2>4, <2>5, <2>6 DEF Framed
  <2>8. QED
    BY <2>2, <2>7 DEF y, c, rest
<1>14. CASE n = Len(out)
  <2>1. rest = << >>
    BY <1>1, <1>5, <1>14, EmptySeq
  <2>2. c = out
    BY <1>4, <1>14, SeqEqual
  <2>3. c # << >> /\ c[Len(c)] = NL /\ \A i \in 1..Len(c) - 1 : c[i] # NL
    <3>1. Len(out) \in 1..Len(out) /\ \A i \in 1..Len(out) - 1 : i \in 1..Len(out) /\ i < Len(out)
      BY <1>1
    <3>2. QED
      BY <1>1, <1>12, <2>2, <3>1
  <2>4. Framed(y, << >>)
    <3>1. Len(y) \in 1..Len(x) + n /\ ~(Len(y) <= Len(x)) /\ Len(y) - Len(x) = Len(c)
      BY <1>1, <1>4, <1>8
    <3>2. y[Len(y)] = NL
      BY <1>8, <2>3, <3>1
    <3>3. Len(y) \in 0..Len(y) /\ ~\E i : i \in Len(y) + 1..Len(y) + 1 - 1
      BY <1>1, <1>8
    <3>4. StartsBehind(y, Len(y), Len(y) + 1)
      BY <3>2, <3>3 DEF StartsBehind
    <3>5. QED
      BY <3>3, <3>4 DEF Framed
  <2>5. SubSeq(y, b + 1, Len(y) - 1) = line
    <3> DEFINE w == SubSeq(y, b + 1, Len(y) - 1)
    <3>1. b + 1 \in Int /\ Len(y) - 1 \in Int /\ Len(y) - 1 - (b + 1) + 1 = Len(line)
      BY <1>1, <1>7, <1>8, <1>9, <1>10, <1>14
    <3>2. \A i \in b + 1..Len(y) - 1 : y[i] \in Data
      <4>1. \A i \in b + 1..Len(y) - 1 : i \in 1..Len(y)
        BY <1>1, <1>8
      <4>2. \A i \in 1..Len(y) : y[i] \in Data
        BY <1>8, LenProperties
      <4>3. QED
        BY <4>1, <4>2
    <3>3. /\ w \in Seq(Data)
          /\ Len(w) = IF b + 1 <= Len(y) - 1 THEN Len(y) - 1 - (b + 1) + 1 ELSE 0
          /\ \A i \in 1..Len(y) - 1 - (b + 1) + 1 : w[i] = y[b + 1 + i - 1]
      BY <3>1, <3>2, SubSeqProperties
    <3> HIDE DEF w
    <3>4. Len(w) = Len(line)
      BY <1>1, <1>8, <1>9, <3>1, <3>3
    <3>5. ASSUME NEW i \in 1..Len(w) PROVE w[i] = line[i]
      <4>1. /\ i \in 1..Len(line) /\ b + 1 + i - 1 \in 1..Len(x) + n
            /\ i \in 1..Len(t) + Len(out)
        <5>1. Len(t) = Len(x) - b /\ Len(t) + Len(out) = Len(line) + 1 /\ i \in 1..Len(line)
          BY <1>7, <1>10, <3>4
        <5>2. QED
          BY <1>1, <1>9, <1>11, <1>14, <5>1
      <4>2. b + 1 + i - 1 <= Len(x) <=> i <= Len(t)
        BY <1>1, <1>7, <4>1
      <4>3. w[i] = y[b + 1 + i - 1] /\ line[i] = Append(line, NL)[i]
        BY <1>9, <3>1, <3>3, <4>1
      <4>4. CASE i <= Len(t)
        <5>1. line[i] = t[i]
          BY <1>10, <4>1, <4>3, <4>4
        <5>2. t[i] = x[b + 1 + i - 1]
          <6>1. b + 1 \in Int /\ Len(x) \in Int /\ i \in 1..Len(x) - (b + 1) + 1
            BY <1>1, <1>7, <4>1, <4>4
          <6>2. \A j \in b + 1..Len(x) : x[j] \in Data
            <7>1. \A j \in b + 1..Len(x) : j \in 1..Len(x)
              BY <1>1
            <7>2. \A j \in 1..Len(x) : x[j] \in Data
              BY LenProperties
            <7>3. QED
              BY <7>1, <7>2
          <6>3. \A j \in 1..Len(x) - (b + 1) + 1 : t[j] = x[b + 1 + j - 1]
            BY <6>1, <6>2, SubSeqProperties DEF t
          <6>4. QED
            BY <6>1, <6>3
        <5>3. QED
          BY <1>8, <4>1, <4>2, <4>3, <4>4, <5>1, <5>2
      <4>5. CASE ~(i <= Len(t))
        <5>1. line[i] = out[i - Len(t)]
          BY <1>10, <4>1, <4>3, <4>5
        <5>2. b + 1 + i - 1 - Len(x) = i - Len(t)
          BY <1>1, <1>7, <4>1
        <5>3. y[b + 1 + i - 1] = c[b + 1 + i - 1 - Len(x)]
          <6> DEFINE k == b + 1 + i - 1
          <6>1. k \in 1..Len(x) + n /\ ~(k <= Len(x))
            BY <4>1, <4>2, <4>5
          <6> HIDE DEF k
          <6>2. y[k] = c[k - Len(x)]
            BY <1>8, <6>1
          <6>3. QED
            BY <6>2 DEF k
        <5>4. QED
          BY <2>2, <4>3, <5>1, <5>2, <5>3
      <4>6. QED
        BY <4>4, <4>5
    <3>6. QED
      BY <1>9, <3>3, <3>4, <3>5, SeqEqual DEF w
  <2>6. LinesIn(y) = IF NotBlank(line) THEN Append(LinesIn(x), line) ELSE LinesIn(x)
    BY <1>2, <1>4, <2>3, <2>5, LineCompleted DEF y
  <2>7. QED
    BY <2>1, <2>4, <2>6 DEF y, c, rest, NotBlank
<1>15. QED
  BY <1>1, <1>13, <1>14

-----------------------------------------------------------------------------
(* The steps of the reader and the writer as steps of the channel.         *)

queue == IF pc = "failed" THEN << >> ELSE LinesIn(buffer \o stream)

ChannelStep ==
  \/ Channel!Send \/ Channel!Handle \/ Channel!Break
  \/ UNCHANGED <<reader, queue, handled, pc = "failed">>

LEMMA InitFramed ==
  ASSUME Init
  PROVE  FramingInv /\ Channel!Init
<1>1. << >> \in Seq(Data) /\ << >> \o << >> = << >> /\ Len(<< >>) = 0
  BY EmptySeq, ConcatEmptySeq
<1>2. Ends(<< >>) = {}
  BY <1>1 DEF Ends
<1>3. LinesIn(<< >>) = << >>
  <2>1. Cardinality(Ends(<< >>)) = 0
    BY <1>2, FS_EmptySet
  <2>2. LinesIn(<< >>) \in Seq(Seq(Data)) /\ Len(LinesIn(<< >>)) = 0
    BY <1>1, <2>1, LinesTyped
  <2>3. QED
    BY <2>2, EmptySeq
<1>4. Framed(<< >>, << >>)
  <2>1. StartsBehind(<< >>, 0, Len(<< >>) + 1)
    BY <1>1 DEF StartsBehind
  <2>2. QED
    BY <1>1, <2>1 DEF Framed
<1>5. QED
  BY <1>1, <1>3, <1>4 DEF Init, FramingInv, BytesTyped, Channel!Init

LEMMA SendLineFramed ==
  ASSUME FramingInv, send_line
  PROVE  FramingInv' /\ ChannelStep
<1>1. PICK line \in Payload : outgoing' = Append(line, NL)
  BY DEF send_line
<1>2. outgoing' \in Seq(Data)
  BY <1>1, PayloadTyped
<1>3. UNCHANGED <<reader, stream, buffer, handled, pc>> /\ outgoing = << >>
  BY DEF send_line
<1>4. BytesTyped'
  BY <1>2, <1>3 DEF FramingInv, BytesTyped
<1>5. buffer \o stream \in Seq(Data)
  BY ConcatProperties DEF FramingInv, BytesTyped
<1>6. pc # "failed" => Framed(buffer \o stream, outgoing')
  BY <1>1, <1>3, <1>5, LineBegun DEF FramingInv
<1>7. QED
  BY <1>3, <1>4, <1>6 DEF FramingInv, ChannelStep, queue

LEMMA SendFramed ==
  ASSUME FramingInv, send
  PROVE  FramingInv' /\ ChannelStep
<1>1. PICK n \in 1..Len(outgoing) :
        /\ stream' = stream \o SubSeq(outgoing, 1, n)
        /\ outgoing' = SubSeq(outgoing, n + 1, Len(outgoing))
  BY DEF send, not_written
<1>2. UNCHANGED <<reader, buffer, handled, pc>>
  BY DEF send
<1> DEFINE x == buffer \o stream
           c == SubSeq(outgoing, 1, n)
<1>3. buffer \in Seq(Data) /\ stream \in Seq(Data) /\ outgoing \in Seq(Data)
  BY DEF FramingInv, BytesTyped
<1>4. x \in Seq(Data)
  BY <1>3, ConcatProperties
<1>5. c \in Seq(Data)
  <2>1. Len(outgoing) \in Nat /\ \A i \in 1..Len(outgoing) : outgoing[i] \in Data
    BY <1>3, LenProperties
  <2>2. 1 \in Int /\ n \in Int /\ \A i \in 1..n : i \in 1..Len(outgoing)
    BY <2>1
  <2>3. \A i \in 1..n : outgoing[i] \in Data
    BY <2>1, <2>2
  <2>4. QED
    BY <2>2, <2>3, SubSeqProperties
<1>6. stream' \in Seq(Data) /\ outgoing' \in Seq(Data)
  BY <1>1, <1>3, <1>5, ConcatProperties, Dropped
<1>7. buffer \o stream' = x \o c
  <2>1. (buffer \o stream) \o c = buffer \o (stream \o c)
    BY <1>3, <1>5, Associative, ZenonT(60)
  <2>2. QED
    BY <1>1, <2>1
<1>8. BytesTyped'
  BY <1>2, <1>6 DEF FramingInv, BytesTyped
<1>9. CASE pc = "failed"
  BY <1>2, <1>8, <1>9 DEF FramingInv, ChannelStep, queue
<1>10. CASE pc # "failed"
  <2>1. Framed(x, outgoing)
    BY <1>10 DEF FramingInv
  <2>2. /\ Framed(x \o c, outgoing')
        /\ \/ LinesIn(x \o c) = LinesIn(x)
           \/ \E line \in Payload \ {<< >>} : LinesIn(x \o c) = Append(LinesIn(x), line)
    BY <1>1, <1>3, <1>4, <2>1, PartWritten
  <2>3. FramingInv'
    BY <1>2, <1>7, <1>8, <2>2 DEF FramingInv
  <2>4. queue = LinesIn(x) /\ queue' = LinesIn(x \o c)
    BY <1>2, <1>7, <1>10 DEF queue
  <2>5. CASE LinesIn(x \o c) = LinesIn(x)
    BY <1>2, <2>3, <2>4, <2>5 DEF ChannelStep
  <2>6. CASE \E line \in Payload \ {<< >>} : LinesIn(x \o c) = Append(LinesIn(x), line)
    <3>1. \E line \in Payload \ {<< >>} : queue' = Append(queue, line)
      BY <2>4, <2>6
    <3>2. Channel!Send
      BY <1>2, <1>10, <3>1 DEF Channel!Send, queue
    <3>3. QED
      BY <2>3, <3>2 DEF ChannelStep
  <2>7. QED
    BY <2>2, <2>5, <2>6
<1>11. QED
  BY <1>9, <1>10

LEMMA RecvFramed ==
  ASSUME FramingInv, recv
  PROVE  FramingInv' /\ ChannelStep
<1>1. PICK n \in 1..Len(stream) :
        /\ stream' = SubSeq(stream, n + 1, Len(stream))
        /\ IF reader = "dashboard" /\ ~Decodable(SubSeq(stream, 1, n))
           THEN pc' = "failed" /\ UNCHANGED buffer
           ELSE pc' = "split" /\ buffer' = buffer \o SubSeq(stream, 1, n)
  BY DEF recv
<1>2. UNCHANGED <<reader, outgoing, handled>> /\ pc = "recv"
  BY DEF recv
<1> DEFINE c == SubSeq(stream, 1, n)
           rest == SubSeq(stream, n + 1, Len(stream))
<1>3. buffer \in Seq(Data) /\ stream \in Seq(Data) /\ outgoing \in Seq(Data)
  BY DEF FramingInv, BytesTyped
<1>4. Len(stream) \in Nat /\ \A i \in 1..Len(stream) : stream[i] \in Data
  BY <1>3, LenProperties
<1>5. c \in Seq(Data) /\ rest \in Seq(Data)
  <2>1. 1 \in Int /\ n \in Int /\ \A i \in 1..n : i \in 1..Len(stream)
    BY <1>4
  <2>2. \A i \in 1..n : stream[i] \in Data
    BY <1>4, <2>1
  <2>3. c \in Seq(Data)
    BY <2>1, <2>2, SubSeqProperties
  <2>4. QED
    BY <1>3, <2>3, Dropped
<1>6. c \o rest = stream
  <2>1. 1 \in 1..Len(stream) + 1 /\ n \in 1 - 1..Len(stream) /\ Len(stream) \in n..Len(stream)
    BY <1>4
  <2>2. c \o rest = SubSeq(stream, 1, Len(stream))
    BY <1>3, <2>1, ConcatAdjacentSubSeq
  <2>3. QED
    BY <1>3, <2>2, SubSeqFull
<1>7. (buffer \o c) \o rest = buffer \o stream
  <2>1. (buffer \o c) \o rest = buffer \o (c \o rest)
    BY <1>3, <1>5, Associative, ZenonT(60)
  <2>2. QED
    BY <1>6, <2>1
<1>8. buffer \o c \in Seq(Data)
  BY <1>3, <1>5, ConcatProperties
<1> HIDE DEF c, rest
<1>9. CASE reader = "dashboard" /\ ~Decodable(c)
  <2>1. pc' = "failed" /\ buffer' = buffer /\ stream' = rest
    BY <1>1, <1>9 DEF c, rest
  <2>2. FramingInv'
    BY <1>2, <1>3, <1>5, <2>1 DEF FramingInv, BytesTyped
  <2>3. queue' = << >>
    BY <2>1 DEF queue
  <2>4. Channel!Break
    BY <1>2, <1>9, <2>1 DEF Channel!Break
  <2>5. QED
    BY <2>2, <2>4 DEF ChannelStep
<1>10. CASE ~(reader = "dashboard" /\ ~Decodable(c))
  <2>1. pc' = "split" /\ buffer' = buffer \o c /\ stream' = rest
    BY <1>1, <1>10 DEF c, rest
  <2>2. buffer' \o stream' = buffer \o stream
    BY <1>7, <2>1
  <2>3. FramingInv'
    BY <1>2, <1>3, <1>5, <1>8, <2>1, <2>2 DEF FramingInv, BytesTyped
  <2>4. queue' = queue
    BY <1>2, <2>1, <2>2 DEF queue
  <2>5. QED
    BY <1>2, <2>1, <2>3, <2>4 DEF ChannelStep
<1>11. QED
  BY <1>9, <1>10

(* find('\n') of the reader.                                               *)
LEMMA FirstNewline ==
  ASSUME NEW s \in Seq(Data), Contains(s, NL)
  PROVE  LET n == SelectInSeq(s, LAMBDA byte : byte = NL)
         IN  n \in 1..Len(s) /\ s[n] = NL /\ \A i \in 1..n - 1 : s[i] # NL
<1> DEFINE I == {i \in 1..Len(s) : s[i] = NL}
           n == SelectInSeq(s, LAMBDA byte : byte = NL)
<1>1. Len(s) \in Nat
  BY LenProperties
<1>2. I # {} /\ I \subseteq Nat
  BY <1>1 DEF Contains
<1>3. n = Min(I)
  BY <1>2 DEF SelectInSeq
<1>4. n \in I /\ \A j \in I : n <= j
  BY <1>2, <1>3, Least DEF Min
<1> HIDE DEF n
<1>5. ASSUME NEW i \in 1..n - 1 PROVE s[i] # NL
  <2>1. i \in 1..Len(s) /\ ~(n <= i)
    BY <1>1, <1>4
  <2>2. QED
    BY <1>4, <2>1
<1>6. n \in 1..Len(s) /\ s[n] = NL /\ \A i \in 1..n - 1 : s[i] # NL
  BY <1>4, <1>5
<1>7. QED
  BY <1>6 DEF n

LEMMA SplitFramed ==
  ASSUME FramingInv, Split
  PROVE  FramingInv' /\ ChannelStep
<1> DEFINE n == SelectInSeq(buffer, LAMBDA byte : byte = NL)
           line == SubSeq(buffer, 1, n - 1)
           rest == SubSeq(buffer, n + 1, Len(buffer))
           x == buffer \o stream
<1>1. /\ buffer' = rest
      /\ handled' = IF NotBlank(line) THEN Append(handled, line) ELSE handled
      /\ pc = "split" /\ pc' = "split"
      /\ UNCHANGED <<reader, outgoing, stream>>
  BY DEF Split, after_line
<1>2. buffer \in Seq(Data) /\ stream \in Seq(Data)
  BY DEF FramingInv, BytesTyped
<1>3. n \in 1..Len(buffer) /\ buffer[n] = NL /\ \A i \in 1..n - 1 : buffer[i] # NL
  BY <1>2, FirstNewline DEF Split
<1> HIDE DEF n
<1>4. rest \in Seq(Data)
  BY <1>2, <1>3, Dropped
<1>5. /\ Len(buffer) \in Nat /\ Len(stream) \in Nat
      /\ x \in Seq(Data) /\ Len(x) = Len(buffer) + Len(stream)
      /\ \A i \in 1..Len(buffer) : x[i] = buffer[i]
  BY <1>2, ConcatProperties, LenProperties
<1>6. SubSeq(x, n + 1, Len(x)) = rest \o stream
  <2>1. n \in 0..Len(buffer)
    BY <1>3, <1>5
  <2>2. QED
    BY <1>2, <2>1, EndAdded
<1>7. SubSeq(x, 1, n - 1) = line
  <2>1. CASE n = 1
    <3>1. n - 1 \in Int /\ n - 1 < 1 /\ 1 \in Int
      BY <2>1
    <3>2. QED
      BY <3>1, SubSeqEmpty
  <2>2. CASE n # 1
    <3>1. 1 \in 1..Len(buffer) /\ n - 1 \in 1..Len(buffer)
      BY <1>3, <1>5, <2>2
    <3>2. QED
      BY <1>2, <3>1, SubSeqOfConcat1
  <2>3. QED
    BY <2>1, <2>2
<1> HIDE DEF x, line, rest
<1>8. n \in 1..Len(x) /\ x[n] = NL /\ \A i \in 1..n - 1 : x[i] # NL
  <2>1. n \in 1..Len(x) /\ \A i \in 1..n - 1 : i \in 1..Len(buffer)
    BY <1>3, <1>5
  <2>2. QED
    BY <1>3, <1>5, <2>1
<1>9. Framed(rest \o stream, outgoing)
  <2>1. Framed(x, outgoing)
    BY <1>1 DEF FramingInv, x
  <2>2. QED
    BY <1>5, <1>6, <1>8, <2>1, FramedRest
<1>10. FramingInv'
  BY <1>1, <1>4, <1>9 DEF FramingInv, BytesTyped
<1>11. queue = LinesIn(x) /\ queue' = LinesIn(rest \o stream)
  BY <1>1 DEF queue, x
<1>12. IF NotBlank(line)
       THEN queue # << >> /\ Head(queue) = line /\ Tail(queue) = queue'
       ELSE queue = queue'
  BY <1>5, <1>6, <1>7, <1>8, <1>11, FirstLine
<1>13. CASE NotBlank(line)
  <2>1. /\ queue # << >> /\ handled' = Append(handled, Head(queue)) /\ queue' = Tail(queue)
        /\ UNCHANGED <<reader, pc>>
    BY <1>1, <1>12, <1>13
  <2>2. Channel!Handle
    BY <2>1 DEF Channel!Handle, queue
  <2>3. QED
    BY <1>10, <2>2 DEF ChannelStep
<1>14. CASE ~NotBlank(line)
  BY <1>1, <1>10, <1>12, <1>14 DEF ChannelStep
<1>15. QED
  BY <1>13, <1>14

LEMMA StepFramed ==
  ASSUME FramingInv, [Next]_vars
  PROVE  FramingInv' /\ ChannelStep
<1>1. CASE send_line
  BY <1>1, SendLineFramed
<1>2. CASE send
  BY <1>2, SendFramed
<1>3. CASE recv
  BY <1>3, RecvFramed
<1>4. CASE Split
  BY <1>4, SplitFramed
<1>5. CASE SplitDone
  BY <1>5 DEF SplitDone, unfinished, FramingInv, BytesTyped, ChannelStep, queue
<1>6. CASE UNCHANGED vars
  BY <1>6 DEF vars, FramingInv, BytesTyped, ChannelStep, queue
<1>7. QED
  BY <1>1, <1>2, <1>3, <1>4, <1>5, <1>6 DEF Next

(* send_line, send(), recv() and read_client or _consume, whatever bytes   *)
(* they exchange and wherever the system cuts them, hand over the lines    *)
(* that were sent, whole, once and in order.                               *)
THEOREM FramingRefinement == Spec => ImplementsLineChannel
<1>1. Init => FramingInv /\ Channel!Init
  BY InitFramed
<1>2. FramingInv /\ [Next]_vars => FramingInv'
  BY StepFramed
<1>3. FramingInv /\ [Next]_vars => [Channel!Send \/ Channel!Handle \/ Channel!Break]_(Channel!vars)
  BY StepFramed DEF ChannelStep, queue, Channel!vars
<1>4. QED
  BY <1>1, <1>2, <1>3, PTL DEF Spec, ImplementsLineChannel, Channel!Safe
=============================================================================
