----------------------------- MODULE WireProofs -----------------------------
(* What becomes of a text, for texts of any length over any of the         *)
(* characters.  The conversions are recursive functions; an induction over *)
(* a text is one over the set of positions up to which a fact holds.       *)
EXTENDS WireFormat, SequenceTheorems, WellFoundedInduction, TLAPS

-----------------------------------------------------------------------------
(* Induction over a set of numbers.                                        *)

LEMMA Induct ==
  ASSUME NEW P, 0 \in P, \A n \in Nat : n \in P => n + 1 \in P
  PROVE  \A n \in Nat : n \in P
<1> DEFINE T == Nat \ P
<1>1. SUFFICES ASSUME T # {} PROVE FALSE
  OBVIOUS
<1>2. PICK m \in T : \A n \in T : ~(<<n, m>> \in OpToRel(<, Nat))
  BY <1>1, NatLessThanWellFounded, WFMin
<1>3. m \in Nat /\ m # 0 /\ m \notin P
  OBVIOUS
<1>4. m - 1 \in Nat /\ m - 1 < m /\ m - 1 + 1 = m
  BY <1>3
<1>5. m - 1 \in T
  BY <1>3, <1>4
<1>6. <<m - 1, m>> \in OpToRel(<, Nat)
  BY <1>3, <1>4 DEF OpToRel
<1>7. QED
  BY <1>2, <1>5, <1>6

LEMMA InductUp ==
  ASSUME NEW P, NEW N \in Nat, 0 \in P, \A n \in 0..N - 1 : n \in P => n + 1 \in P
  PROVE  \A n \in 0..N : n \in P
<1> DEFINE Q == {n \in Nat : n <= N => n \in P}
<1>1. 0 \in Q
  OBVIOUS
<1>2. ASSUME NEW n \in Nat, n \in Q PROVE n + 1 \in Q
  <2>1. CASE n + 1 <= N
    <3>1. n \in 0..N - 1 /\ n <= N
      BY <2>1
    <3>2. n \in P
      BY <1>2, <3>1
    <3>3. QED
      BY <3>1, <3>2
  <2>2. QED
    BY <2>1
<1> HIDE DEF Q
<1>3. \A n \in Nat : n \in Q
  BY <1>1, <1>2, Induct
<1>4. QED
  BY <1>3 DEF Q

LEMMA InductDown ==
  ASSUME NEW P, NEW N \in Nat, N \in P, \A n \in 0..N - 1 : n + 1 \in P => n \in P
  PROVE  \A n \in 0..N : n \in P
<1> DEFINE Q == {k \in Nat : k <= N => N - k \in P}
<1>1. 0 \in Q
  OBVIOUS
<1>2. ASSUME NEW k \in Nat, k \in Q PROVE k + 1 \in Q
  <2>1. CASE k + 1 <= N
    <3>1. N - (k + 1) \in 0..N - 1 /\ N - (k + 1) + 1 = N - k /\ k <= N
      BY <2>1
    <3>2. N - k \in P
      BY <1>2, <3>1
    <3>3. QED
      BY <3>1, <3>2
  <2>2. QED
    BY <2>1
<1> HIDE DEF Q
<1>3. \A k \in Nat : k \in Q
  BY <1>1, <1>2, Induct
<1>4. ASSUME NEW n \in 0..N PROVE n \in P
  <2>1. N - n \in Nat /\ N - n <= N /\ N - (N - n) = n
    OBVIOUS
  <2>2. N - (N - n) \in P
    BY <1>3, <2>1 DEF Q
  <2>3. QED
    BY <2>1, <2>2
<1>5. QED
  BY <1>4

-----------------------------------------------------------------------------
(* The loop of escape_json and json.dumps.                                 *)

(* What is written after each character.                                   *)
WrittenUpTo(s, table) ==
  CHOOSE out : out = [n \in 0..Len(s) |-> IF n = 0 THEN << >> ELSE out[n - 1] \o table[s[n]]]

LEMMA WrittenUpToExists ==
  ASSUME NEW s, Len(s) \in Nat, NEW table
  PROVE  WrittenUpTo(s, table) =
           [n \in 0..Len(s) |-> IF n = 0 THEN << >> ELSE WrittenUpTo(s, table)[n - 1] \o table[s[n]]]
<1> DEFINE P == {k \in Nat : \E g : g = [n \in 0..k |-> IF n = 0 THEN << >> ELSE g[n - 1] \o table[s[n]]]}
<1>1. 0 \in P
  <2> DEFINE g == [n \in 0..0 |-> << >>]
  <2>1. g = [n \in 0..0 |-> IF n = 0 THEN << >> ELSE g[n - 1] \o table[s[n]]]
    OBVIOUS
  <2>2. QED
    BY <2>1
<1>2. ASSUME NEW k \in Nat, k \in P PROVE k + 1 \in P
  <2>1. PICK g : g = [n \in 0..k |-> IF n = 0 THEN << >> ELSE g[n - 1] \o table[s[n]]]
    BY <1>2
  <2> DEFINE h == [n \in 0..k + 1 |-> IF n <= k THEN g[n] ELSE g[k] \o table[s[k + 1]]]
  <2>2. ASSUME NEW n \in 0..k + 1
        PROVE  h[n] = IF n = 0 THEN << >> ELSE h[n - 1] \o table[s[n]]
    <3>1. CASE n = 0
      BY <2>1, <3>1
    <3>2. CASE n # 0 /\ n <= k
      <4>1. n \in 0..k /\ n - 1 \in 0..k + 1 /\ n - 1 <= k
        BY <3>2
      <4>2. h[n] = g[n] /\ h[n - 1] = g[n - 1]
        BY <4>1
      <4>3. g[n] = g[n - 1] \o table[s[n]]
        BY <2>1, <3>2, <4>1
      <4>4. QED
        BY <3>2, <4>2, <4>3
    <3>3. CASE n = k + 1
      <4>1. n - 1 = k /\ k \in 0..k + 1 /\ k <= k /\ ~(k + 1 <= k) /\ n # 0
        BY <3>3
      <4>2. h[k] = g[k] /\ h[n] = g[k] \o table[s[n]]
        BY <3>3, <4>1
      <4>3. QED
        BY <4>1, <4>2
    <3>4. QED
      BY <3>1, <3>2, <3>3
  <2>3. h = [n \in 0..k + 1 |-> IF n = 0 THEN << >> ELSE h[n - 1] \o table[s[n]]]
    BY <2>2
  <2>4. k + 1 \in Nat
    OBVIOUS
  <2> HIDE DEF h
  <2>5. QED
    BY <2>3, <2>4
<1> HIDE DEF P
<1>3. \A k \in Nat : k \in P
  BY <1>1, <1>2, Induct
<1>4. \E g : g = [n \in 0..Len(s) |-> IF n = 0 THEN << >> ELSE g[n - 1] \o table[s[n]]]
  BY <1>3 DEF P
<1>5. QED
  BY <1>4 DEF WrittenUpTo

LEMMA WrittenSteps ==
  ASSUME NEW s, Len(s) \in Nat, NEW table
  PROVE  /\ Written(s, table) = WrittenUpTo(s, table)[Len(s)]
         /\ WrittenUpTo(s, table)[0] = << >>
         /\ \A n \in 0..Len(s) - 1 :
              WrittenUpTo(s, table)[n + 1] = WrittenUpTo(s, table)[n] \o table[s[n + 1]]
<1> DEFINE u == WrittenUpTo(s, table)
<1>1. Written(s, table) = u[Len(s)]
  BY DEF Written, WrittenUpTo
<1>2. u = [n \in 0..Len(s) |-> IF n = 0 THEN << >> ELSE u[n - 1] \o table[s[n]]]
  BY WrittenUpToExists
<1> HIDE DEF u
<1>3. u[0] = << >>
  BY <1>2
<1>4. ASSUME NEW n \in 0..Len(s) - 1 PROVE u[n + 1] = u[n] \o table[s[n + 1]]
  <2> DEFINE k == n + 1
  <2>1. k \in 0..Len(s) /\ k # 0 /\ k - 1 = n
    OBVIOUS
  <2> HIDE DEF k
  <2>2. u[k] = u[k - 1] \o table[s[k]]
    BY <1>2, <2>1
  <2>3. u[k] = u[n] \o table[s[k]]
    BY <2>1, <2>2
  <2>4. QED
    BY <2>3 DEF k
<1>5. QED
  BY <1>1, <1>3, <1>4 DEF u

(* Only characters of the table are written.                               *)
LEMMA WrittenIn ==
  ASSUME NEW A, NEW s \in Seq(A), NEW table, NEW S, \A i \in 1..Len(s) : table[s[i]] \in Seq(S)
  PROVE  /\ Written(s, table) \in Seq(S)
         /\ \A n \in 0..Len(s) : WrittenUpTo(s, table)[n] \in Seq(S)
<1> DEFINE u == WrittenUpTo(s, table)
           P == {n \in 0..Len(s) : u[n] \in Seq(S)}
<1>1. Len(s) \in Nat
  BY LenProperties
<1>2. /\ Written(s, table) = u[Len(s)] /\ u[0] = << >>
      /\ \A n \in 0..Len(s) - 1 : u[n + 1] = u[n] \o table[s[n + 1]]
  BY <1>1, WrittenSteps, Zenon
<1> HIDE DEF u
<1>3. 0 \in P
  <2>1. 0 \in 0..Len(s) /\ << >> \in Seq(S)
    BY <1>1, EmptySeq
  <2>2. QED
    BY <1>2, <2>1
<1>4. ASSUME NEW n \in 0..Len(s) - 1, n \in P PROVE n + 1 \in P
  <2>1. n + 1 \in 1..Len(s) /\ n + 1 \in 0..Len(s)
    BY <1>1
  <2>2. u[n] \o table[s[n + 1]] \in Seq(S)
    BY <1>4, <2>1, ConcatProperties
  <2>3. QED
    BY <1>2, <2>1, <2>2
<1>5. \A n \in 0..Len(s) : n \in P
  BY <1>1, <1>3, <1>4, InductUp
<1>6. QED
  BY <1>1, <1>2, <1>5 DEF u

LEMMA Appended ==
  ASSUME NEW S, NEW v \in Seq(S), NEW p \in Seq(S), NEW w, w = v \o p
  PROVE  /\ Len(w) = Len(v) + Len(p)
         /\ \A i \in 1..Len(v) + Len(p) : w[i] = IF i <= Len(v) THEN v[i] ELSE p[i - Len(v)]
BY ConcatProperties

(* The replacements of escape_json and of json.dumps.                      *)
EscapeTable ==
  [ch \in AnyChar |-> IF ch \in {Quote, Backslash} THEN <<Backslash, ch>>
                      ELSE IF ch = Newline THEN <<Backslash, "n">>
                      ELSE <<ch>>]
DumpsTable ==
  [ch \in AnyChar |-> IF ch \in {Quote, Backslash} THEN <<Backslash, ch>>
                      ELSE IF ch = Newline THEN <<Backslash, "n">>
                      ELSE IF ch = Control THEN <<Backslash, ControlCode>>
                      ELSE IF ch = NonAscii THEN <<Backslash, NonAsciiCode>>
                      ELSE <<ch>>]

LEMMA Tables ==
  ASSUME NEW s
  PROVE  /\ escape_json(s) = Written(s, EscapeTable)
         /\ dumps(s) = Written(s, DumpsTable)
BY Zenon DEF escape_json, dumps, EscapeTable, DumpsTable

(* A character is copied, which a quote, a backslash and a newline are     *)
(* not, or a backslash and one more character are written for it.          *)
GoodTable(table) ==
  \A ch \in AnyChar :
    \/ table[ch] = <<ch>> /\ ch \notin {Quote, Backslash, Newline}
    \/ \E e \in AnyChar \ {Newline, Control} : table[ch] = <<Backslash, e>>

LEMMA TablesGood ==
  /\ GoodTable(EscapeTable)
  /\ GoodTable(DumpsTable)
<1>1. ASSUME NEW ch \in AnyChar
      PROVE  \/ EscapeTable[ch] = <<ch>> /\ ch \notin {Quote, Backslash, Newline}
             \/ \E e \in AnyChar \ {Newline, Control} : EscapeTable[ch] = <<Backslash, e>>
  BY DEF EscapeTable, AnyChar, Quote, Backslash, Newline, Control
<1>2. ASSUME NEW ch \in AnyChar
      PROVE  \/ DumpsTable[ch] = <<ch>> /\ ch \notin {Quote, Backslash, Newline}
             \/ \E e \in AnyChar \ {Newline, Control} : DumpsTable[ch] = <<Backslash, e>>
  BY DEF DumpsTable, AnyChar, Quote, Backslash, Newline, Control, NonAscii, NonAsciiCode, ControlCode
<1>3. QED
  BY <1>1, <1>2 DEF GoodTable

LEMMA PieceIn ==
  ASSUME NEW table, GoodTable(table), NEW ch \in AnyChar
  PROVE  /\ table[ch] \in Seq(AnyChar \ {Newline})
         /\ table[ch] = <<ch>> \/ \E e \in AnyChar \ {Newline, Control} : table[ch] = <<Backslash, e>>
<1>1. Backslash \in AnyChar \ {Newline}
  BY DEF AnyChar, Backslash, Newline
<1>2. CASE table[ch] = <<ch>> /\ ch \notin {Quote, Backslash, Newline}
  BY <1>2
<1>3. CASE \E e \in AnyChar \ {Newline, Control} : table[ch] = <<Backslash, e>>
  BY <1>1, <1>3
<1>4. QED
  BY <1>2, <1>3 DEF GoodTable

(* Nothing that is written holds a newline.                                *)
LEMMA NoNewlineWritten ==
  ASSUME NEW s \in Seq(AnyChar), NEW table, GoodTable(table)
  PROVE  /\ Written(s, table) \in Seq(AnyChar \ {Newline})
         /\ \A n \in 0..Len(s) : WrittenUpTo(s, table)[n] \in Seq(AnyChar \ {Newline})
<1>1. ASSUME NEW i \in 1..Len(s) PROVE table[s[i]] \in Seq(AnyChar \ {Newline})
  <2>1. s[i] \in AnyChar
    BY ElementOfSeq
  <2>2. QED
    BY <2>1, PieceIn
<1>2. QED
  BY <1>1, WrittenIn

(* In what is written a backslash stands before every quote.               *)
QuotesEscaped(t) == \A j \in 1..Len(t) : t[j] = Quote => j > 1 /\ t[j - 1] = Backslash

LEMMA QuotesEscapedWritten ==
  ASSUME NEW s \in Seq(AnyChar), NEW table, GoodTable(table)
  PROVE  QuotesEscaped(Written(s, table))
<1> DEFINE u == WrittenUpTo(s, table)
           C == AnyChar \ {Newline}
           P == {n \in 0..Len(s) : QuotesEscaped(u[n])}
<1>1. Len(s) \in Nat
  BY LenProperties
<1>2. Written(s, table) = u[Len(s)] /\ u[0] = << >>
  BY <1>1, WrittenSteps, Zenon
<1>3. \A n \in 0..Len(s) - 1 : u[n + 1] = u[n] \o table[s[n + 1]]
  BY <1>1, WrittenSteps, Zenon
<1>4. \A n \in 0..Len(s) : u[n] \in Seq(C)
  BY NoNewlineWritten
<1> HIDE DEF u, C
<1>5. 0 \in P
  <2>1. QuotesEscaped(<< >>)
    BY DEF QuotesEscaped
  <2>2. QED
    BY <1>1, <1>2, <2>1
<1>6. ASSUME NEW n \in 0..Len(s) - 1, n \in P PROVE n + 1 \in P
  <2> DEFINE v == u[n]
             w == u[n + 1]
             ch == s[n + 1]
             b == Len(v)
  <2>1. n + 1 \in 1..Len(s) /\ n + 1 \in 0..Len(s) /\ n \in 0..Len(s)
    BY <1>1
  <2>2. ch \in AnyChar
    BY <2>1, ElementOfSeq
  <2>3. w = v \o table[ch] /\ v \in Seq(C) /\ QuotesEscaped(v)
    BY <1>3, <1>4, <1>6, <2>1
  <2>4. table[ch] \in Seq(C)
    BY <2>2, PieceIn DEF C
  <2>5. b \in Nat
    BY <2>3, LenProperties
  <2> HIDE DEF v, w, ch
  <2>6. /\ Len(w) = b + Len(table[ch])
        /\ \A i \in 1..b + Len(table[ch]) : w[i] = IF i <= b THEN v[i] ELSE table[ch][i - b]
    BY <2>3, <2>4, Appended
  <2> HIDE DEF b
  <2>7. CASE table[ch] = <<ch>> /\ ch \notin {Quote, Backslash, Newline}
    <3>1. Len(w) = b + 1 /\ w[b + 1] = ch /\ \A i \in 1..b : w[i] = v[i]
      BY <2>5, <2>6, <2>7
    <3>2. Len(v) = b
      BY DEF b
    <3>3. QuotesEscaped(w)
      BY <2>3, <2>5, <2>7, <3>1, <3>2 DEF QuotesEscaped
    <3>4. QED
      BY <2>1, <3>3 DEF w
  <2>8. CASE \E e \in AnyChar \ {Newline, Control} : table[ch] = <<Backslash, e>>
    <3>1. /\ Len(w) = b + 2 /\ w[b + 1] = Backslash
          /\ \A i \in 1..b : w[i] = v[i]
      BY <2>5, <2>6, <2>8
    <3>2. Len(v) = b /\ Backslash # Quote
      BY DEF b, Backslash, Quote
    <3>3. ASSUME NEW j \in 1..Len(w), w[j] = Quote PROVE j > 1 /\ w[j - 1] = Backslash
      <4>1. CASE j \in 1..b
        BY <2>3, <2>5, <3>1, <3>2, <3>3, <4>1 DEF QuotesEscaped
      <4>2. CASE j = b + 1
        BY <3>1, <3>2, <3>3, <4>2
      <4>3. CASE j = b + 2
        <5>1. j - 1 = b + 1 /\ j > 1
          BY <2>5, <4>3
        <5>2. QED
          BY <3>1, <5>1
      <4>4. QED
        BY <2>5, <3>1, <4>1, <4>2, <4>3
    <3>4. QuotesEscaped(w)
      BY <3>3 DEF QuotesEscaped
    <3>5. QED
      BY <2>1, <3>4 DEF w
  <2>9. QED
    BY <2>2, <2>7, <2>8 DEF GoodTable
<1> HIDE DEF P
<1>7. \A n \in 0..Len(s) : n \in P
  BY <1>1, <1>5, <1>6, InductUp
<1>8. QED
  BY <1>1, <1>2, <1>7 DEF P

LEMMA Part ==
  ASSUME NEW S, NEW s \in Seq(S), NEW m \in 1..Len(s) + 1, NEW n \in 0..Len(s), m <= n + 1
  PROVE  /\ SubSeq(s, m, n) \in Seq(S)
         /\ Len(SubSeq(s, m, n)) = n - m + 1
         /\ \A i \in 1..n - m + 1 : SubSeq(s, m, n)[i] = s[m + i - 1]
<1>1. Len(s) \in Nat
  BY LenProperties
<1>2. \A i \in m..n : s[i] \in S
  <2>1. ASSUME NEW i \in m..n PROVE s[i] \in S
    <3>1. i \in 1..Len(s)
      BY <1>1
    <3>2. QED
      BY <3>1, ElementOfSeq
  <2>2. QED
    BY <2>1
<1>3. m \in Int /\ n \in Int
  BY <1>1
<1>4. /\ SubSeq(s, m, n) \in Seq(S)
      /\ Len(SubSeq(s, m, n)) = IF m <= n THEN n - m + 1 ELSE 0
      /\ \A i \in 1..n - m + 1 : SubSeq(s, m, n)[i] = s[m + i - 1]
  BY <1>2, <1>3, SubSeqProperties
<1>5. (IF m <= n THEN n - m + 1 ELSE 0) = n - m + 1
  BY <1>1, <1>3
<1>6. QED
  BY <1>4, <1>5

LEMMA WholePart ==
  ASSUME NEW S, NEW s \in Seq(S)
  PROVE  SubSeq(s, 1, Len(s)) = s
<1> DEFINE v == SubSeq(s, 1, Len(s))
<1>1. Len(s) \in Nat
  BY LenProperties
<1>2. Len(s) \in 0..Len(s) /\ 1 \in 1..Len(s) + 1 /\ 1 <= Len(s) + 1
  BY <1>1
<1>3. /\ v \in Seq(S) /\ Len(v) = Len(s) - 1 + 1
      /\ \A i \in 1..Len(s) - 1 + 1 : v[i] = s[1 + i - 1]
  BY <1>2, Part
<1> HIDE DEF v
<1>4. Len(v) = Len(s) /\ \A i \in 1..Len(s) : v[i] = s[i]
  BY <1>1, <1>3
<1>5. v = s
  BY <1>3, <1>4, SeqEqual
<1>6. QED
  BY <1>5 DEF v

LEMMA LongerPart ==
  ASSUME NEW S, NEW s \in Seq(S), NEW n \in 0..Len(s) - 1
  PROVE  SubSeq(s, 1, n) \o <<s[n + 1]>> = SubSeq(s, 1, n + 1)
<1> DEFINE v == SubSeq(s, 1, n)
           w == SubSeq(s, 1, n + 1)
           p == <<s[n + 1]>>
           x == v \o p
<1>1. Len(s) \in Nat
  BY LenProperties
<1>2. n \in Nat /\ n + 1 \in 1..Len(s) /\ n + 1 \in 0..Len(s) /\ n \in 0..Len(s) /\ 1 \in 1..Len(s) + 1
  BY <1>1
<1>3. v \in Seq(S) /\ Len(v) = n /\ \A i \in 1..n : v[i] = s[i]
  BY <1>2, Part
<1>4. w \in Seq(S) /\ Len(w) = n + 1 /\ \A i \in 1..n + 1 : w[i] = s[i]
  BY <1>2, Part
<1>5. p \in Seq(S) /\ Len(p) = 1 /\ p[1] = s[n + 1]
  BY <1>2, ElementOfSeq
<1> HIDE DEF v, w, p
<1>6. x \in Seq(S)
  BY <1>3, <1>5, ConcatProperties
<1>7. /\ Len(x) = Len(v) + Len(p)
      /\ \A i \in 1..Len(v) + Len(p) : x[i] = IF i <= Len(v) THEN v[i] ELSE p[i - Len(v)]
  BY <1>3, <1>5, Appended
<1> HIDE DEF x
<1>8. Len(x) = n + 1
  BY <1>3, <1>5, <1>7
<1>9. ASSUME NEW i \in 1..n + 1 PROVE x[i] = w[i]
  <2>1. CASE i <= n
    BY <1>2, <1>3, <1>4, <1>5, <1>7, <2>1
  <2>2. CASE i = n + 1
    <3>1. ~(i <= n) /\ i - n = 1
      BY <1>2, <2>2
    <3>2. x[i] = p[i - n]
      BY <1>2, <1>3, <1>5, <1>7, <3>1
    <3>3. QED
      BY <1>4, <1>5, <2>2, <3>1, <3>2
  <2>3. QED
    BY <1>2, <2>1, <2>2
<1>10. x = w
  BY <1>4, <1>6, <1>8, <1>9, SeqEqual
<1>11. QED
  BY <1>10 DEF x, v, w, p

LEMMA EarlierPart ==
  ASSUME NEW S, NEW s \in Seq(S), NEW n \in 0..Len(s) - 1
  PROVE  <<s[n + 1]>> \o SubSeq(s, n + 2, Len(s)) = SubSeq(s, n + 1, Len(s))
<1> DEFINE N == Len(s)
           v == SubSeq(s, n + 2, N)
           w == SubSeq(s, n + 1, N)
           p == <<s[n + 1]>>
           x == p \o v
<1>1. N \in Nat
  BY LenProperties
<1>2. /\ n \in Nat /\ n < N /\ n + 1 \in 1..N + 1 /\ n + 2 \in 1..N + 1 /\ N \in 0..N
      /\ n + 1 <= N + 1 /\ n + 2 <= N + 1 /\ n + 1 \in 1..N
  BY <1>1
<1>3. v \in Seq(S) /\ Len(v) = N - (n + 2) + 1 /\ \A i \in 1..N - (n + 2) + 1 : v[i] = s[n + 2 + i - 1]
  BY <1>2, Part
<1>4. w \in Seq(S) /\ Len(w) = N - (n + 1) + 1 /\ \A i \in 1..N - (n + 1) + 1 : w[i] = s[n + 1 + i - 1]
  BY <1>2, Part
<1>5. p \in Seq(S) /\ Len(p) = 1 /\ p[1] = s[n + 1]
  BY <1>2, ElementOfSeq
<1> HIDE DEF v, w, p
<1>6. x \in Seq(S)
  BY <1>3, <1>5, ConcatProperties
<1>7. /\ Len(x) = Len(p) + Len(v)
      /\ \A i \in 1..Len(p) + Len(v) : x[i] = IF i <= Len(p) THEN p[i] ELSE v[i - Len(p)]
  BY <1>3, <1>5, Appended
<1> HIDE DEF x, N
<1>8. Len(x) = N - n /\ Len(w) = N - n
  BY <1>1, <1>2, <1>3, <1>4, <1>5, <1>7
<1>9. ASSUME NEW i \in 1..N - n PROVE x[i] = w[i]
  <2>1. i \in Nat /\ i \in 1..N - (n + 1) + 1 /\ i \in 1..Len(p) + Len(v)
    BY <1>1, <1>2, <1>7, <1>8
  <2>2. w[i] = s[n + 1 + i - 1] /\ n + 1 + i - 1 = n + i
    BY <1>2, <1>4, <2>1
  <2>3. CASE i = 1
    <3>1. x[i] = s[n + 1]
      BY <1>5, <1>7, <2>1, <2>3
    <3>2. QED
      BY <2>2, <2>3, <3>1
  <2>4. CASE i # 1
    <3> DEFINE k == i - 1
    <3>1. k \in 1..N - (n + 2) + 1 /\ ~(i <= 1) /\ n + 2 + k - 1 = n + i
      BY <1>1, <1>2, <2>1, <2>4
    <3>2. x[i] = v[k]
      BY <1>5, <1>7, <2>1, <3>1
    <3> HIDE DEF k
    <3>3. v[k] = s[n + 2 + k - 1]
      BY <1>3, <3>1
    <3>4. QED
      BY <2>2, <3>1, <3>2, <3>3
  <2>5. QED
    BY <2>3, <2>4
<1>10. x = w
  BY <1>4, <1>6, <1>8, <1>9, SeqEqual
<1>11. QED
  BY <1>10 DEF x, v, w, p, N

(* A text whose characters are all copied is written as it is.             *)
LEMMA Copied ==
  ASSUME NEW s \in Seq(AnyChar), NEW table, \A i \in 1..Len(s) : table[s[i]] = <<s[i]>>
  PROVE  Written(s, table) = s
<1> DEFINE u == WrittenUpTo(s, table)
           P == {n \in 0..Len(s) : u[n] = SubSeq(s, 1, n)}
<1>1. Len(s) \in Nat
  BY LenProperties
<1>2. Written(s, table) = u[Len(s)] /\ u[0] = << >>
  BY <1>1, WrittenSteps, Zenon
<1>3. \A n \in 0..Len(s) - 1 : u[n + 1] = u[n] \o table[s[n + 1]]
  BY <1>1, WrittenSteps, Zenon
<1> HIDE DEF u
<1>4. 0 \in P
  <2>1. SubSeq(s, 1, 0) = << >>
    BY SubSeqEmpty
  <2>2. u[0] = SubSeq(s, 1, 0) /\ 0 \in 0..Len(s)
    BY <1>1, <1>2, <2>1
  <2>3. QED
    BY <2>2, Zenon
<1>5. ASSUME NEW n \in 0..Len(s) - 1, n \in P PROVE n + 1 \in P
  <2>1. n + 1 \in 1..Len(s) /\ n + 1 \in 0..Len(s)
    BY <1>1
  <2>2. u[n + 1] = SubSeq(s, 1, n) \o <<s[n + 1]>>
    BY <1>3, <1>5, <2>1
  <2>3. u[n + 1] = SubSeq(s, 1, n + 1)
    BY <2>2, LongerPart
  <2>4. QED
    BY <2>1, <2>3
<1> HIDE DEF P
<1>6. \A n \in 0..Len(s) : n \in P
  BY <1>1, <1>4, <1>5, InductUp
<1>7. Len(s) \in 0..Len(s)
  BY <1>1
<1>8. u[Len(s)] = SubSeq(s, 1, Len(s))
  BY <1>6, <1>7 DEF P
<1>9. SubSeq(s, 1, Len(s)) = s
  BY WholePart
<1>10. QED
  BY <1>2, <1>8, <1>9

-----------------------------------------------------------------------------
(* What json_get_string takes out of a message.                            *)

Wide == AnyChar \cup {Comma, "first"}

(* Where each part of the message about t, of length L, stands.            *)
Layout(line, t, L) ==
  /\ L \in Nat /\ line \in Seq(Wide) /\ Len(line) = L + 14
  /\ line[1] = Quote /\ line[2] = "first" /\ line[3] = Quote /\ line[4] = Colon /\ line[5] = Quote
  /\ \A k \in 1..L : line[k + 5] = t[k]
  /\ line[L + 6] = Quote /\ line[L + 7] = Comma /\ line[L + 8] = Quote /\ line[L + 9] = Key
  /\ line[L + 10] = Quote /\ line[L + 11] = Colon /\ line[L + 12] = Quote
  /\ line[L + 13] = "a" /\ line[L + 14] = Quote

LEMMA PayloadAt ==
  ASSUME NEW t \in Seq(AnyChar), NEW L, L = Len(t), NEW line, line = payload(t)
  PROVE  Layout(line, t, L)
<1> DEFINE h == <<Quote, "first", Quote, Colon, Quote>>
           q == <<Quote>>
           c == <<Comma>>
           g == <<Quote, Key, Quote, Colon, Quote>>
           f == <<"a">>
           ht == h \o t
           htq == ht \o q
           front == htq \o c
           gf == g \o f
           back == gf \o q
<1>1. L \in Nat
  BY LenProperties
<1>2. h \in Seq(Wide) /\ q \in Seq(Wide) /\ c \in Seq(Wide) /\ g \in Seq(Wide) /\ f \in Seq(Wide)
  BY DEF Wide, AnyChar, Quote, Key, Colon, Comma
<1>3. t \in Seq(Wide)
  <2>1. AnyChar \subseteq Wide
    BY DEF Wide
  <2>2. t \in [1..L -> AnyChar]
    BY LenProperties
  <2>3. t \in [1..L -> Wide]
    BY <2>1, <2>2
  <2>4. QED
    BY <1>1, <2>3
<1>4. line = front \o back
  BY Zenon DEF payload, Field, Follower
<1>5. /\ Len(h) = 5 /\ h[1] = Quote /\ h[2] = "first" /\ h[3] = Quote /\ h[4] = Colon /\ h[5] = Quote
      /\ Len(q) = 1 /\ q[1] = Quote /\ Len(c) = 1 /\ c[1] = Comma
  OBVIOUS
<1>6. /\ Len(g) = 5 /\ g[1] = Quote /\ g[2] = Key /\ g[3] = Quote /\ g[4] = Colon /\ g[5] = Quote
      /\ Len(f) = 1 /\ f[1] = "a"
  OBVIOUS
<1> HIDE DEF h, q, c, g, f
<1>7. /\ ht \in Seq(Wide) /\ Len(ht) = Len(h) + Len(t)
      /\ \A i \in 1..Len(h) + Len(t) : ht[i] = IF i <= Len(h) THEN h[i] ELSE t[i - Len(h)]
  <2>1. ht \in Seq(Wide)
    BY <1>2, <1>3, ConcatProperties
  <2>2. QED
    BY <1>2, <1>3, <2>1, Appended
<1> HIDE DEF ht
<1>8. /\ htq \in Seq(Wide) /\ Len(htq) = Len(ht) + Len(q)
      /\ \A i \in 1..Len(ht) + Len(q) : htq[i] = IF i <= Len(ht) THEN ht[i] ELSE q[i - Len(ht)]
  <2>1. htq \in Seq(Wide)
    BY <1>2, <1>7, ConcatProperties
  <2>2. QED
    BY <1>2, <1>7, <2>1, Appended
<1> HIDE DEF htq
<1>9. /\ front \in Seq(Wide) /\ Len(front) = Len(htq) + Len(c)
      /\ \A i \in 1..Len(htq) + Len(c) : front[i] = IF i <= Len(htq) THEN htq[i] ELSE c[i - Len(htq)]
  <2>1. front \in Seq(Wide)
    BY <1>2, <1>8, ConcatProperties
  <2>2. QED
    BY <1>2, <1>8, <2>1, Appended
<1>10. /\ gf \in Seq(Wide) /\ Len(gf) = Len(g) + Len(f)
       /\ \A i \in 1..Len(g) + Len(f) : gf[i] = IF i <= Len(g) THEN g[i] ELSE f[i - Len(g)]
  <2>1. gf \in Seq(Wide)
    BY <1>2, ConcatProperties
  <2>2. QED
    BY <1>2, <2>1, Appended
<1> HIDE DEF gf, front
<1>11. /\ back \in Seq(Wide) /\ Len(back) = Len(gf) + Len(q)
       /\ \A i \in 1..Len(gf) + Len(q) : back[i] = IF i <= Len(gf) THEN gf[i] ELSE q[i - Len(gf)]
  <2>1. back \in Seq(Wide)
    BY <1>2, <1>10, ConcatProperties
  <2>2. QED
    BY <1>2, <1>10, <2>1, Appended
<1> HIDE DEF back
<1>12. /\ line \in Seq(Wide) /\ Len(line) = Len(front) + Len(back)
       /\ \A i \in 1..Len(front) + Len(back) :
            line[i] = IF i <= Len(front) THEN front[i] ELSE back[i - Len(front)]
  <2>1. line \in Seq(Wide)
    BY <1>4, <1>9, <1>11, ConcatProperties
  <2>2. QED
    BY <1>4, <1>9, <1>11, <2>1, Appended
<1>13. Len(ht) = L + 5 /\ Len(htq) = L + 6 /\ Len(front) = L + 7
  BY <1>1, <1>5, <1>7, <1>8, <1>9
<1>14. Len(gf) = 6 /\ Len(back) = 7 /\ Len(line) = L + 14
  BY <1>1, <1>5, <1>6, <1>10, <1>11, <1>12, <1>13
<1>15. \A i \in 1..L + 5 : line[i] = ht[i]
  BY <1>1, <1>5, <1>8, <1>9, <1>12, <1>13, <1>14
<1>16. \A i \in 1..5 : ht[i] = h[i]
  BY <1>1, <1>5, <1>7
<1>17. /\ line[1] = Quote /\ line[2] = "first" /\ line[3] = Quote /\ line[4] = Colon
       /\ line[5] = Quote
  BY <1>1, <1>5, <1>15, <1>16
<1>18. ASSUME NEW k \in 1..L PROVE line[k + 5] = t[k]
  <2> DEFINE i == k + 5
  <2>1. i \in 1..L + 5 /\ ~(i <= 5) /\ i - 5 = k
    BY <1>1
  <2> HIDE DEF i
  <2>2. line[i] = t[i - 5]
    BY <1>5, <1>7, <1>13, <1>15, <2>1
  <2>3. line[i] = t[k]
    BY <2>1, <2>2
  <2>4. QED
    BY <2>3 DEF i
<1>19. line[L + 6] = Quote
  <2>1. L + 6 \in 1..L + 7 /\ ~(L + 6 <= L + 5) /\ L + 6 - (L + 5) = 1
    BY <1>1
  <2>2. line[L + 6] = front[L + 6] /\ front[L + 6] = htq[L + 6]
    BY <1>1, <1>5, <1>9, <1>12, <1>13, <1>14
  <2>3. L + 6 \in 1..Len(ht) + Len(q)
    BY <1>1, <1>5, <1>13
  <2>4. htq[L + 6] = q[L + 6 - (L + 5)]
    BY <1>8, <1>13, <2>1, <2>3
  <2>5. QED
    BY <1>5, <2>1, <2>2, <2>4
<1>20. line[L + 7] = Comma
  <2>1. L + 7 \in 1..L + 7 /\ ~(L + 7 <= L + 6) /\ L + 7 - (L + 6) = 1
    BY <1>1
  <2>2. line[L + 7] = c[L + 7 - (L + 6)]
    BY <1>1, <1>5, <1>9, <1>12, <1>13, <1>14, <2>1
  <2>3. QED
    BY <1>5, <2>1, <2>2
<1>21. ASSUME NEW k \in 1..7 PROVE line[L + 7 + k] = back[k]
  <2> DEFINE i == L + 7 + k
  <2>1. i \in 1..L + 14 /\ ~(i <= L + 7) /\ i - (L + 7) = k
    BY <1>1
  <2> HIDE DEF i
  <2>2. i \in 1..Len(front) + Len(back)
    BY <1>1, <1>13, <1>14, <2>1
  <2>3. line[i] = back[i - (L + 7)]
    BY <1>12, <1>13, <2>1, <2>2
  <2>4. line[i] = back[k]
    BY <2>1, <2>3
  <2>5. QED
    BY <2>4 DEF i
<1>22. /\ back[1] = Quote /\ back[2] = Key /\ back[3] = Quote /\ back[4] = Colon
       /\ back[5] = Quote
  BY <1>5, <1>6, <1>10, <1>11, <1>14
<1>23. back[6] = "a" /\ back[7] = Quote
  BY <1>5, <1>6, <1>10, <1>11, <1>14
<1>24. /\ L + 7 + 1 = L + 8 /\ L + 7 + 2 = L + 9 /\ L + 7 + 3 = L + 10 /\ L + 7 + 4 = L + 11
       /\ L + 7 + 5 = L + 12 /\ L + 7 + 6 = L + 13 /\ L + 7 + 7 = L + 14
  BY <1>1
<1>25. /\ line[L + 8] = Quote /\ line[L + 9] = Key /\ line[L + 10] = Quote /\ line[L + 11] = Colon
       /\ line[L + 12] = Quote /\ line[L + 13] = "a" /\ line[L + 14] = Quote
  BY <1>21, <1>22, <1>23, <1>24
<1>26. QED
  BY <1>1, <1>12, <1>14, <1>17, <1>18, <1>19, <1>20, <1>25 DEF Layout

(* A match of the regular expression from i to the quote at j.             *)
MatchesAt(line, key, i, j) ==
  /\ SubSeq(line, i, i + 4) = <<Quote, key, Quote, Colon, Quote>>
  /\ j >= i + 5 /\ line[j] = Quote

LEMMA MatchAt ==
  ASSUME NEW line \in Seq(Wide), NEW key \in Wide, NEW i \in 1..Len(line) - 5, NEW j \in Nat
  PROVE  MatchesAt(line, key, i, j) <=>
           /\ line[i] = Quote /\ line[i + 1] = key /\ line[i + 2] = Quote
           /\ line[i + 3] = Colon /\ line[i + 4] = Quote
           /\ j >= i + 5 /\ line[j] = Quote
<1> DEFINE v == SubSeq(line, i, i + 4)
           p == <<Quote, key, Quote, Colon, Quote>>
<1>1. Len(line) \in Nat
  BY LenProperties
<1>2. i \in Nat /\ i \in 1..Len(line) + 1 /\ i + 4 \in 0..Len(line) /\ i <= i + 4 + 1
  BY <1>1
<1>3. /\ v \in Seq(Wide) /\ Len(v) = i + 4 - i + 1
      /\ \A k \in 1..i + 4 - i + 1 : v[k] = line[i + k - 1]
  BY <1>2, Part
<1>4. p \in Seq(Wide) /\ Len(p) = 5
  BY DEF Wide, AnyChar, Quote, Colon
<1>5. p[1] = Quote /\ p[2] = key /\ p[3] = Quote /\ p[4] = Colon /\ p[5] = Quote
  OBVIOUS
<1> HIDE DEF v, p
<1>6. i + 4 - i + 1 = 5
  BY <1>2
<1>7. Len(v) = 5 /\ \A k \in 1..5 : v[k] = line[i + k - 1]
  BY <1>3, <1>6
<1>8. i + 1 - 1 = i /\ i + 2 - 1 = i + 1 /\ i + 3 - 1 = i + 2 /\ i + 4 - 1 = i + 3 /\ i + 5 - 1 = i + 4
  BY <1>2
<1>9. /\ v[1] = line[i] /\ v[2] = line[i + 1] /\ v[3] = line[i + 2] /\ v[4] = line[i + 3]
      /\ v[5] = line[i + 4]
  BY <1>7, <1>8
<1>10. v = p <=> \A k \in 1..5 : v[k] = p[k]
  BY <1>3, <1>4, <1>7, SeqEqual
<1>11. (\A k \in 1..5 : v[k] = p[k]) <=>
         v[1] = p[1] /\ v[2] = p[2] /\ v[3] = p[3] /\ v[4] = p[4] /\ v[5] = p[5]
  OBVIOUS
<1>12. v = p <=> /\ line[i] = Quote /\ line[i + 1] = key /\ line[i + 2] = Quote
                 /\ line[i + 3] = Colon /\ line[i + 4] = Quote
  BY <1>5, <1>9, <1>10, <1>11
<1>13. MatchesAt(line, key, i, j) <=> v = p /\ j >= i + 5 /\ line[j] = Quote
  BY DEF MatchesAt, v, p
<1>14. QED
  BY <1>12, <1>13

(* The leftmost match, up to the first quote, is what is taken out.        *)
LEMMA TakenOut ==
  ASSUME NEW line, Len(line) \in Nat, NEW key,
         NEW i \in 1..Len(line) - 5, NEW j \in 1..Len(line), MatchesAt(line, key, i, j),
         \A m \in 1..Len(line) - 5 : \A n \in 1..Len(line) : MatchesAt(line, key, m, n) => i <= m,
         \A n \in 1..Len(line) : MatchesAt(line, key, i, n) => j <= n
  PROVE  json_get_string(line, key) = SubSeq(line, i + 5, j - 1)
<1> DEFINE starts == {m \in 1..Len(line) - 5 : \E n \in 1..Len(line) : MatchesAt(line, key, m, n)}
           first == CHOOSE n \in starts : \A m \in starts : n <= m
           ends == {n \in 1..Len(line) : MatchesAt(line, key, first, n)}
           last == CHOOSE n \in ends : \A m \in ends : n <= m
<1>1. json_get_string(line, key) = SubSeq(line, first + 5, last - 1)
  BY DEF json_get_string, MatchesAt
<1>2. i \in starts /\ \A m \in starts : i <= m
  OBVIOUS
<1>3. \A m \in starts : m \in Nat
  OBVIOUS
<1>4. first \in starts /\ \A m \in starts : first <= m
  <2> HIDE DEF starts
  <2>1. QED
    BY <1>2
<1>5. first = i
  <2> HIDE DEF starts, first
  <2>1. QED
    BY <1>2, <1>3, <1>4
<1> HIDE DEF first, starts
<1>6. j \in ends /\ \A m \in ends : j <= m
  BY <1>5
<1>7. \A m \in ends : m \in Nat
  OBVIOUS
<1>8. last \in ends /\ \A m \in ends : last <= m
  <2> HIDE DEF ends
  <2>1. QED
    BY <1>6
<1>9. last = j
  <2> HIDE DEF ends, last
  <2>1. QED
    BY <1>6, <1>7, <1>8
<1> HIDE DEF last, ends
<1>10. QED
  BY <1>1, <1>5, <1>9

(* The field behind the text is the one that was written there.            *)
LEMMA FollowerTaken ==
  ASSUME NEW t \in Seq(AnyChar), QuotesEscaped(t)
  PROVE  json_get_string(payload(t), Key) = Follower
<1> DEFINE L == Len(t)
           line == payload(t)
           i == L + 8
           j == L + 14
<1>1. /\ L \in Nat /\ line \in Seq(Wide) /\ Len(line) = L + 14 /\ L = Len(t)
      /\ Layout(line, t, L)
  <2>1. Layout(line, t, L)
    BY PayloadAt
  <2>2. QED
    BY <2>1 DEF Layout
<1> HIDE DEF L, line
<1>2. Key \in Wide /\ Key # "first" /\ Key # Quote /\ Key # Colon /\ Key # Comma /\ Key # Backslash
  BY DEF Wide, AnyChar, Key, Quote, Colon, Comma, Backslash
<1>3. Comma # Colon /\ "a" # Quote
  BY DEF Comma, Colon, Quote
<1>4. i \in 1..Len(line) - 5 /\ j \in 1..Len(line)
  BY <1>1
<1>5. MatchesAt(line, Key, i, j)
  <2>1. /\ i + 1 = L + 9 /\ i + 2 = L + 10 /\ i + 3 = L + 11 /\ i + 4 = L + 12
        /\ j >= i + 5
    BY <1>1
  <2>2. /\ line[i] = Quote /\ line[i + 1] = Key /\ line[i + 2] = Quote
        /\ line[i + 3] = Colon /\ line[i + 4] = Quote
        /\ j >= i + 5 /\ line[j] = Quote
    BY <1>1, <2>1 DEF Layout
  <2>3. j \in Nat
    BY <1>1
  <2> HIDE DEF i, j
  <2>4. QED
    BY <1>1, <1>2, <1>4, <2>2, <2>3, MatchAt
<1>6. ASSUME NEW m \in 1..Len(line) - 5, NEW n \in 1..Len(line), MatchesAt(line, Key, m, n)
      PROVE  i <= m
  <2>0. n \in Nat
    BY <1>1
  <2>1. line[m + 1] = Key /\ line[m + 2] = Quote /\ line[m + 3] = Colon
    BY <1>1, <1>2, <1>6, <2>0, MatchAt
  <2>2. SUFFICES ASSUME m < L + 8 PROVE FALSE
    BY <1>1
  <2>3. m \in Nat /\ m >= 1
    BY <1>1
  <2>4. CASE m \in 1..4
    <3>1. m + 1 = 2 \/ m + 1 = 3 \/ m + 1 = 4 \/ m + 1 = 5
      BY <2>4
    <3>2. QED
      BY <1>1, <1>2, <2>1, <3>1 DEF Layout
  <2>5. CASE m >= 5 /\ m <= L + 4
    <3> DEFINE k == m - 4
    <3>1. k \in 1..L /\ k + 5 = m + 1
      BY <1>1, <2>3, <2>5
    <3>2. t[k] = Key
      BY <1>1, <2>1, <3>1 DEF Layout
    <3>3. CASE k = L
      <4>1. m + 3 = L + 7
        BY <1>1, <2>3, <3>3
      <4>2. QED
        BY <1>1, <1>3, <2>1, <4>1 DEF Layout
    <3>4. CASE k # L
      <4> DEFINE d == k + 1
      <4>1. d \in 1..L /\ d + 5 = m + 2 /\ d - 1 = k
        BY <1>1, <2>3, <3>1, <3>4
      <4> HIDE DEF d, k
      <4>2. t[d] = Quote
        BY <1>1, <2>1, <4>1 DEF Layout
      <4>3. t[d - 1] = Backslash
        BY <1>1, <4>1, <4>2 DEF QuotesEscaped
      <4>4. QED
        BY <1>2, <3>2, <4>1, <4>3
    <3>5. QED
      BY <3>3, <3>4
  <2>6. CASE m >= L + 5
    <3>1. m + 1 = L + 6 \/ m + 1 = L + 7 \/ m + 1 = L + 8
      BY <1>1, <2>2, <2>3, <2>6
    <3>2. QED
      BY <1>1, <1>2, <2>1, <3>1 DEF Layout
  <2>7. QED
    BY <1>1, <2>3, <2>4, <2>5, <2>6
<1>7. ASSUME NEW n \in 1..Len(line), MatchesAt(line, Key, i, n) PROVE j <= n
  <2>1. n >= i + 5 /\ line[n] = Quote
    BY <1>7 DEF MatchesAt
  <2>2. n \in L + 13..L + 14
    BY <1>1, <2>1
  <2>3. n # L + 13
    BY <1>1, <1>3, <2>1 DEF Layout
  <2>4. QED
    BY <1>1, <2>2, <2>3
<1>8. Len(line) \in Nat
  BY <1>1
<1>9. json_get_string(line, Key) = SubSeq(line, i + 5, j - 1)
  <2> HIDE DEF i, j
  <2>1. QED
    BY <1>4, <1>5, <1>6, <1>7, <1>8, TakenOut
<1>10. i + 5 = L + 13 /\ j - 1 = L + 13
  BY <1>1
<1>11. SubSeq(line, L + 13, L + 13) = <<"a">>
  <2> DEFINE b == L + 13
             v == SubSeq(line, b, b)
             f == <<"a">>
  <2>1. b \in 1..Len(line) + 1 /\ b \in 0..Len(line) /\ b <= b + 1 /\ b - b + 1 = 1 /\ b + 1 - 1 = b
    BY <1>1
  <2>2. f \in Seq(Wide) /\ Len(f) = 1 /\ f[1] = "a"
    BY DEF Wide, AnyChar
  <2>3. line[b] = "a"
    BY <1>1 DEF Layout
  <2> HIDE DEF b, f
  <2>4. /\ v \in Seq(Wide) /\ Len(v) = b - b + 1
        /\ \A k \in 1..b - b + 1 : v[k] = line[b + k - 1]
    BY <1>1, <2>1, Part
  <2> HIDE DEF v
  <2>5. Len(v) = 1 /\ v[1] = "a"
    BY <2>1, <2>3, <2>4
  <2>6. \A k \in 1..Len(v) : v[k] = f[k]
    BY <2>2, <2>5
  <2>7. v = f
    BY <2>2, <2>4, <2>5, <2>6, SeqEqual
  <2>8. QED
    BY <2>7 DEF v, b, f
<1>12. json_get_string(line, Key) = <<"a">>
  BY <1>9, <1>10, <1>11
<1>13. QED
  BY <1>12 DEF line, Follower

LEMMA Least ==
  ASSUME NEW S, S \subseteq Nat, S # {}
  PROVE  \E i \in S : \A j \in S : i <= j
<1>1. PICK i \in S : \A j \in S : ~(<<j, i>> \in OpToRel(<, Nat))
  BY NatLessThanWellFounded, WFMin
<1>2. ASSUME NEW j \in S PROVE i <= j
  <2>1. i \in Nat /\ j \in Nat
    OBVIOUS
  <2>2. ~(j < i)
    BY <1>1, <2>1 DEF OpToRel
  <2>3. QED
    BY <2>1, <2>2
<1>3. QED
  BY <1>2

LEMMA WiderSeq ==
  ASSUME NEW A, NEW B, A \subseteq B, NEW t \in Seq(A)
  PROVE  t \in Seq(B)
<1>1. Len(t) \in Nat /\ t \in [1..Len(t) -> A]
  BY LenProperties
<1>2. t \in [1..Len(t) -> B]
  BY <1>1
<1>3. QED
  BY <1>1, <1>2

(* The text is stored up to its first quote, so whole if it has none.      *)
LEMMA FirstTaken ==
  ASSUME NEW A, A \subseteq AnyChar, NEW t \in Seq(A)
  PROVE  /\ json_get_string(payload(t), "first") \in Seq(A)
         /\ (\A k \in 1..Len(t) : t[k] # Quote) => json_get_string(payload(t), "first") = t
<1> DEFINE L == Len(t)
           line == payload(t)
           E == {n \in 1..Len(line) : MatchesAt(line, "first", 1, n)}
<1>1. t \in Seq(AnyChar) /\ t \in Seq(Wide)
  BY WiderSeq DEF Wide
<1>2. /\ L \in Nat /\ line \in Seq(Wide) /\ Len(line) = L + 14 /\ L = Len(t)
      /\ Layout(line, t, L)
  <2>1. Layout(line, t, L)
    BY <1>1, PayloadAt
  <2>2. QED
    BY <2>1 DEF Layout
<1> HIDE DEF L, line
<1>3. "first" \in Wide /\ 1 \in 1..Len(line) - 5
  BY <1>2 DEF Wide
<1>4. 1 + 1 = 2 /\ 1 + 2 = 3 /\ 1 + 3 = 4 /\ 1 + 4 = 5 /\ 1 + 5 = 6
  OBVIOUS
<1>5. \A n \in Nat : MatchesAt(line, "first", 1, n) <=> n >= 6 /\ line[n] = Quote
  <2>1. TAKE n \in Nat
  <2> DEFINE one == 1
  <2>2. /\ one \in 1..Len(line) - 5
        /\ one + 1 = 2 /\ one + 2 = 3 /\ one + 3 = 4 /\ one + 4 = 5 /\ one + 5 = 6
    BY <1>3
  <2>3. /\ line[one] = Quote /\ line[2] = "first" /\ line[3] = Quote
        /\ line[4] = Colon /\ line[5] = Quote
    BY <1>2 DEF Layout
  <2> HIDE DEF one
  <2>4. MatchesAt(line, "first", one, n) <=>
          /\ line[one] = Quote /\ line[one + 1] = "first" /\ line[one + 2] = Quote
          /\ line[one + 3] = Colon /\ line[one + 4] = Quote
          /\ n >= one + 5 /\ line[n] = Quote
    BY <1>2, <1>3, <2>2, MatchAt, Zenon
  <2>5. MatchesAt(line, "first", one, n) <=> n >= 6 /\ line[n] = Quote
    BY <2>2, <2>3, <2>4
  <2>6. QED
    BY <2>5 DEF one
<1>6. L + 6 \in E
  <2>1. L + 6 >= 6 /\ L + 6 \in 1..Len(line) /\ line[L + 6] = Quote
    BY <1>2 DEF Layout
  <2>2. MatchesAt(line, "first", 1, L + 6)
    BY <1>5, <2>1
  <2>3. QED
    BY <2>1, <2>2
<1>7. PICK j \in E : \A n \in E : j <= n
  <2>1. E \subseteq Nat /\ E # {}
    BY <1>6
  <2> HIDE DEF E
  <2>2. QED
    BY <2>1, Least
<1>8. /\ j \in 1..Len(line) /\ MatchesAt(line, "first", 1, j)
      /\ j \in 6..L + 6 /\ line[j] = Quote
  BY <1>2, <1>5, <1>6, <1>7
<1>9. json_get_string(line, "first") = SubSeq(line, 1 + 5, j - 1)
  <2>1. \A n \in 1..Len(line) : MatchesAt(line, "first", 1, n) => j <= n
    BY <1>7
  <2>2. \A m \in 1..Len(line) - 5 : \A n \in 1..Len(line) : MatchesAt(line, "first", m, n) => 1 <= m
    BY <1>2
  <2>3. Len(line) \in Nat
    BY <1>2
  <2>4. QED
    BY <1>3, <1>8, <2>1, <2>2, <2>3, TakenOut
<1> DEFINE k == j - 6
           v == SubSeq(line, 6, j - 1)
           w == SubSeq(t, 1, k)
<1>10. /\ k \in 0..L /\ 6 \in 1..Len(line) + 1 /\ j - 1 \in 0..Len(line) /\ 6 <= j - 1 + 1
       /\ j - 1 - 6 + 1 = k /\ 1 \in 1..L + 1 /\ 1 <= k + 1 /\ k - 1 + 1 = k
  BY <1>2, <1>8
<1>11. v \in Seq(Wide) /\ Len(v) = k /\ \A i \in 1..k : v[i] = line[6 + i - 1]
  <2> HIDE DEF v, k
  <2>1. /\ v \in Seq(Wide) /\ Len(v) = j - 1 - 6 + 1
        /\ \A i \in 1..j - 1 - 6 + 1 : v[i] = line[6 + i - 1]
    BY <1>2, <1>10, Part DEF v
  <2>2. QED
    BY <1>10, <2>1
<1> HIDE DEF k
<1>12. w \in Seq(A) /\ Len(w) = k /\ \A i \in 1..k : w[i] = t[i]
  <2> HIDE DEF w
  <2>1. /\ w \in Seq(A) /\ Len(w) = k - 1 + 1
        /\ \A i \in 1..k - 1 + 1 : w[i] = t[1 + i - 1]
    BY <1>2, <1>10, Part DEF w
  <2>2. \A i \in 1..k : 1 + i - 1 = i
    BY <1>10
  <2>3. QED
    BY <1>10, <2>1, <2>2
<1> HIDE DEF v, w
<1>13. ASSUME NEW i \in 1..k PROVE v[i] = w[i]
  <2>1. i \in 1..L /\ 6 + i - 1 = i + 5
    BY <1>2, <1>10
  <2>2. line[i + 5] = t[i]
    BY <1>2, <2>1 DEF Layout
  <2>3. QED
    BY <1>11, <1>12, <2>1, <2>2
<1>14. v = w
  <2>1. w \in Seq(Wide)
    BY <1>12, WiderSeq DEF Wide
  <2>2. Len(v) = Len(w) /\ \A i \in 1..Len(v) : v[i] = w[i]
    BY <1>11, <1>12, <1>13
  <2>3. QED
    BY <1>11, <2>1, <2>2, SeqEqual
<1>15. json_get_string(line, "first") = w
  BY <1>4, <1>9, <1>14 DEF v
<1>16. ASSUME \A i \in 1..L : t[i] # Quote PROVE w = t
  <2>1. j = L + 6
    <3>1. SUFFICES ASSUME j # L + 6 PROVE FALSE
      OBVIOUS
    <3> DEFINE i == j - 5
    <3>2. i \in 1..L /\ i + 5 = j
      BY <1>2, <1>8, <3>1
    <3> HIDE DEF i
    <3>3. line[i + 5] = t[i]
      BY <1>2, <3>2 DEF Layout
    <3>4. QED
      BY <1>8, <1>16, <3>2, <3>3
  <2>2. k = Len(t)
    BY <1>2, <2>1 DEF k
  <2>3. QED
    BY <2>2, WholePart DEF w
<1>17. json_get_string(line, "first") \in Seq(A)
  BY <1>12, <1>15
<1>18. QED
  BY <1>15, <1>16, <1>17 DEF line, L

-----------------------------------------------------------------------------
(* json.loads undoes escape_json.                                          *)

(* What json.loads makes of s from i on, given what it makes of the rest.  *)
Decoded(s, from, i) ==
  IF i > Len(s) THEN << >>
  ELSE IF s[i] = Backslash
       THEN IF i < Len(s) /\ s[i + 1] \in DOMAIN Unescaped
            THEN IF from[i + 2] = Invalid THEN Invalid ELSE <<Unescaped[s[i + 1]]>> \o from[i + 2]
            ELSE Invalid
       ELSE IF s[i] \in {Quote, Newline, Control} THEN Invalid
            ELSE IF from[i + 1] = Invalid THEN Invalid ELSE <<s[i]>> \o from[i + 1]

DecodedFrom(s) == CHOOSE from : from = [i \in 1..Len(s) + 1 |-> Decoded(s, from, i)]

LEMMA LoadsIsDecoded ==
  ASSUME NEW s
  PROVE  loads(s) = DecodedFrom(s)[1]
BY DEF loads, DecodedFrom, Decoded

LEMMA DecodedLocal ==
  ASSUME NEW s, Len(s) \in Nat, NEW g, NEW h, NEW i \in Nat,
         i <= Len(s) => g[i + 1] = h[i + 1], i < Len(s) => g[i + 2] = h[i + 2]
  PROVE  Decoded(s, g, i) = Decoded(s, h, i)
<1>1. CASE i > Len(s)
  BY <1>1 DEF Decoded
<1>2. CASE i = Len(s)
  <2>1. ~(i > Len(s)) /\ ~(i < Len(s)) /\ i <= Len(s)
    BY <1>2
  <2>2. QED
    BY <2>1 DEF Decoded
<1>3. CASE i < Len(s)
  <2>1. ~(i > Len(s)) /\ i <= Len(s)
    BY <1>3
  <2>2. QED
    BY <1>3, <2>1 DEF Decoded
<1>4. QED
  BY <1>1, <1>2, <1>3

LEMMA DecodedSteps ==
  ASSUME NEW s, Len(s) \in Nat
  PROVE  \A i \in 1..Len(s) + 1 : DecodedFrom(s)[i] = Decoded(s, DecodedFrom(s), i)
<1> DEFINE N == Len(s)
           P == {k \in 0..N : \E g : g = [i \in k + 1..N + 1 |-> Decoded(s, g, i)]}
<1> HIDE DEF N
<1>1. N \in Nat /\ N = Len(s)
  BY DEF N
<1>2. N \in P
  <2> DEFINE g == [i \in N + 1..N + 1 |-> << >>]
  <2>1. ASSUME NEW i \in N + 1..N + 1 PROVE Decoded(s, g, i) = << >>
    <3>1. i > Len(s)
      BY <1>1
    <3>2. QED
      BY <3>1 DEF Decoded
  <2>2. g = [i \in N + 1..N + 1 |-> Decoded(s, g, i)]
    BY <2>1
  <2>3. N \in 0..N
    BY <1>1
  <2> HIDE DEF g
  <2>4. QED
    BY <2>2, <2>3
<1>3. ASSUME NEW n \in 0..N - 1, n + 1 \in P PROVE n \in P
  <2> DEFINE m == n + 1
  <2>1. m \in 1..N /\ m + 1 \in 1..N + 1 /\ n \in 0..N /\ m \in Nat
    BY <1>1
  <2>2. m \in P
    BY <1>3
  <2>3. n + 1..N + 1 = m..N + 1
    OBVIOUS
  <2> HIDE DEF m
  <2>4. PICK g : g = [i \in m + 1..N + 1 |-> Decoded(s, g, i)]
    BY <2>2
  <2> DEFINE h == [i \in m..N + 1 |-> Decoded(s, g, i)]
  <2>5. ASSUME NEW i \in m..N + 1 PROVE Decoded(s, g, i) = Decoded(s, h, i)
    <3> DEFINE k == i + 1
               l == i + 2
    <3>1. i \in Nat
      BY <1>1, <2>1
    <3>2. ASSUME i <= Len(s) PROVE g[k] = h[k]
      <4>1. k \in m + 1..N + 1 /\ k \in m..N + 1
        BY <1>1, <2>1, <3>1, <3>2
      <4> HIDE DEF k
      <4>2. g[k] = Decoded(s, g, k) /\ h[k] = Decoded(s, g, k)
        BY <2>4, <4>1
      <4>3. QED
        BY <4>2
    <3>3. ASSUME i < Len(s) PROVE g[l] = h[l]
      <4>1. l \in m + 1..N + 1 /\ l \in m..N + 1
        BY <1>1, <2>1, <3>1, <3>3
      <4> HIDE DEF l
      <4>2. g[l] = Decoded(s, g, l) /\ h[l] = Decoded(s, g, l)
        BY <2>4, <4>1
      <4>3. QED
        BY <4>2
    <3> HIDE DEF h
    <3>4. QED
      BY <3>1, <3>2, <3>3, DecodedLocal
  <2>6. h = [i \in m..N + 1 |-> Decoded(s, h, i)]
    BY <2>5
  <2> HIDE DEF h
  <2>7. h = [i \in n + 1..N + 1 |-> Decoded(s, h, i)]
    BY <2>6 DEF m
  <2>8. QED
    BY <2>1, <2>7
<1> HIDE DEF P
<1>4. \A k \in 0..N : k \in P
  BY <1>1, <1>2, <1>3, InductDown
<1>5. PICK g : g = [i \in 0 + 1..N + 1 |-> Decoded(s, g, i)]
  BY <1>1, <1>4 DEF P
<1>6. g = [i \in 1..Len(s) + 1 |-> Decoded(s, g, i)]
  BY <1>1, <1>5
<1>7. DecodedFrom(s) = [i \in 1..Len(s) + 1 |-> Decoded(s, DecodedFrom(s), i)]
  BY <1>6 DEF DecodedFrom
<1> DEFINE f == DecodedFrom(s)
<1> HIDE DEF f
<1>8. f = [i \in 1..Len(s) + 1 |-> Decoded(s, f, i)]
  BY <1>7 DEF f
<1>9. \A i \in 1..Len(s) + 1 : f[i] = Decoded(s, f, i)
  BY <1>8
<1>10. QED
  BY <1>9 DEF f

(* Where each character's replacement stands in what is written.           *)
Placed(s, table, u, e) ==
  /\ e \in Seq(AnyChar) /\ e = u[Len(s)] /\ u[0] = << >>
  /\ \A n \in 0..Len(s) - 1 :
       /\ Len(u[n]) \in Nat
       /\ Len(u[n + 1]) = Len(u[n]) + Len(table[s[n + 1]])
       /\ Len(u[n + 1]) <= Len(e)
       /\ \A k \in 1..Len(table[s[n + 1]]) : e[Len(u[n]) + k] = table[s[n + 1]][k]

LEMMA WrittenAt ==
  ASSUME NEW s \in Seq(AnyChar), NEW table, GoodTable(table), NEW u, u = WrittenUpTo(s, table),
         NEW e, e = Written(s, table)
  PROVE  Placed(s, table, u, e)
<1> DEFINE N == Len(s)
           P == {n \in 0..N : Len(u[n]) <= Len(e) /\ \A j \in 1..Len(u[n]) : e[j] = u[n][j]}
<1>1. N \in Nat
  BY LenProperties
<1>2. e = u[N] /\ u[0] = << >>
  BY <1>1, WrittenSteps, Zenon
<1>3. \A n \in 0..N - 1 : u[n + 1] = u[n] \o table[s[n + 1]]
  BY <1>1, WrittenSteps, Zenon
<1>4. \A n \in 0..N : u[n] \in Seq(AnyChar)
  <2>1. AnyChar \ {Newline} \subseteq AnyChar
    OBVIOUS
  <2>2. \A n \in 0..N : u[n] \in Seq(AnyChar \ {Newline})
    BY NoNewlineWritten
  <2>3. QED
    BY <2>1, <2>2, WiderSeq
<1>5. \A n \in 0..N : Len(u[n]) \in Nat
  BY <1>4, LenProperties
<1>6. ASSUME NEW n \in 0..N - 1
      PROVE  /\ table[s[n + 1]] \in Seq(AnyChar)
             /\ Len(table[s[n + 1]]) \in Nat
             /\ Len(u[n + 1]) = Len(u[n]) + Len(table[s[n + 1]])
             /\ \A i \in 1..Len(u[n]) + Len(table[s[n + 1]]) :
                  u[n + 1][i] = IF i <= Len(u[n]) THEN u[n][i] ELSE table[s[n + 1]][i - Len(u[n])]
  <2> DEFINE p == table[s[n + 1]]
             v == u[n]
             w == u[n + 1]
  <2>1. n \in 0..N /\ n + 1 \in 1..Len(s)
    BY <1>1
  <2>2. p \in Seq(AnyChar)
    <3>1. s[n + 1] \in AnyChar
      BY <2>1, ElementOfSeq
    <3>2. p \in Seq(AnyChar \ {Newline}) /\ AnyChar \ {Newline} \subseteq AnyChar
      BY <3>1, PieceIn
    <3> HIDE DEF p
    <3>3. QED
      BY <3>2, WiderSeq
  <2>3. v \in Seq(AnyChar) /\ w = v \o p
    BY <1>3, <1>4, <2>1
  <2> HIDE DEF p, v, w
  <2>4. Len(p) \in Nat
    BY <2>2, LenProperties
  <2>5. /\ Len(w) = Len(v) + Len(p)
        /\ \A i \in 1..Len(v) + Len(p) : w[i] = IF i <= Len(v) THEN v[i] ELSE p[i - Len(v)]
    BY <2>2, <2>3, Appended
  <2>6. QED
    BY <2>2, <2>4, <2>5 DEF p, v, w
<1> HIDE DEF N
<1>7. N \in P
  <2>1. N \in 0..N
    BY <1>1
  <2>2. Len(u[N]) <= Len(e)
    BY <1>2, <1>5, <2>1
  <2>3. \A j \in 1..Len(u[N]) : e[j] = u[N][j]
    BY <1>2
  <2>4. QED
    BY <2>1, <2>2, <2>3
<1>8. Len(e) \in Nat
  BY <1>1, <1>2, <1>5
<1>9. ASSUME NEW n \in 0..N - 1, n + 1 \in P PROVE n \in P
  <2> DEFINE p == table[s[n + 1]]
             v == u[n]
             w == u[n + 1]
  <2>1. n \in 0..N
    BY <1>1
  <2>2. /\ Len(w) = Len(v) + Len(p) /\ Len(p) \in Nat /\ Len(v) \in Nat
        /\ \A i \in 1..Len(v) + Len(p) : w[i] = IF i <= Len(v) THEN v[i] ELSE p[i - Len(v)]
    BY <1>5, <1>6, <2>1
  <2>3. Len(w) <= Len(e) /\ \A j \in 1..Len(w) : e[j] = w[j]
    BY <1>9
  <2> HIDE DEF p, v, w
  <2>4. Len(v) <= Len(e)
    BY <1>8, <2>2, <2>3
  <2>5. \A j \in 1..Len(v) : e[j] = v[j]
    BY <2>2, <2>3
  <2>6. QED
    BY <2>1, <2>4, <2>5 DEF v
<1> HIDE DEF P
<1>10. \A n \in 0..N : n \in P
  BY <1>1, <1>7, <1>9, InductDown
<1>11. ASSUME NEW n \in 0..N - 1
       PROVE  /\ Len(u[n]) \in Nat
              /\ Len(u[n + 1]) = Len(u[n]) + Len(table[s[n + 1]])
              /\ Len(u[n + 1]) <= Len(e)
              /\ \A k \in 1..Len(table[s[n + 1]]) : e[Len(u[n]) + k] = table[s[n + 1]][k]
  <2> DEFINE p == table[s[n + 1]]
             v == u[n]
             w == u[n + 1]
  <2>1. n \in 0..N /\ n + 1 \in 0..N
    BY <1>1
  <2>2. /\ Len(w) = Len(v) + Len(p) /\ Len(p) \in Nat /\ Len(v) \in Nat
        /\ \A i \in 1..Len(v) + Len(p) : w[i] = IF i <= Len(v) THEN v[i] ELSE p[i - Len(v)]
    BY <1>5, <1>6, <2>1
  <2>3. Len(w) <= Len(e) /\ \A j \in 1..Len(w) : e[j] = w[j]
    BY <1>10, <2>1 DEF P
  <2> HIDE DEF p, v, w
  <2>4. ASSUME NEW k \in 1..Len(p) PROVE e[Len(v) + k] = p[k]
    <3> DEFINE i == Len(v) + k
    <3>1. i \in 1..Len(v) + Len(p) /\ ~(i <= Len(v)) /\ i - Len(v) = k
      BY <2>2
    <3> HIDE DEF i
    <3>2. w[i] = p[i - Len(v)] /\ e[i] = w[i]
      BY <2>2, <2>3, <3>1
    <3>3. e[i] = p[k]
      BY <3>1, <3>2
    <3>4. QED
      BY <3>3 DEF i
  <2>5. QED
    BY <2>2, <2>3, <2>4 DEF p, v, w
<1>12. e \in Seq(AnyChar)
  <2>1. N \in 0..N
    BY <1>1
  <2>2. QED
    BY <1>2, <1>4, <2>1
<1>13. QED
  BY <1>2, <1>11, <1>12 DEF N, Placed

(* What escape_json writes for a character is what json.loads reads back,  *)
(* but for a control character, which is copied and refused.               *)
LEMMA EscapeCases ==
  ASSUME NEW ch \in AnyChar
  PROVE  \/ ch = Control /\ EscapeTable[ch] = <<ch>>
         \/ ch \notin {Quote, Backslash, Newline, Control} /\ EscapeTable[ch] = <<ch>>
         \/ /\ ch # Control
            /\ \E x \in DOMAIN Unescaped : Unescaped[x] = ch /\ EscapeTable[ch] = <<Backslash, x>>
<1>1. /\ Unescaped[Quote] = Quote /\ Unescaped[Backslash] = Backslash /\ Unescaped["n"] = Newline
      /\ {Quote, Backslash, "n"} \subseteq DOMAIN Unescaped
  BY DEF Unescaped, Quote, Backslash, Newline, NonAsciiCode, ControlCode
<1>2. ch \in {Quote, Backslash} => EscapeTable[ch] = <<Backslash, ch>> /\ ch # Control
  BY DEF EscapeTable, Quote, Backslash, Control
<1>3. ch = Newline => EscapeTable[ch] = <<Backslash, "n">> /\ ch # Control
  BY DEF EscapeTable, Quote, Backslash, Newline, Control
<1>4. ch \notin {Quote, Backslash, Newline} => EscapeTable[ch] = <<ch>>
  BY DEF EscapeTable
<1>5. CASE ch \in {Quote, Backslash}
  BY <1>1, <1>2, <1>5
<1>6. CASE ch = Newline
  BY <1>1, <1>3, <1>6
<1>7. CASE ch \notin {Quote, Backslash, Newline}
  BY <1>4, <1>7
<1>8. QED
  BY <1>5, <1>6, <1>7

(* What json.loads makes of the text behind its first n characters.        *)
Rest(s, n) ==
  IF \E i \in n + 1..Len(s) : s[i] = Control THEN Invalid ELSE SubSeq(s, n + 1, Len(s))

LEMMA NotInvalid ==
  ASSUME NEW s \in Seq(AnyChar)
  PROVE  s # Invalid
<1>1. SUFFICES ASSUME s = Invalid PROVE FALSE
  OBVIOUS
<1>2. Len(s) = 1 /\ s[1] = "invalid"
  BY <1>1 DEF Invalid
<1>3. s[1] \in AnyChar
  BY <1>2, ElementOfSeq
<1>4. QED
  BY <1>2, <1>3 DEF AnyChar, Quote, Backslash, Newline, Control, NonAscii, NotUtf8, NonAsciiCode,
                    ControlCode, Key, Colon

LEMMA RestStep ==
  ASSUME NEW s \in Seq(AnyChar), NEW n \in 0..Len(s) - 1
  PROVE  Rest(s, n) = IF s[n + 1] = Control \/ Rest(s, n + 1) = Invalid THEN Invalid
                      ELSE <<s[n + 1]>> \o Rest(s, n + 1)
<1> DEFINE N == Len(s)
           m == n + 1
           l == n + 2
<1>1. N \in Nat
  BY LenProperties
<1>2. /\ m \in 1..N /\ l \in 1..N + 1 /\ N \in 0..N /\ l <= N + 1 /\ m + 1 = l
      /\ m \in 1..N + 1 /\ m <= N + 1
  BY <1>1
<1>3. <<s[m]>> \o SubSeq(s, l, N) = SubSeq(s, m, N)
  BY EarlierPart
<1>4. SubSeq(s, l, N) # Invalid
  <2>1. SubSeq(s, l, N) \in Seq(AnyChar)
    BY <1>2, Part
  <2>2. QED
    BY <2>1, NotInvalid
<1>5. (\E i \in m..N : s[i] = Control) <=> s[m] = Control \/ \E i \in l..N : s[i] = Control
  <2> HIDE DEF N
  <2>1. \A i \in m..N : i = m \/ i \in l..N
    BY <1>1, <1>2
  <2>2. m \in m..N /\ \A i \in l..N : i \in m..N
    BY <1>1, <1>2
  <2> HIDE DEF m, l
  <2>3. QED
    BY <2>1, <2>2
<1>6. Rest(s, n) = IF \E i \in m..N : s[i] = Control THEN Invalid ELSE SubSeq(s, m, N)
  BY DEF Rest
<1>7. Rest(s, m) = IF \E i \in l..N : s[i] = Control THEN Invalid ELSE SubSeq(s, l, N)
  <2>1. Rest(s, m) = IF \E i \in m + 1..N : s[i] = Control THEN Invalid ELSE SubSeq(s, m + 1, N)
    BY DEF Rest
  <2> HIDE DEF m, l, N
  <2>2. QED
    BY <1>2, <2>1
<1> HIDE DEF m, l, N
<1>8. Rest(s, n) = IF s[m] = Control \/ Rest(s, m) = Invalid THEN Invalid ELSE <<s[m]>> \o Rest(s, m)
  <2>1. CASE \E i \in l..N : s[i] = Control
    BY <1>5, <1>6, <1>7, <2>1
  <2>2. CASE s[m] = Control
    BY <1>5, <1>6, <2>2
  <2>3. CASE s[m] # Control /\ ~\E i \in l..N : s[i] = Control
    BY <1>3, <1>4, <1>5, <1>6, <1>7, <2>3
  <2>4. QED
    BY <2>1, <2>2, <2>3
<1>9. QED
  BY <1>8 DEF m

(* json.loads undoes escape_json for a text of any length, or refuses it   *)
(* if it holds a control character, which escape_json copies.              *)
THEOREM RoundTrip ==
  ASSUME NEW s \in Seq(AnyChar)
  PROVE  /\ Has(s, Control) => loads(escape_json(s)) = Invalid
         /\ ~Has(s, Control) => loads(escape_json(s)) = s
<1> DEFINE N == Len(s)
           e == escape_json(s)
           u == WrittenUpTo(s, EscapeTable)
           f == DecodedFrom(e)
           P == {n \in 0..N : f[Len(u[n]) + 1] = Rest(s, n)}
<1>1. N \in Nat /\ DOMAIN s = 1..N
  BY LenProperties
<1>2. e = Written(s, EscapeTable) /\ GoodTable(EscapeTable) /\ u = WrittenUpTo(s, EscapeTable)
  BY Tables, TablesGood
<1> HIDE DEF e, u
<1>3. /\ e \in Seq(AnyChar) /\ e = u[N] /\ u[0] = << >>
      /\ \A n \in 0..N - 1 :
           /\ Len(u[n]) \in Nat
           /\ Len(u[n + 1]) = Len(u[n]) + Len(EscapeTable[s[n + 1]])
           /\ Len(u[n + 1]) <= Len(e)
           /\ \A k \in 1..Len(EscapeTable[s[n + 1]]) : e[Len(u[n]) + k] = EscapeTable[s[n + 1]][k]
  <2>1. Placed(s, EscapeTable, u, e)
    BY <1>2, WrittenAt
  <2>2. QED
    BY <2>1 DEF Placed
<1>4. Len(e) \in Nat
  BY <1>3, LenProperties
<1>5. \A i \in 1..Len(e) + 1 : f[i] = Decoded(e, f, i)
  BY <1>4, DecodedSteps, Zenon
<1> HIDE DEF f
<1>6. N \in P
  <2> DEFINE i == Len(e) + 1
  <2>1. i \in 1..Len(e) + 1 /\ i > Len(e)
    BY <1>4
  <2> HIDE DEF i
  <2>2. f[i] = << >>
    BY <1>5, <2>1 DEF Decoded
  <2>3. Rest(s, N) = << >>
    <3>1. N + 1 \in Int /\ N \in Int /\ N < N + 1
      BY <1>1
    <3>2. SubSeq(s, N + 1, N) = << >>
      BY <3>1, SubSeqEmpty
    <3>3. ~\E k \in N + 1..N : s[k] = Control
      BY <1>1
    <3>4. QED
      BY <3>2, <3>3 DEF Rest
  <2>4. N \in 0..N
    BY <1>1
  <2>5. f[Len(u[N]) + 1] = Rest(s, N)
    BY <1>3, <2>2, <2>3 DEF i
  <2>6. QED
    BY <2>4, <2>5
<1>7. ASSUME NEW n \in 0..N - 1, n + 1 \in P PROVE n \in P
  <2> DEFINE b == Len(u[n])
             ch == s[n + 1]
             r == Rest(s, n + 1)
             i == b + 1
  <2>1. n \in 0..N /\ n + 1 \in 1..N
    BY <1>1
  <2>2. ch \in AnyChar
    BY <2>1, ElementOfSeq
  <2>3. /\ b \in Nat /\ Len(u[n + 1]) = b + Len(EscapeTable[ch]) /\ Len(u[n + 1]) <= Len(e)
        /\ \A k \in 1..Len(EscapeTable[ch]) : e[b + k] = EscapeTable[ch][k]
    BY <1>3
  <2>4. f[Len(u[n + 1]) + 1] = r
    BY <1>7
  <2>5. Rest(s, n) = IF ch = Control \/ r = Invalid THEN Invalid ELSE <<ch>> \o r
    BY RestStep
  <2> HIDE DEF b, ch, r
  <2>6. CASE EscapeTable[ch] = <<ch>>
    <3>1. Len(u[n + 1]) = b + 1 /\ e[b + 1] = ch
      BY <2>3, <2>6
    <3>2. i \in 1..Len(e) + 1 /\ ~(i > Len(e)) /\ i + 1 = Len(u[n + 1]) + 1
      BY <1>4, <2>3, <3>1
    <3>3. e[i] = ch
      BY <3>1
    <3>4. f[i + 1] = r
      BY <2>4, <3>2
    <3> HIDE DEF i
    <3>5. f[i] = Decoded(e, f, i)
      BY <1>5, <3>2
    <3>6. ASSUME ch = Control PROVE f[i] = Rest(s, n)
      <4>1. Control # Backslash
        BY DEF Control, Backslash
      <4>2. Decoded(e, f, i) = Invalid
        BY <3>2, <3>3, <3>6, <4>1 DEF Decoded
      <4>3. QED
        BY <2>5, <3>5, <3>6, <4>2
    <3>7. ASSUME ch \notin {Quote, Backslash, Newline, Control} PROVE f[i] = Rest(s, n)
      <4>1. Decoded(e, f, i) = IF r = Invalid THEN Invalid ELSE <<ch>> \o r
        BY <3>2, <3>3, <3>4, <3>7 DEF Decoded
      <4>2. QED
        BY <2>5, <3>5, <3>7, <4>1
    <3>8. ch \in {Quote, Backslash, Newline} => FALSE
      <4>1. ASSUME ch \in {Quote, Backslash, Newline} PROVE FALSE
        <5>1. Len(EscapeTable[ch]) = 2
          BY <2>2, <4>1 DEF EscapeTable
        <5>2. QED
          BY <2>6, <5>1
      <4>2. QED
        BY <4>1
    <3>9. f[i] = Rest(s, n)
      BY <3>6, <3>7, <3>8
    <3>10. QED
      BY <2>1, <3>9 DEF i, b
  <2>7. CASE /\ ch # Control
             /\ \E x \in DOMAIN Unescaped : Unescaped[x] = ch /\ EscapeTable[ch] = <<Backslash, x>>
    <3>1. PICK x \in DOMAIN Unescaped : Unescaped[x] = ch /\ EscapeTable[ch] = <<Backslash, x>>
      BY <2>7
    <3>2. Len(u[n + 1]) = b + 2 /\ e[b + 1] = Backslash /\ e[b + 2] = x
      BY <2>3, <3>1
    <3>3. /\ i \in 1..Len(e) + 1 /\ ~(i > Len(e)) /\ i < Len(e) /\ i + 2 = Len(u[n + 1]) + 1
          /\ i + 1 = b + 2
      <4>1. b \in Nat /\ b + 2 <= Len(e)
        BY <2>3, <3>2
      <4>2. i \in 1..Len(e) + 1 /\ ~(i > Len(e)) /\ i < Len(e) /\ i + 1 = b + 2 /\ i + 2 = b + 2 + 1
        BY <1>4, <4>1
      <4>3. QED
        BY <3>2, <4>2
    <3>4. e[i] = Backslash
      BY <3>2
    <3>5. e[i + 1] = x /\ f[i + 2] = r
      BY <2>4, <3>2, <3>3
    <3> HIDE DEF i
    <3>6. f[i] = Decoded(e, f, i)
      BY <1>5, <3>3
    <3>7. Decoded(e, f, i) = IF r = Invalid THEN Invalid ELSE <<ch>> \o r
      BY <3>1, <3>3, <3>4, <3>5 DEF Decoded
    <3>8. f[i] = Rest(s, n)
      BY <2>5, <2>7, <3>6, <3>7
    <3>9. QED
      BY <2>1, <3>8 DEF i, b
  <2>8. QED
    BY <2>2, <2>6, <2>7, EscapeCases
<1> HIDE DEF P
<1>8. \A n \in 0..N : n \in P
  BY <1>1, <1>6, <1>7, InductDown
<1>9. f[1] = Rest(s, 0)
  <2>1. 0 \in 0..N
    BY <1>1
  <2>2. f[Len(u[0]) + 1] = Rest(s, 0)
    BY <1>8, <2>1 DEF P
  <2>3. Len(u[0]) + 1 = 1
    BY <1>3
  <2>4. QED
    BY <2>2, <2>3
<1>10. loads(e) = Rest(s, 0)
  BY <1>9, LoadsIsDecoded DEF f
<1>11. Rest(s, 0) = IF \E i \in 1..N : s[i] = Control THEN Invalid ELSE SubSeq(s, 1, N)
  BY DEF Rest
<1>12. SubSeq(s, 1, N) = s
  BY WholePart
<1>13. Has(s, Control) <=> \E i \in 1..N : s[i] = Control
  BY <1>1 DEF Has
<1>14. QED
  BY <1>10, <1>11, <1>12, <1>13 DEF e

-----------------------------------------------------------------------------
(* What the senders write.                                                 *)

LEMMA HasNot ==
  ASSUME NEW s \in Seq(AnyChar), NEW ch
  PROVE  /\ s \in Seq(AnyChar \ {ch}) => ~Has(s, ch)
         /\ ~Has(s, ch) => \A i \in 1..Len(s) : s[i] \in AnyChar /\ s[i] # ch
<1>1. DOMAIN s = 1..Len(s)
  BY LenProperties
<1>2. ASSUME s \in Seq(AnyChar \ {ch}) PROVE ~Has(s, ch)
  <2>1. \A i \in 1..Len(s) : s[i] \in AnyChar \ {ch}
    BY <1>2, ElementOfSeq
  <2>2. QED
    BY <1>1, <2>1 DEF Has
<1>3. ASSUME ~Has(s, ch) PROVE \A i \in 1..Len(s) : s[i] \in AnyChar /\ s[i] # ch
  <2>1. \A i \in 1..Len(s) : s[i] \in AnyChar
    BY ElementOfSeq
  <2>2. QED
    BY <1>1, <1>3, <2>1 DEF Has
<1>4. QED
  BY <1>2, <1>3

LEMMA WrittenWhole ==
  ASSUME NEW s \in Seq(AnyChar)
  PROVE  /\ escape_json(s) \in Seq(AnyChar) /\ dumps(s) \in Seq(AnyChar)
         /\ ~Has(escape_json(s), Newline) /\ ~Has(dumps(s), Newline)
         /\ QuotesEscaped(escape_json(s)) /\ QuotesEscaped(dumps(s))
<1>1. ASSUME NEW table, GoodTable(table), NEW e, e = Written(s, table)
      PROVE  e \in Seq(AnyChar) /\ ~Has(e, Newline) /\ QuotesEscaped(e)
  <2>1. e \in Seq(AnyChar \ {Newline})
    BY <1>1, NoNewlineWritten
  <2>2. AnyChar \ {Newline} \subseteq AnyChar
    OBVIOUS
  <2>3. e \in Seq(AnyChar)
    BY <2>1, <2>2, WiderSeq
  <2>4. ~Has(e, Newline)
    BY <2>1, <2>3, HasNot
  <2>5. QuotesEscaped(e)
    BY <1>1, QuotesEscapedWritten
  <2>6. QED
    BY <2>3, <2>4, <2>5
<1>2. escape_json(s) = Written(s, EscapeTable) /\ dumps(s) = Written(s, DumpsTable)
  BY Tables
<1>3. QED
  BY <1>1, <1>2, TablesGood

(* A dashboard sends nothing that may be refused, and escape_json adds     *)
(* nothing of the kind.                                                    *)
LEMMA NothingRefusableWritten ==
  ASSUME NEW s \in Seq(AnyChar), NEW bad \in Refusable
  PROVE  /\ ~Has(s, NotUtf8) => dumps(s) \in Seq(AnyChar \ {bad})
         /\ ~Has(s, bad) => escape_json(s) \in Seq(AnyChar \ {bad})
<1> DEFINE C == AnyChar \ {bad}
<1>1. ASSUME NEW ch \in AnyChar, ch # NotUtf8 PROVE DumpsTable[ch] \in Seq(C)
  <2>1. Backslash \in C /\ "n" \in C /\ ControlCode \in C /\ NonAsciiCode \in C /\ Quote \in C
    BY DEF AnyChar, Refusable, Backslash, Control, NonAscii, NotUtf8, ControlCode, NonAsciiCode, Quote
  <2>2. ch # Control /\ ch # NonAscii => ch \in C
    BY <1>1 DEF Refusable
  <2> HIDE DEF C
  <2>3. QED
    BY <2>1, <2>2 DEF DumpsTable
<1>2. ASSUME NEW ch \in AnyChar, ch # bad PROVE EscapeTable[ch] \in Seq(C)
  <2>1. Backslash \in C /\ "n" \in C /\ Quote \in C
    BY DEF AnyChar, Refusable, Backslash, Control, NonAscii, NotUtf8, Quote
  <2>2. ch \in C
    BY <1>2
  <2> HIDE DEF C
  <2>3. QED
    BY <2>1, <2>2 DEF EscapeTable
<1> HIDE DEF C
<1>3. ASSUME ~Has(s, NotUtf8) PROVE Written(s, DumpsTable) \in Seq(C)
  <2>1. \A i \in 1..Len(s) : s[i] \in AnyChar /\ s[i] # NotUtf8
    BY <1>3, HasNot
  <2>2. \A i \in 1..Len(s) : DumpsTable[s[i]] \in Seq(C)
    BY <1>1, <2>1
  <2>3. QED
    BY <2>2, WrittenIn
<1>4. ASSUME ~Has(s, bad) PROVE Written(s, EscapeTable) \in Seq(C)
  <2>1. \A i \in 1..Len(s) : s[i] \in AnyChar /\ s[i] # bad
    BY <1>4, HasNot
  <2>2. \A i \in 1..Len(s) : EscapeTable[s[i]] \in Seq(C)
    BY <1>2, <2>1
  <2>3. QED
    BY <2>2, WrittenIn
<1>5. QED
  BY <1>3, <1>4, Tables DEF C

LEMMA NoQuoteWritten ==
  ASSUME NEW s \in Seq(AnyChar), ~Has(s, Quote)
  PROVE  \A i \in 1..Len(escape_json(s)) : escape_json(s)[i] # Quote
<1> DEFINE C == AnyChar \ {Quote}
           e == escape_json(s)
<1>1. ASSUME NEW ch \in AnyChar, ch # Quote PROVE EscapeTable[ch] \in Seq(C)
  <2>1. Backslash \in C /\ "n" \in C
    BY DEF AnyChar, Backslash, Quote
  <2>2. ch \in C
    BY <1>1
  <2> HIDE DEF C
  <2>3. QED
    BY <1>1, <2>1, <2>2 DEF EscapeTable
<1>2. \A i \in 1..Len(s) : s[i] \in AnyChar /\ s[i] # Quote
  BY HasNot
<1>3. \A i \in 1..Len(s) : EscapeTable[s[i]] \in Seq(C)
  BY <1>1, <1>2
<1> HIDE DEF C
<1>4. e \in Seq(C)
  BY <1>3, WrittenIn, Tables
<1> HIDE DEF e
<1>5. \A i \in 1..Len(e) : e[i] \in C
  BY <1>4, ElementOfSeq
<1>6. QED
  BY <1>5 DEF C, e

LEMMA PlainCopied ==
  ASSUME NEW s \in Seq(AnyChar), \A ch \in Special : ~Has(s, ch)
  PROVE  dumps(s) = s /\ escape_json(s) = s
<1>1. \A i \in 1..Len(s) : s[i] \in AnyChar /\ s[i] \notin Special
  <2>1. \A i \in 1..Len(s) : s[i] \in AnyChar
    BY ElementOfSeq
  <2>2. DOMAIN s = 1..Len(s)
    BY LenProperties
  <2>3. QED
    BY <2>1, <2>2 DEF Has
<1>2. \A ch \in AnyChar : ch \notin Special => DumpsTable[ch] = <<ch>> /\ EscapeTable[ch] = <<ch>>
  BY DEF DumpsTable, EscapeTable, Special
<1>3. Written(s, DumpsTable) = s
  BY <1>1, <1>2, Copied
<1>4. Written(s, EscapeTable) = s
  BY <1>1, <1>2, Copied
<1>5. QED
  BY <1>3, <1>4, Tables

-----------------------------------------------------------------------------
(* The text on its way.                                                    *)

(* What was sent, and what the server stored of it.                        *)
Sent == IF origin = "dashboard" THEN dumps(typed) ELSE escape_json(typed)
Kept == json_get_string(payload(Sent), "first")

(* Where the text is, it is what the conversions so far make of what was   *)
(* typed, whatever the text.                                               *)
WireInv ==
  /\ typed \in Seq(AnyChar)
  /\ origin \in {"dashboard", "agent"}
  /\ origin = "dashboard" => ~Has(typed, NotUtf8)
  /\ follower = Follower
  /\ stage \in {"typed", "sent", "stored", "announced", "shown", "rejected"}
  /\ stage = "typed" => text = typed
  /\ stage = "sent" => text = Sent
  /\ stage \in {"stored", "announced", "shown", "rejected"} => stored = Kept
  /\ stage \in {"stored", "shown"} => text = stored
  /\ stage = "announced" => text = escape_json(stored)
  /\ stage = "rejected" => \/ loads(escape_json(stored)) = Invalid
                           \/ \E ch \in {NotUtf8, NonAscii} : Has(escape_json(stored), ch)

LEMMA SentFacts ==
  ASSUME typed \in Seq(AnyChar), origin \in {"dashboard", "agent"},
         origin = "dashboard" => ~Has(typed, NotUtf8)
  PROVE  /\ Sent \in Seq(AnyChar) /\ ~Has(Sent, Newline) /\ QuotesEscaped(Sent)
         /\ Kept \in Seq(AnyChar)
         /\ \A ch \in Refusable : Has(Kept, ch) => origin = "agent" /\ Has(typed, ch)
         /\ (\A ch \in Special : ~Has(typed, ch)) => Kept = typed
         /\ origin = "agent" /\ ~Has(typed, Quote) => Kept = escape_json(typed)
<1>1. Sent \in Seq(AnyChar) /\ ~Has(Sent, Newline) /\ QuotesEscaped(Sent)
  BY WrittenWhole DEF Sent
<1>2. Kept \in Seq(AnyChar) /\ ((\A k \in 1..Len(Sent) : Sent[k] # Quote) => Kept = Sent)
  BY <1>1, FirstTaken DEF Kept
<1>3. ASSUME NEW ch \in Refusable, ~(origin = "agent" /\ Has(typed, ch)) PROVE ~Has(Kept, ch)
  <2> DEFINE C == AnyChar \ {ch}
  <2>1. Sent \in Seq(C)
    BY <1>3, NothingRefusableWritten DEF Sent
  <2>2. C \subseteq AnyChar
    OBVIOUS
  <2>3. Kept \in Seq(C)
    <3> HIDE DEF C
    <3>1. QED
      BY <2>1, <2>2, FirstTaken DEF Kept
  <2>4. QED
    BY <1>2, <2>3, HasNot
<1>4. ASSUME \A ch \in Special : ~Has(typed, ch) PROVE Kept = typed
  <2>1. Sent = typed
    BY <1>4, PlainCopied DEF Sent
  <2>2. ~Has(typed, Quote)
    BY <1>4 DEF Special
  <2>3. \A k \in 1..Len(typed) : typed[k] # Quote
    BY <2>2, HasNot
  <2>4. QED
    BY <1>2, <2>1, <2>3
<1>5. ASSUME origin = "agent", ~Has(typed, Quote) PROVE Kept = escape_json(typed)
  <2>1. Sent = escape_json(typed)
    BY <1>5 DEF Sent
  <2>2. \A k \in 1..Len(Sent) : Sent[k] # Quote
    BY <1>5, <2>1, NoQuoteWritten
  <2>3. QED
    BY <1>2, <2>1, <2>2
<1>6. QED
  BY <1>1, <1>2, <1>3, <1>4, <1>5

LEMMA WireInvInit ==
  Init => WireInv
<1>1. SUFFICES ASSUME Init PROVE WireInv
  OBVIOUS
<1>2. typed \in Seq(AnyChar)
  <2>1. typed \in SeqOf(Char, MaxLen)
    BY <1>1 DEF Init, Text, BoundedSeq
  <2>2. PICK m \in 0..MaxLen : typed \in [1..m -> Char]
    BY <2>1 DEF SeqOf
  <2>3. m \in Nat /\ Char \subseteq AnyChar
    BY WireAssumption
  <2>4. typed \in [1..m -> AnyChar]
    BY <2>2, <2>3
  <2>5. QED
    BY <2>3, <2>4
<1>3. origin \in {"dashboard", "agent"} /\ (origin = "dashboard" => ~Has(typed, NotUtf8))
  BY <1>1, WireAssumption DEF Init, stripped
<1>4. QED
  BY <1>1, <1>2, <1>3 DEF Init, WireInv

LEMMA WireInvStep ==
  WireInv /\ [Next]_vars => WireInv'
<1>1. SUFFICES ASSUME WireInv, [Next]_vars PROVE WireInv'
  OBVIOUS
<1>2. /\ typed \in Seq(AnyChar) /\ origin \in {"dashboard", "agent"}
      /\ origin = "dashboard" => ~Has(typed, NotUtf8)
  BY <1>1 DEF WireInv
<1>3. ASSUME typed' = typed, origin' = origin PROVE Sent' = Sent /\ Kept' = Kept
  BY <1>3 DEF Sent, Kept
<1>4. CASE Send
  BY <1>1, <1>3, <1>4 DEF Send, WireInv, Sent
<1>5. CASE Store
  <2>1. text = Sent
    BY <1>1, <1>5 DEF Store, WireInv
  <2>2. follower' = Follower
    BY <1>2, <1>5, <2>1, SentFacts, FollowerTaken DEF Store
  <2>3. stored' = Kept /\ text' = Kept
    BY <1>5, <2>1 DEF Store, Kept
  <2>4. QED
    BY <1>1, <1>3, <1>5, <2>2, <2>3 DEF Store, WireInv
<1>6. CASE Announce
  BY <1>1, <1>3, <1>6 DEF Announce, WireInv
<1>7. CASE Show
  <2>1. stored = Kept /\ text = escape_json(stored) /\ stored \in Seq(AnyChar)
    BY <1>1, <1>2, <1>7, SentFacts DEF Show, WireInv
  <2>2. PICK cut \in BOOLEAN :
          LET loaded == IF decodes(text, cut) THEN loads(text) ELSE Invalid
          IN  IF loaded = Invalid THEN stage' = "rejected" /\ UNCHANGED text
                                  ELSE stage' = "shown" /\ text' = loaded
    BY <1>7 DEF Show
  <2>3. UNCHANGED <<origin, typed, stored, follower>>
    BY <1>7 DEF Show
  <2>4. Kept' = Kept
    BY <1>3, <2>3
  <2>5. CASE decodes(text, cut) /\ loads(text) # Invalid
    <3>1. loads(text) = stored
      BY <2>1, <2>5, RoundTrip
    <3>2. stage' = "shown" /\ text' = stored
      BY <2>2, <2>5, <3>1
    <3>3. QED
      BY <1>1, <2>1, <2>3, <2>4, <3>2 DEF WireInv
  <2>6. CASE ~(decodes(text, cut) /\ loads(text) # Invalid)
    <3>1. stage' = "rejected"
      BY <2>2, <2>6
    <3>2. loads(escape_json(stored)) = Invalid \/ \E ch \in {NotUtf8, NonAscii} : Has(escape_json(stored), ch)
      BY <2>1, <2>6 DEF decodes
    <3>3. QED
      BY <1>1, <2>1, <2>3, <2>4, <3>1, <3>2 DEF WireInv
  <2>7. QED
    BY <2>5, <2>6
<1>8. CASE UNCHANGED vars
  BY <1>1, <1>3, <1>8 DEF vars, WireInv
<1>9. QED
  BY <1>1, <1>4, <1>5, <1>6, <1>7, <1>8 DEF Next

(* Where a text is on its way from an agent or a dashboard through the     *)
(* server, it is what the conversions so far make of what was typed.       *)
THEOREM TextsConverted ==
  Spec => []WireInv
BY WireInvInit, WireInvStep, PTL DEF Spec

(* Whatever an agent is called and whatever is typed into a form, what     *)
(* escape_json and json.dumps write for it never ends the line it is in.   *)
THEOREM LinesStayWhole ==
  Spec => []OneLine
<1>1. WireInv => OneLine
  <2>1. SUFFICES ASSUME WireInv, stage \in {"sent", "announced"} PROVE ~Has(text, Newline)
    BY DEF OneLine
  <2>2. ~Has(Sent, Newline) /\ Kept \in Seq(AnyChar)
    BY <2>1, SentFacts DEF WireInv
  <2>3. CASE stage = "sent"
    BY <2>1, <2>2, <2>3 DEF WireInv
  <2>4. CASE stage = "announced"
    BY <2>1, <2>2, <2>4, WrittenWhole DEF WireInv
  <2>5. QED
    BY <2>1, <2>3, <2>4
<1>2. QED
  BY <1>1, TextsConverted, PTL

(* A page gets what the server stored and plain text as it was typed, and  *)
(* only an agent whose name is not printable ASCII makes the server write  *)
(* a line that decode or json.loads in _consume may refuse.                *)
THEOREM EventsStayReadable ==
  Spec => []EventsReadable
<1>1. WireInv => EventsReadable
  <2>1. SUFFICES ASSUME WireInv PROVE EventsReadable
    OBVIOUS
  <2>2. /\ Kept \in Seq(AnyChar)
        /\ \A ch \in Refusable : Has(Kept, ch) => origin = "agent" /\ Has(typed, ch)
        /\ (\A ch \in Special : ~Has(typed, ch)) => Kept = typed
    BY <2>1, SentFacts DEF WireInv
  <2>3. stage = "shown" => text = stored /\ stored = Kept
    BY <2>1 DEF WireInv
  <2>4. ASSUME stage = "rejected" PROVE origin = "agent" /\ \E ch \in Refusable : Has(typed, ch)
    <3>1. \/ loads(escape_json(Kept)) = Invalid
          \/ \E ch \in {NotUtf8, NonAscii} : Has(escape_json(Kept), ch)
      BY <2>1, <2>4 DEF WireInv
    <3>2. ASSUME loads(escape_json(Kept)) = Invalid PROVE Has(Kept, Control)
      <4>1. Kept # Invalid
        BY <2>2, NotInvalid
      <4>2. QED
        BY <2>2, <3>2, <4>1, RoundTrip
    <3>3. ASSUME NEW ch \in Refusable, Has(escape_json(Kept), ch) PROVE Has(Kept, ch)
      <4>1. SUFFICES ASSUME ~Has(Kept, ch) PROVE FALSE
        OBVIOUS
      <4>2. escape_json(Kept) \in Seq(AnyChar \ {ch})
        BY <2>2, <4>1, NothingRefusableWritten
      <4>3. escape_json(Kept) \in Seq(AnyChar)
        BY <2>2, WrittenWhole
      <4>4. QED
        BY <3>3, <4>2, <4>3, HasNot
    <3>4. \E ch \in Refusable : Has(Kept, ch)
      BY <3>1, <3>2, <3>3 DEF Refusable
    <3>5. QED
      BY <2>2, <3>4
  <2>5. QED
    BY <2>2, <2>3, <2>4 DEF EventsReadable
<1>2. QED
  BY <1>1, TextsConverted, PTL

(* However a text is made up, the regular expression of json_get_string    *)
(* never finds the key of the next field in it.                            *)
THEOREM FieldsStaySeparate ==
  Spec => []FieldsSeparate
<1>1. WireInv => FieldsSeparate
  BY DEF WireInv, FieldsSeparate
<1>2. QED
  BY <1>1, TextsConverted, PTL

(* What latest_metrics_ is keyed by still tells the agent's name, if that  *)
(* has neither quotes nor control characters.                              *)
THEOREM NamesStayDistinct ==
  Spec => []NamesDistinct
<1>1. WireInv => NamesDistinct
  <2>1. SUFFICES ASSUME WireInv, stage = "stored", origin = "agent",
                        ~Has(typed, Quote), ~Has(typed, Control)
                 PROVE  loads(stored) = typed
    BY DEF NamesDistinct
  <2>2. stored = escape_json(typed) /\ typed \in Seq(AnyChar)
    BY <2>1, SentFacts DEF WireInv
  <2>3. QED
    BY <2>1, <2>2, RoundTrip
<1>2. QED
  BY <1>1, TextsConverted, PTL

(* Two agents share an entry of latest_metrics_ only if they were given    *)
(* the same name: for names of any length without quotes and control       *)
(* characters, what the server stores of two of them is the same only if   *)
(* the names are.                                                          *)
THEOREM NamesInjective ==
  ASSUME NEW a \in Seq(AnyChar), ~Has(a, Quote), ~Has(a, Control),
         NEW b \in Seq(AnyChar), ~Has(b, Quote), ~Has(b, Control),
         json_get_string(payload(escape_json(a)), "first")
           = json_get_string(payload(escape_json(b)), "first")
  PROVE  a = b
<1>1. ASSUME NEW s \in Seq(AnyChar), ~Has(s, Quote), ~Has(s, Control)
      PROVE  loads(json_get_string(payload(escape_json(s)), "first")) = s
  <2>1. escape_json(s) \in Seq(AnyChar) /\ \A i \in 1..Len(escape_json(s)) : escape_json(s)[i] # Quote
    BY <1>1, WrittenWhole, NoQuoteWritten
  <2>2. json_get_string(payload(escape_json(s)), "first") = escape_json(s)
    BY <2>1, FirstTaken
  <2>3. QED
    BY <1>1, <2>2, RoundTrip
<1>2. QED
  BY <1>1
=============================================================================
