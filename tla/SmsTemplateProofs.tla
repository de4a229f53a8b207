--------------------------- MODULE SmsTemplateProofs ---------------------------
(***************************************************************************)
(* The compiler of SMS templates accepts its grammar, for every text,      *)
(* proved with TLAPS.                                                      *)
(*                                                                         *)
(* The scan is recursive, so the proof is an induction: on the length of   *)
(* the suffix that has been scanned.  The induction is over the members of *)
(* a set of numbers, and the least number rests on the well-foundedness of *)
(* < (WellFoundedInduction).                                               *)
(***************************************************************************)
EXTENDS Integers, SmsTemplate, SequenceTheorems, WellFoundedInduction, TLAPS

Below == OpToRel(<, Nat)

\* A set of numbers that is not empty has a least member.
LEMMA Least ==
  ASSUME NEW S \in SUBSET Nat, S # {}
  PROVE  \E m \in S : \A k \in S : m <= k
<1>1. IsWellFoundedOn(Below, Nat)
  BY NatLessThanWellFounded DEF OpToRel, Below
<1>2. PICK m \in S : \A k \in S : ~(<<k, m>> \in Below)
  BY <1>1, WFMin
<1>3. ASSUME NEW k \in S
      PROVE  m <= k
  <2>1. <<k, m>> \notin Below
    BY <1>2
  <2>2. ~(k < m)
    BY <2>1 DEF OpToRel, Below
  <2>3. QED  BY <2>2
<1>4. QED  BY <1>3

\* A set that holds 0 and the successor of every number it holds has them all.
LEMMA SetInduction ==
  ASSUME NEW S, 0 \in S, \A n \in Nat : n \in S => n + 1 \in S
  PROVE  \A n \in Nat : n \in S
<1> SUFFICES ASSUME NEW n \in Nat, n \notin S
             PROVE  FALSE
  OBVIOUS
<1>1. PICK m \in Nat \ S : \A k \in Nat \ S : m <= k
  <2>1. Nat \ S \in SUBSET Nat /\ Nat \ S # {}
    OBVIOUS
  <2>2. QED  BY <2>1, Least
<1>2. m # 0 /\ m - 1 \in Nat
  BY <1>1
<1>3. m - 1 \in S
  BY <1>1, <1>2
<1>4. m - 1 + 1 = m
  BY <1>1
<1>5. QED  BY <1>1, <1>2, <1>3, <1>4

LEMMA MinIsLeast ==
  ASSUME NEW S \in SUBSET Nat, S # {}
  PROVE  Min(S) \in S /\ \A k \in S : Min(S) <= k
  BY Least DEF Min

-----------------------------------------------------------------------------
\* The recursive functions exist.

KeepStep(s, f, i) ==
  IF i = 0 THEN <<>>
  ELSE IF Kept(s, i) THEN Append(f[i - 1], s[i]) ELSE f[i - 1]

\* A step looks one position back, no further.
LEMMA KeepLooksBack ==
  ASSUME NEW s, NEW m \in Nat, NEW f, NEW g, \A i \in 0 .. m : g[i] = f[i]
  PROVE  \A i \in 0 .. m + 1 : KeepStep(s, g, i) = KeepStep(s, f, i)
<1> SUFFICES ASSUME NEW i \in 0 .. m + 1
             PROVE  KeepStep(s, g, i) = KeepStep(s, f, i)
  OBVIOUS
<1>1. i # 0 => g[i - 1] = f[i - 1]
  <2>1. i # 0 => i - 1 \in 0 .. m
    OBVIOUS
  <2>2. QED  BY <2>1
<1>2. QED  BY <1>1 DEF KeepStep

\* strings.Fields and strings.Join return a text.
LEMMA NormalizedIsText ==
  ASSUME NEW X, NEW s \in Seq(X)
  PROVE  normalizeText(s) \in Seq(X)
<1> DEFINE N == Len(s)
           Upto(f, m) == f = [i \in 0 .. m |-> KeepStep(s, f, i)]
           S == {m \in Nat : \E f : Upto(f, m)}
<1>1. N \in Nat /\ s \in [1 .. N -> X]
  BY LenProperties
<1>2. 0 \in S
  <2> DEFINE f == [i \in 0 .. 0 |-> <<>>]
  <2>1. \A i \in 0 .. 0 : KeepStep(s, f, i) = <<>>
    BY DEF KeepStep
  <2>2. f = [i \in 0 .. 0 |-> KeepStep(s, f, i)]
    BY <2>1
  <2>3. QED  BY <2>2
<1>3. ASSUME NEW m \in Nat, m \in S
      PROVE  m + 1 \in S
  <2>1. PICK f : Upto(f, m)
    BY <1>3
  <2> DEFINE g == [i \in 0 .. m + 1 |-> KeepStep(s, f, i)]
  <2>2. \A i \in 0 .. m : g[i] = f[i]
    BY <2>1
  <2>3. \A i \in 0 .. m + 1 : KeepStep(s, g, i) = KeepStep(s, f, i)
    BY <2>2, KeepLooksBack
  <2>4. g = [i \in 0 .. m + 1 |-> KeepStep(s, g, i)]
    BY <2>3
  <2> HIDE DEF g
  <2>5. QED  BY <2>4
<1>4. \E f : Upto(f, N)
  <2>1. \A m \in Nat : m \in S => m + 1 \in S
    BY <1>3
  <2> HIDE DEF S
  <2>2. N \in S
    BY <1>1, <1>2, <2>1, SetInduction
  <2>3. QED  BY <2>2 DEF S
<1> DEFINE keep == CHOOSE f : f = [i \in 0 .. Len(s) |-> KeepStep(s, f, i)]
<1>5. keep = [i \in 0 .. N |-> KeepStep(s, keep, i)]
  BY <1>4
<1>6. normalizeText(s) = keep[N]
  BY DEF normalizeText, KeepStep
<1> HIDE DEF keep
<1> DEFINE T == {m \in Nat : m <= N => keep[m] \in Seq(X)}
<1>7. 0 \in T
  <2>1. keep[0] = KeepStep(s, keep, 0)
    BY <1>1, <1>5
  <2>2. QED  BY <2>1, EmptySeq DEF KeepStep
<1>8. ASSUME NEW m \in Nat, m \in T
      PROVE  m + 1 \in T
  <2> SUFFICES ASSUME m + 1 <= N
               PROVE  keep[m + 1] \in Seq(X)
    OBVIOUS
  <2>1. keep[m] \in Seq(X) /\ s[m + 1] \in X /\ m + 1 - 1 = m /\ m + 1 # 0
    BY <1>1, <1>8
  <2>2. KeepStep(s, keep, m + 1) \in Seq(X)
    BY <2>1, AppendProperties DEF KeepStep
  <2>3. keep[m + 1] = KeepStep(s, keep, m + 1)
    BY <1>1, <1>5
  <2>4. QED  BY <2>2, <2>3
<1>9. N \in T
  BY <1>1, <1>7, <1>8, SetInduction
<1>10. QED  BY <1>1, <1>6, <1>9

LengthStep(s, f, i) == IF i = 0 THEN 0 ELSE f[i - 1] + Bytes(s[i])

LEMMA LengthLooksBack ==
  ASSUME NEW s, NEW m \in Nat, NEW f, NEW g, \A i \in 0 .. m : g[i] = f[i]
  PROVE  \A i \in 0 .. m + 1 : LengthStep(s, g, i) = LengthStep(s, f, i)
<1> SUFFICES ASSUME NEW i \in 0 .. m + 1
             PROVE  LengthStep(s, g, i) = LengthStep(s, f, i)
  OBVIOUS
<1>1. i # 0 => g[i - 1] = f[i - 1]
  <2>1. i # 0 => i - 1 \in 0 .. m
    OBVIOUS
  <2>2. QED  BY <2>1
<1>2. QED  BY <1>1 DEF LengthStep

\* A text has a length in bytes.
LEMMA LengthIsNat ==
  ASSUME NEW s, Len(s) \in Nat
  PROVE  ByteLength(s) \in Nat
<1> DEFINE Upto(f, m) == f = [i \in 0 .. m |-> LengthStep(s, f, i)]
           S == {m \in Nat : \E f : Upto(f, m)}
<1>1. PICK N \in Nat : N = Len(s)
  OBVIOUS
<1>2. 0 \in S
  <2> DEFINE f == [i \in 0 .. 0 |-> 0]
  <2>1. \A i \in 0 .. 0 : LengthStep(s, f, i) = 0
    BY DEF LengthStep
  <2>2. f = [i \in 0 .. 0 |-> LengthStep(s, f, i)]
    BY <2>1
  <2>3. QED  BY <2>2
<1>3. ASSUME NEW m \in Nat, m \in S
      PROVE  m + 1 \in S
  <2>1. PICK f : Upto(f, m)
    BY <1>3
  <2> DEFINE g == [i \in 0 .. m + 1 |-> LengthStep(s, f, i)]
  <2>2. \A i \in 0 .. m : g[i] = f[i]
    BY <2>1
  <2>3. \A i \in 0 .. m + 1 : LengthStep(s, g, i) = LengthStep(s, f, i)
    BY <2>2, LengthLooksBack
  <2>4. g = [i \in 0 .. m + 1 |-> LengthStep(s, g, i)]
    BY <2>3
  <2> HIDE DEF g
  <2>5. QED  BY <2>4
<1>4. \E f : Upto(f, N)
  <2>1. \A m \in Nat : m \in S => m + 1 \in S
    BY <1>3
  <2> HIDE DEF S
  <2>2. N \in S
    BY <1>2, <2>1, SetInduction
  <2>3. QED  BY <2>2 DEF S
<1> DEFINE upto == CHOOSE f : f = [i \in 0 .. Len(s) |-> LengthStep(s, f, i)]
<1>5. upto = [i \in 0 .. N |-> LengthStep(s, upto, i)]
  BY <1>1, <1>4
<1>6. ByteLength(s) = upto[N]
  BY <1>1 DEF ByteLength, LengthStep
<1> HIDE DEF upto
<1> DEFINE T == {m \in Nat : m <= N => upto[m] \in Nat}
<1>7. 0 \in T
  <2>1. upto[0] = LengthStep(s, upto, 0)
    BY <1>5
  <2>2. QED  BY <2>1 DEF LengthStep
<1>8. ASSUME NEW m \in Nat, m \in T
      PROVE  m + 1 \in T
  <2> SUFFICES ASSUME m + 1 <= N
               PROVE  upto[m + 1] \in Nat
    OBVIOUS
  <2>1. upto[m] \in Nat /\ m + 1 - 1 = m /\ m + 1 # 0
    BY <1>8
  <2>2. Bytes(s[m + 1]) \in Nat
    BY DEF Bytes
  <2>3. LengthStep(s, upto, m + 1) \in Nat
    BY <2>1, <2>2 DEF LengthStep
  <2>4. upto[m + 1] = LengthStep(s, upto, m + 1)
    BY <1>5
  <2>5. QED  BY <2>3, <2>4
<1>9. N \in T
  <2>1. \A m \in Nat : m \in T => m + 1 \in T
    BY <1>8
  <2> HIDE DEF T
  <2>2. QED  BY <1>7, <2>1, SetInduction
<1>10. QED  BY <1>6, <1>9
\* The closing brace a placeholder reaches to.
LEMMA EndIsNext ==
  ASSUME NEW s, Len(s) \in Nat, NEW i \in 1 .. Len(s), Ends(s, i) # {}
  PROVE  /\ Min(Ends(s, i)) \in i + 1 .. Len(s)
         /\ s[Min(Ends(s, i))] = "}"
         /\ \A k \in i + 1 .. Min(Ends(s, i)) - 1 : s[k] # "}"
<1>1. Ends(s, i) \in SUBSET Nat
  <2>1. \A k \in Ends(s, i) : k \in i + 1 .. Len(s)
    BY DEF Ends
  <2>2. \A k \in i + 1 .. Len(s) : k \in Nat
    OBVIOUS
  <2>3. QED  BY <2>1, <2>2
<1>2. PICK j : j = Min(Ends(s, i))
  OBVIOUS
<1>3. j \in Ends(s, i) /\ \A k \in Ends(s, i) : j <= k
  BY <1>1, <1>2, MinIsLeast
<1>4. j \in i + 1 .. Len(s) /\ s[j] = "}"
  BY <1>3 DEF Ends
<1>5. ASSUME NEW k \in i + 1 .. j - 1, s[k] = "}"
      PROVE  FALSE
  <2>1. k \in i + 1 .. Len(s) /\ ~(j <= k)
    <3>1. PICK n \in Nat : n = Len(s)
      OBVIOUS
    <3>2. j \in i + 1 .. n
      BY <1>4, <3>1
    <3>3. k \in i + 1 .. n /\ ~(j <= k)
      BY <3>2
    <3>4. QED  BY <3>1, <3>3
  <2>2. QED  BY <1>3, <1>5, <2>1 DEF Ends
<1>6. QED  BY <1>2, <1>4, <1>5

\* The scan of a suffix depends on later suffixes only.
LEMMA ScanLooksAhead ==
  ASSUME NEW s, Len(s) \in Nat, NEW i \in 1 .. Len(s) + 1, NEW f, NEW g,
         \A k \in i + 1 .. Len(s) + 1 : g[k] = f[k]
  PROVE  Scan(s, i, g) = Scan(s, i, f)
<1>1. CASE i > Len(s)
  <2>1. ~(i <= Len(s))
    BY <1>1
  <2>2. QED  BY <1>1, <2>1 DEF Scan
<1>2. CASE i <= Len(s)
  <2>1. i \in 1 .. Len(s) /\ g[i + 1] = f[i + 1] /\ ~(i > Len(s))
    BY <1>2
  <2>2. ASSUME Ends(s, i) # {}
        PROVE  g[Min(Ends(s, i)) + 1] = f[Min(Ends(s, i)) + 1]
    <3>1. Min(Ends(s, i)) \in i + 1 .. Len(s)
      BY <2>1, <2>2, EndIsNext
    <3>2. Min(Ends(s, i)) + 1 \in i + 1 .. Len(s) + 1
      BY <3>1
    <3>3. QED  BY <3>2
  <2>3. CASE s[i] = "}"
    <3>1. s[i] # "{"
      BY <2>3
    <3>2. QED  BY <1>2, <2>1, <2>3, <3>1, Zenon DEF Scan
  <2>4. CASE s[i] = "{"
    <3>1. s[i] # "}"
      BY <2>4
    <3>2. QED  BY <1>2, <2>1, <2>2, <2>4, <3>1 DEF Scan
  <2>5. CASE s[i] # "{" /\ s[i] # "}"
    BY <1>2, <2>1, <2>5 DEF Scan
  <2>6. QED  BY <2>3, <2>4, <2>5
<1>3. QED  BY <1>1, <1>2

\* So the scan of every suffix is defined (tokenize).
LEMMA ScanIsDefined ==
  ASSUME NEW s, Len(s) \in Nat
  PROVE  \A i \in 1 .. Len(s) + 1 : tokensFrom(s)[i] = Scan(s, i, tokensFrom(s))
<1> DEFINE N == Len(s)
           From(f, k) == f = [i \in k .. N + 1 |-> Scan(s, i, f)]
           S == {m \in Nat : m <= N => \E f : From(f, N + 1 - m)}
<1>1. 0 \in S
  <2>1. N + 1 - 0 = N + 1
    OBVIOUS
  <2> DEFINE f == [i \in N + 1 .. N + 1 |-> Scan(s, i, <<>>)]
  <2>2. \A i \in N + 1 .. N + 1 : Scan(s, i, f) = Scan(s, i, <<>>)
    BY ScanLooksAhead
  <2>3. f = [i \in N + 1 .. N + 1 |-> Scan(s, i, f)]
    BY <2>2
  <2> HIDE DEF f
  <2>4. From(f, N + 1 - 0)
    BY <2>1, <2>3
  <2>5. QED  BY <2>4
<1>2. ASSUME NEW m \in Nat, m \in S
      PROVE  m + 1 \in S
  <2> SUFFICES ASSUME m + 1 <= N
               PROVE  \E f : From(f, N + 1 - (m + 1))
    OBVIOUS
  <2>1. PICK k \in Nat : k = N + 1 - (m + 1)
    OBVIOUS
  <2>2. N + 1 - m = k + 1 /\ k >= 1
    BY <2>1
  <2>3. PICK f : From(f, k + 1)
    BY <1>2, <2>2
  <2> DEFINE g == [i \in k .. N + 1 |-> Scan(s, i, f)]
  <2>4. \A i \in k + 1 .. N + 1 : g[i] = f[i]
    BY <2>3
  <2> HIDE DEF g
  <2>5. ASSUME NEW i \in k .. N + 1
        PROVE  Scan(s, i, g) = Scan(s, i, f)
    <3>1. i \in 1 .. N + 1 /\ \A l \in i + 1 .. N + 1 : l \in k + 1 .. N + 1
      BY <2>2
    <3>2. QED  BY <2>4, <3>1, ScanLooksAhead
  <2>6. g = [i \in k .. N + 1 |-> Scan(s, i, g)]
    BY <2>5 DEF g
  <2>7. QED  BY <2>1, <2>6
<1>3. \E f : From(f, 1)
  <2>1. \A m \in Nat : m \in S => m + 1 \in S
    BY <1>2
  <2> HIDE DEF S
  <2>2. N \in S
    BY <1>1, <2>1, SetInduction
  <2>3. N + 1 - N = 1
    OBVIOUS
  <2>4. QED  BY <2>2, <2>3 DEF S
<1>4. PICK T : T = tokensFrom(s)
  OBVIOUS
<1>5. T = [i \in 1 .. Len(s) + 1 |-> Scan(s, i, T)]
  <2> DEFINE U == CHOOSE f : f = [i \in 1 .. Len(s) + 1 |-> Scan(s, i, f)]
  <2>1. U = [i \in 1 .. Len(s) + 1 |-> Scan(s, i, U)]
    BY <1>3
  <2>2. tokensFrom(s) = U
    BY DEF tokensFrom
  <2> HIDE DEF U
  <2>3. QED  BY <1>4, <2>1, <2>2
<1>6. \A i \in 1 .. Len(s) + 1 : T[i] = Scan(s, i, T)
  BY <1>5
<1>7. QED  BY <1>4, <1>6
-----------------------------------------------------------------------------
\* Sequences of tokens.

Placeholders == {Placeholder(f, o) : f \in FieldNames, o \in BOOLEAN}
Tokens       == {Literal, Bad} \cup Placeholders

\* A literal has no field, every other token has one.
LEMMA OnlyLiteralsNameless ==
  ASSUME NEW t \in Tokens
  PROVE  /\ t.field = "" <=> t = Literal
         /\ t.field = "invalid" <=> t = Bad
         /\ t.field \in FieldNames \cup {"", "invalid"}
<1>1. /\ Literal.field = "" /\ Bad.field = "invalid" /\ Literal # Bad
  BY DEF Literal, Bad, Placeholder
<1>2. CASE t \in {Literal, Bad}
  BY <1>1, <1>2
<1>3. ASSUME NEW f \in FieldNames, NEW o \in BOOLEAN, t = Placeholder(f, o)
      PROVE  t.field = f /\ f # "" /\ f # "invalid"
  BY <1>3 DEF Placeholder, FieldNames
<1>4. CASE t \in Placeholders
  <2>1. PICK f \in FieldNames, o \in BOOLEAN : t = Placeholder(f, o)
    BY <1>4 DEF Placeholders
  <2>2. t.field = f /\ f # "" /\ f # "invalid"
    BY <1>3, <2>1
  <2>3. QED  BY <1>1, <2>2
<1>5. QED  BY <1>2, <1>4 DEF Tokens

\* A token in front of others.
LEMMA Consed ==
  ASSUME NEW t \in Tokens, NEW u \in Seq(Tokens)
  PROVE  /\ <<t>> \o u \in Seq(Tokens) /\ <<t>> \o u # <<>> /\ Head(<<t>> \o u) = t
         /\ FieldsOf(<<t>> \o u) = ({t.field} \ {""}) \cup FieldsOf(u)
         /\ Repeats(<<t>> \o u) <=> Repeats(u) \/ (t # Literal /\ t.field \in FieldsOf(u))
<1> DEFINE n == Len(u)
           v == <<t>> \o u
<1>1. n \in Nat /\ \A k \in 1 .. n : u[k] \in Tokens
  BY LenProperties
<1>2. /\ v \in Seq(Tokens) /\ Len(v) = n + 1 /\ v[1] = t
      /\ \A k \in 1 .. n : v[k + 1] = u[k]
  <2>1. <<t>> \in Seq(Tokens) /\ Len(<<t>>) = 1 /\ <<t>>[1] = t
    OBVIOUS
  <2>2. /\ v \in Seq(Tokens) /\ Len(v) = 1 + n
        /\ \A k \in 1 .. 1 + n : v[k] = IF k <= 1 THEN <<t>>[k] ELSE u[k - 1]
    BY <2>1, ConcatProperties
  <2>3. \A k \in 1 .. n : v[k + 1] = u[k]
    <3>1. \A k \in 1 .. n : k + 1 \in 1 .. 1 + n /\ ~(k + 1 <= 1) /\ k + 1 - 1 = k
      BY <1>1
    <3>2. QED  BY <2>2, <3>1
  <2>4. v[1] = t
    BY <1>1, <2>1, <2>2
  <2>5. QED  BY <1>1, <2>2, <2>3, <2>4
<1> HIDE DEF v
<1>3. v # <<>> /\ Head(v) = t
  BY <1>1, <1>2, EmptySeq
<1>4. \A k \in 1 .. n + 1 : k = 1 \/ (k - 1 \in 1 .. n /\ v[k] = u[k - 1])
  <2> SUFFICES ASSUME NEW k \in 1 .. n + 1, k # 1
               PROVE  k - 1 \in 1 .. n /\ v[k] = u[k - 1]
    OBVIOUS
  <2>1. k - 1 \in 1 .. n /\ k - 1 + 1 = k
    BY <1>1
  <2>2. QED  BY <1>2, <2>1
<1>5. \A f : (\E k \in 1 .. n + 1 : v[k].field = f) <=> t.field = f \/ \E k \in 1 .. n : u[k].field = f
  <2>1. \A k \in 1 .. n : k + 1 \in 1 .. n + 1
    BY <1>1
  <2>2. 1 \in 1 .. n + 1
    BY <1>1
  <2>3. QED  BY <1>2, <1>4, <2>1, <2>2
<1>6. FieldsOf(v) = ({t.field} \ {""}) \cup FieldsOf(u)
  <2>1. \A f : f \in FieldsOf(v) <=> f # "" /\ \E k \in 1 .. n + 1 : v[k].field = f
    BY <1>2 DEF FieldsOf
  <2>2. \A f : f \in FieldsOf(u) <=> f # "" /\ \E k \in 1 .. n : u[k].field = f
    BY DEF FieldsOf
  <2>3. QED  BY <1>5, <2>1, <2>2, Zenon
<1>7. Repeats(u) => Repeats(v)
  <2> SUFFICES ASSUME NEW k \in 1 .. n, NEW l \in 1 .. n, k # l, u[k].field = u[l].field, u[k] # Literal
               PROVE  Repeats(v)
    BY DEF Repeats
  <2>1. k + 1 \in 1 .. n + 1 /\ l + 1 \in 1 .. n + 1 /\ k + 1 # l + 1
    BY <1>1
  <2>2. QED  BY <1>2, <2>1 DEF Repeats
<1>8. t # Literal /\ t.field \in FieldsOf(u) => Repeats(v)
  <2> SUFFICES ASSUME t # Literal, NEW k \in 1 .. n, t.field = u[k].field
               PROVE  Repeats(v)
    BY DEF FieldsOf
  <2>1. 1 \in 1 .. n + 1 /\ k + 1 \in 1 .. n + 1 /\ 1 # k + 1
    BY <1>1
  <2>2. QED  BY <1>2, <2>1 DEF Repeats
<1>9. Repeats(v) => Repeats(u) \/ (t # Literal /\ t.field \in FieldsOf(u))
  <2> SUFFICES ASSUME NEW k \in 1 .. n + 1, NEW l \in 1 .. n + 1, k # l,
                      v[k].field = v[l].field, v[k] # Literal
               PROVE  Repeats(u) \/ (t # Literal /\ t.field \in FieldsOf(u))
    BY <1>2 DEF Repeats
  <2>1. CASE k = 1
    <3>1. l - 1 \in 1 .. n /\ t.field = u[l - 1].field /\ t # Literal
      BY <1>2, <1>4, <2>1
    <3>2. t.field # ""
      BY <3>1, OnlyLiteralsNameless
    <3>3. QED  BY <3>1, <3>2 DEF FieldsOf
  <2>2. CASE l = 1
    <3>1. k - 1 \in 1 .. n /\ t.field = u[k - 1].field /\ u[k - 1] # Literal
      BY <1>2, <1>4, <2>2
    <3>2. u[k - 1] \in Tokens
      BY <1>1, <3>1
    <3>3. t.field # "" /\ t # Literal
      BY <3>1, <3>2, OnlyLiteralsNameless
    <3>4. QED  BY <3>1, <3>3 DEF FieldsOf
  <2>3. CASE k # 1 /\ l # 1
    <3>1. /\ k - 1 \in 1 .. n /\ l - 1 \in 1 .. n
          /\ u[k - 1].field = u[l - 1].field /\ u[k - 1] # Literal
      BY <1>4, <2>3
    <3>2. k - 1 # l - 1
      BY <1>1
    <3>3. QED  BY <3>1, <3>2 DEF Repeats
  <2>4. QED  BY <2>1, <2>2, <2>3
<1>10. QED  BY <1>2, <1>3, <1>6, <1>7, <1>8, <1>9 DEF v

\* A scan that failed, and one of nothing.
LEMMA Ended ==
  /\ <<Bad>> \in Seq(Tokens) /\ <<Bad>> # <<>> /\ Head(<<Bad>>) = Bad
  /\ "invalid" \in FieldsOf(<<Bad>>)
  /\ <<>> \in Seq(Tokens) /\ FieldsOf(<<>>) = {} /\ ~Repeats(<<>>)
<1>1. <<Bad>> \in Seq(Tokens) /\ <<Bad>> # <<>> /\ Head(<<Bad>>) = Bad
  BY DEF Tokens
<1>2. "invalid" \in FieldsOf(<<Bad>>)
  BY DEF FieldsOf, Bad, Placeholder
<1>3. <<>> \in Seq(Tokens) /\ FieldsOf(<<>>) = {} /\ ~Repeats(<<>>)
  BY DEF FieldsOf, Repeats
<1>4. QED  BY <1>1, <1>2, <1>3
-----------------------------------------------------------------------------
\* The grammar, of the part of a text from position i on.

IsOpen(s, i)    == s[i] = "{"
IsClose(s, i)   == s[i] = "}"
Brace(s, i)     == IsOpen(s, i) \/ IsClose(s, i)
IsPair(s, i, j) ==
  /\ i \in 1 .. Len(s) /\ j \in 1 .. Len(s) /\ i < j
  /\ IsOpen(s, i) /\ IsClose(s, j)
  /\ \A k \in 1 .. Len(s) : i < k /\ k < j => ~Brace(s, k)

Shaped(s, i, j) ==
  /\ j - i = 2 \/ (j - i = 3 /\ s[j - 1] = "?")
  /\ s[i + 1] \in FieldNames

WellFormed(s, i) ==
  /\ \A o \in Opens(s) : o >= i => \E j : IsPair(s, o, j)
  /\ \A c \in Braces(s) \ Opens(s) : c >= i => \E o : o >= i /\ IsPair(s, o, c)
  /\ \A o, c : o >= i /\ IsPair(s, o, c) => Shaped(s, o, c) /\ c + 1 \notin Opens(s)

NamesFrom(s, i)  == {s[o + 1] : o \in {k \in 1 .. Len(s) : k >= i /\ \E c : IsPair(s, k, c)}}
UniqueFrom(s, i) ==
  \A o, c, k, l :
    o >= i /\ IsPair(s, o, c) /\ k >= i /\ IsPair(s, k, l) /\ s[o + 1] = s[k + 1] => o = k

LEMMA PairsAre ==
  ASSUME NEW s
  PROVE  /\ \A i, j : <<i, j>> \in Pairs(s) <=> IsPair(s, i, j)
         /\ \A p \in Pairs(s) : p = <<p[1], p[2]>> /\ IsPair(s, p[1], p[2])
<1>1. \A i, j : <<i, j>> \in Pairs(s) <=> IsPair(s, i, j)
  BY DEF Pairs, IsPair, Opens, Braces, Brace, IsOpen, IsClose
<1>2. \A p \in Pairs(s) : p = <<p[1], p[2]>>
  BY DEF Pairs
<1>3. QED  BY <1>1, <1>2

\* Where pairs and braces are.
LEMMA Positions ==
  ASSUME NEW s, Len(s) \in Nat
  PROVE  /\ \A i \in 1 .. Len(s) : i \in Nat /\ i >= 1 /\ i <= Len(s)
         /\ Opens(s) \subseteq 1 .. Len(s) /\ Braces(s) \subseteq 1 .. Len(s)
         /\ \A i, j : IsPair(s, i, j) =>
              /\ i \in 1 .. Len(s) /\ j \in 1 .. Len(s) /\ i \in Nat /\ j \in Nat
              /\ i < j /\ i >= 1 /\ IsOpen(s, i) /\ IsClose(s, j)
<1>1. \A i \in 1 .. Len(s) : i \in Nat /\ i >= 1 /\ i <= Len(s)
  OBVIOUS
<1>2. Opens(s) \subseteq 1 .. Len(s) /\ Braces(s) \subseteq 1 .. Len(s)
  <2>1. \A i \in Opens(s) : i \in 1 .. Len(s)
    BY DEF Opens
  <2>2. \A i \in Braces(s) : i \in 1 .. Len(s)
    BY DEF Braces
  <2>3. QED  BY <2>1, <2>2
<1>3. ASSUME NEW i, NEW j, IsPair(s, i, j)
      PROVE  /\ i \in 1 .. Len(s) /\ j \in 1 .. Len(s) /\ i < j
             /\ IsOpen(s, i) /\ IsClose(s, j)
  BY <1>3 DEF IsPair
<1>4. QED  BY <1>1, <1>2, <1>3

\* Nothing but the pair itself between its braces.
LEMMA NothingBetween ==
  ASSUME NEW s, NEW i, NEW j, IsPair(s, i, j),
         NEW k \in 1 .. Len(s), i < k, k < j
  PROVE  ~IsOpen(s, k) /\ ~IsClose(s, k)
  BY DEF IsPair, Brace

\* A brace is closed by one only.
LEMMA OnePartner ==
  ASSUME NEW s, Len(s) \in Nat, NEW i, NEW j, NEW k, IsPair(s, i, j), IsPair(s, i, k)
  PROVE  j = k
<1>1. /\ j \in 1 .. Len(s) /\ j \in Nat /\ i < j /\ IsClose(s, j)
      /\ k \in 1 .. Len(s) /\ k \in Nat /\ i < k /\ IsClose(s, k)
  BY Positions
<1>2. ~(j < k)
  BY <1>1, NothingBetween
<1>3. ~(k < j)
  BY <1>1, NothingBetween
<1>4. j \in Nat /\ k \in Nat
  BY <1>1
<1>5. QED  BY <1>2, <1>3, <1>4

\* No lexeme is both.
LEMMA BraceKinds ==
  ASSUME NEW s, NEW i
  PROVE  /\ ~(IsOpen(s, i) /\ IsClose(s, i))
         /\ \A k \in Opens(s) : IsOpen(s, k)
         /\ \A k \in Braces(s) : Brace(s, k) /\ (k \in Opens(s) <=> IsOpen(s, k))
         /\ \A k \in 1 .. Len(s) : /\ IsOpen(s, k) => k \in Opens(s)
                                   /\ Brace(s, k) => k \in Braces(s)
         /\ Opens(s) \subseteq Braces(s)
  BY DEF IsOpen, IsClose, Brace, Opens, Braces

\* The whole text.
LEMMA GrammarIs ==
  ASSUME NEW text, NEW s, s = normalizeText(text), Len(s) \in Nat
  PROVE  /\ PlaceholdersOf(text) = NamesFrom(s, 1)
         /\ Grammatical(text) <=> /\ WellFormed(s, 1)
                                  /\ Required \subseteq NamesFrom(s, 1)
                                  /\ UniqueFrom(s, 1)
                                  /\ ByteLength(s) <= maxTemplateLength
<1>1. \A i, j : IsPair(s, i, j) => i >= 1 /\ i \in 1 .. Len(s)
  BY Positions
<1>2. PlaceholdersOf(text) = {s[p[1] + 1] : p \in Pairs(s)}
  BY DEF PlaceholdersOf
<1>3. {s[p[1] + 1] : p \in Pairs(s)} = NamesFrom(s, 1)
  <2>1. ASSUME NEW p \in Pairs(s)
        PROVE  s[p[1] + 1] \in NamesFrom(s, 1)
    BY <1>1, PairsAre DEF NamesFrom
  <2>2. ASSUME NEW o, NEW c, IsPair(s, o, c)
        PROVE  s[o + 1] \in {s[p[1] + 1] : p \in Pairs(s)}
    <3>1. <<o, c>> \in Pairs(s) /\ <<o, c>>[1] = o
      BY <2>2, PairsAre
    <3>2. QED  BY <3>1
  <2>3. QED  BY <2>1, <2>2 DEF NamesFrom
<1>4. (\A i \in Opens(s) : \E p \in Pairs(s) : p[1] = i)
        <=> \A o \in Opens(s) : o >= 1 => \E j : IsPair(s, o, j)
  <2>1. \A o \in Opens(s) : o >= 1
    BY Positions
  <2>2. \A o : (\E p \in Pairs(s) : p[1] = o) <=> \E j : IsPair(s, o, j)
    <3>1. ASSUME NEW o, NEW p \in Pairs(s), p[1] = o
          PROVE  \E j : IsPair(s, o, j)
      BY <3>1, PairsAre
    <3>2. ASSUME NEW o, NEW j, IsPair(s, o, j)
          PROVE  \E p \in Pairs(s) : p[1] = o
      <4>1. <<o, j>> \in Pairs(s) /\ <<o, j>>[1] = o
        BY <3>2, PairsAre
      <4>2. QED  BY <4>1, Zenon
    <3>3. QED  BY <3>1, <3>2, Zenon
  <2>3. QED  BY <2>1, <2>2
<1>5. (\A j \in Braces(s) \ Opens(s) : \E p \in Pairs(s) : p[2] = j)
        <=> \A c \in Braces(s) \ Opens(s) : c >= 1 => \E o : o >= 1 /\ IsPair(s, o, c)
  <2>1. \A c \in Braces(s) \ Opens(s) : c >= 1
    BY Positions
  <2>2. \A c : (\E p \in Pairs(s) : p[2] = c) <=> \E o : IsPair(s, o, c)
    <3>1. ASSUME NEW c, NEW p \in Pairs(s), p[2] = c
          PROVE  \E o : IsPair(s, o, c)
      BY <3>1, PairsAre
    <3>2. ASSUME NEW c, NEW o, IsPair(s, o, c)
          PROVE  \E p \in Pairs(s) : p[2] = c
      <4>1. <<o, c>> \in Pairs(s) /\ <<o, c>>[2] = c
        BY <3>2, PairsAre
      <4>2. QED  BY <4>1, Zenon
    <3>3. QED  BY <3>1, <3>2, Zenon
  <2>3. QED  BY <1>1, <2>1, <2>2
<1>6. (\A p \in Pairs(s) :
         /\ p[2] - p[1] = 2 \/ (p[2] - p[1] = 3 /\ s[p[2] - 1] = "?")
         /\ s[p[1] + 1] \in FieldNames
         /\ p[2] + 1 \notin Opens(s))
        <=> \A o, c : o >= 1 /\ IsPair(s, o, c) => Shaped(s, o, c) /\ c + 1 \notin Opens(s)
  <2>1. ASSUME NEW o, NEW c, IsPair(s, o, c)
        PROVE  <<o, c>> \in Pairs(s) /\ <<o, c>>[1] = o /\ <<o, c>>[2] = c
    BY <2>1, PairsAre
  <2> DEFINE Fits(o, c) == /\ c - o = 2 \/ (c - o = 3 /\ s[c - 1] = "?")
                           /\ s[o + 1] \in FieldNames
                           /\ c + 1 \notin Opens(s)
  <2>2. \A o, c : Fits(o, c) <=> Shaped(s, o, c) /\ c + 1 \notin Opens(s)
    BY DEF Shaped
  <2> HIDE DEF Fits
  <2>3. (\A p \in Pairs(s) : Fits(p[1], p[2])) <=> \A o, c : IsPair(s, o, c) => Fits(o, c)
    <3>1. ASSUME \A p \in Pairs(s) : Fits(p[1], p[2]), NEW o, NEW c, IsPair(s, o, c)
          PROVE  Fits(o, c)
      <4>1. PICK p \in Pairs(s) : p[1] = o /\ p[2] = c
        BY <2>1, <3>1
      <4>2. QED  BY <3>1, <4>1
    <3>2. QED  BY <3>1, PairsAre
  <2>4. (\A p \in Pairs(s) : Fits(p[1], p[2]))
          <=> \A o, c : o >= 1 /\ IsPair(s, o, c) => Shaped(s, o, c) /\ c + 1 \notin Opens(s)
    BY <1>1, <2>2, <2>3
  <2>5. QED  BY <2>4 DEF Fits
<1>7. (\A p, q \in Pairs(s) : s[p[1] + 1] = s[q[1] + 1] => p = q) <=> UniqueFrom(s, 1)
  <2>1. ASSUME \A p, q \in Pairs(s) : s[p[1] + 1] = s[q[1] + 1] => p = q
        PROVE  UniqueFrom(s, 1)
    <3> SUFFICES ASSUME NEW o, NEW c, NEW k, NEW l, o >= 1, IsPair(s, o, c),
                        k >= 1, IsPair(s, k, l), s[o + 1] = s[k + 1]
                 PROVE  o = k
      BY DEF UniqueFrom
    <3>1. /\ <<o, c>> \in Pairs(s) /\ <<k, l>> \in Pairs(s)
          /\ <<o, c>>[1] = o /\ <<k, l>>[1] = k
      BY PairsAre
    <3>2. QED  BY <2>1, <3>1
  <2>2. ASSUME UniqueFrom(s, 1), NEW p \in Pairs(s), NEW q \in Pairs(s),
               s[p[1] + 1] = s[q[1] + 1]
        PROVE  p = q
    <3>1. /\ p = <<p[1], p[2]>> /\ IsPair(s, p[1], p[2])
          /\ q = <<q[1], q[2]>> /\ IsPair(s, q[1], q[2])
      BY PairsAre
    <3>2. p[1] = q[1]
      BY <1>1, <2>2, <3>1 DEF UniqueFrom
    <3>3. p[2] = q[2]
      BY <3>1, <3>2, OnePartner
    <3>4. QED  BY <3>1, <3>2, <3>3
  <2>3. QED  BY <2>1, <2>2
<1>8. QED  BY <1>2, <1>3, <1>4, <1>5, <1>6, <1>7 DEF Grammatical, WellFormed
-----------------------------------------------------------------------------
\* The scan and the grammar, suffix by suffix.

\* What the name between two braces stands for (tokenize).
LEMMA NamedIs ==
  ASSUME NEW X, NEW s \in Seq(X), NEW i \in 1 .. Len(s), NEW j \in i + 1 .. Len(s)
  PROVE  LET tok == Named(SubSeq(s, i + 1, j - 1)) IN
         /\ tok \in Tokens /\ tok # Literal
         /\ tok # Bad <=> Shaped(s, i, j)
         /\ Shaped(s, i, j) => tok.field = s[i + 1]
<1> DEFINE name == SubSeq(s, i + 1, j - 1)
<1>1. Len(s) \in Nat /\ \A k \in 1 .. Len(s) : s[k] \in X
  BY LenProperties
<1>2. i \in Nat /\ j \in Nat /\ i < j /\ j <= Len(s)
  BY <1>1
<1>3. \A k \in i + 1 .. j - 1 : s[k] \in X
  BY <1>1, <1>2
<1>4. /\ Len(name) = IF i + 1 <= j - 1 THEN j - 1 - (i + 1) + 1 ELSE 0
      /\ \A k \in 1 .. j - 1 - (i + 1) + 1 : name[k] = s[i + 1 + k - 1]
  <2>1. i + 1 \in Int /\ j - 1 \in Int
    BY <1>2
  <2>2. QED  BY <1>3, <2>1, SubSeqProperties
<1>5. Len(name) = 1 <=> j - i = 2
  BY <1>2, <1>4
<1>6. Len(name) = 2 <=> j - i = 3
  BY <1>2, <1>4
<1>7. j - i \in {2, 3} => name[1] = s[i + 1]
  BY <1>2, <1>4
<1>8. j - i = 3 => name[2] = s[j - 1]
  <2>1. SUFFICES ASSUME j - i = 3 PROVE name[2] = s[j - 1]
    OBVIOUS
  <2>2. 2 \in 1 .. j - 1 - (i + 1) + 1 /\ i + 1 + 2 - 1 = j - 1
    BY <1>2, <2>1
  <2>3. QED  BY <1>4, <2>2
<1> HIDE DEF name
<1>9. \A f \in FieldNames, o \in BOOLEAN :
        /\ Placeholder(f, o) \in Tokens /\ Placeholder(f, o).field = f
        /\ Placeholder(f, o) # Bad /\ Placeholder(f, o) # Literal
  <2> TAKE f \in FieldNames, o \in BOOLEAN
  <2>1. Placeholder(f, o).field = f /\ f # "" /\ f # "invalid"
    BY DEF Placeholder, FieldNames
  <2>2. Placeholder(f, o) \in Tokens
    BY DEF Tokens, Placeholders
  <2>3. QED  BY <2>1, <2>2, OnlyLiteralsNameless
<1>10. Bad \in Tokens /\ Bad # Literal
  BY DEF Tokens, Bad, Literal, Placeholder
<1>11. CASE Len(name) = 1 /\ name[1] \in FieldNames
  <2>1. Named(name) = Placeholder(name[1], FALSE)
    BY <1>11 DEF Named
  <2>2. Shaped(s, i, j) /\ name[1] = s[i + 1]
    BY <1>5, <1>7, <1>11 DEF Shaped
  <2>3. QED  BY <1>9, <1>11, <2>1, <2>2 DEF name
<1>12. CASE Len(name) = 2 /\ name[1] \in FieldNames /\ name[2] = "?"
  <2>1. Named(name) = Placeholder(name[1], TRUE)
    <3>1. ~(Len(name) = 1)
      BY <1>12
    <3>2. QED  BY <1>12, <3>1 DEF Named
  <2>2. Shaped(s, i, j) /\ name[1] = s[i + 1]
    BY <1>6, <1>7, <1>8, <1>12 DEF Shaped
  <2>3. QED  BY <1>9, <1>12, <2>1, <2>2 DEF name
<1>13. CASE /\ ~(Len(name) = 1 /\ name[1] \in FieldNames)
            /\ ~(Len(name) = 2 /\ name[1] \in FieldNames /\ name[2] = "?")
  <2>1. Named(name) = Bad
    BY <1>13 DEF Named
  <2>2. ~Shaped(s, i, j)
    BY <1>5, <1>6, <1>7, <1>8, <1>13 DEF Shaped
  <2>3. QED  BY <1>10, <2>1, <2>2 DEF name
<1>14. QED  BY <1>11, <1>12, <1>13

\* At a lexeme that is no brace nothing is decided.
LEMMA PastText ==
  ASSUME NEW s, Len(s) \in Nat, NEW i \in 1 .. Len(s), ~Brace(s, i)
  PROVE  /\ WellFormed(s, i) <=> WellFormed(s, i + 1)
         /\ NamesFrom(s, i) = NamesFrom(s, i + 1)
         /\ UniqueFrom(s, i) <=> UniqueFrom(s, i + 1)
<1>1. \A o, c : IsPair(s, o, c) => (o >= i <=> o >= i + 1)
  <2> SUFFICES ASSUME NEW o, NEW c, IsPair(s, o, c)
               PROVE  o >= i <=> o >= i + 1
    OBVIOUS
  <2>1. o # i /\ o \in Nat
    BY Positions DEF Brace
  <2>2. QED  BY <2>1
<1>2. \A b \in Braces(s) : b >= i <=> b >= i + 1
  <2> SUFFICES ASSUME NEW b \in Braces(s)
               PROVE  b >= i <=> b >= i + 1
    OBVIOUS
  <2>1. b # i
    BY BraceKinds
  <2>2. b \in Nat
    BY Positions
  <2>3. QED  BY <2>1, <2>2
<1>3. Opens(s) \subseteq Braces(s)
  BY BraceKinds
<1>4. WellFormed(s, i) <=> WellFormed(s, i + 1)
  BY <1>1, <1>2, <1>3 DEF WellFormed
<1>5. NamesFrom(s, i) = NamesFrom(s, i + 1)
  BY <1>1 DEF NamesFrom
<1>6. UniqueFrom(s, i) <=> UniqueFrom(s, i + 1)
  BY <1>1 DEF UniqueFrom
<1>7. QED  BY <1>4, <1>5, <1>6

\* A closing brace with nothing before it is an error.
LEMMA PastClosing ==
  ASSUME NEW s, Len(s) \in Nat, NEW i \in 1 .. Len(s), IsClose(s, i)
  PROVE  ~WellFormed(s, i)
<1>1. i \in Braces(s) \ Opens(s) /\ i >= i
  <2>1. i \in Braces(s) \ Opens(s)
    BY BraceKinds DEF Brace
  <2>2. QED  BY <2>1
<1>2. ASSUME NEW o, o >= i, IsPair(s, o, i)
      PROVE  FALSE
  <2>1. o \in Nat /\ o < i
    BY <1>2, Positions
  <2>2. QED  BY <1>2, <2>1
<1>3. QED  BY <1>1, <1>2 DEF WellFormed

\* The end of a text.
LEMMA PastEnd ==
  ASSUME NEW s, Len(s) \in Nat
  PROVE  /\ WellFormed(s, Len(s) + 1)
         /\ NamesFrom(s, Len(s) + 1) = {}
         /\ UniqueFrom(s, Len(s) + 1)
<1>1. \A k \in 1 .. Len(s) : ~(k >= Len(s) + 1)
  OBVIOUS
<1>2. ASSUME NEW o, NEW c, IsPair(s, o, c)
      PROVE  ~(o >= Len(s) + 1)
  <2>1. o \in 1 .. Len(s)
    BY <1>2, Positions
  <2>2. QED  BY <1>1, <2>1
<1>3. ASSUME NEW b \in Braces(s) \cup Opens(s)
      PROVE  ~(b >= Len(s) + 1)
  <2>1. b \in 1 .. Len(s)
    BY Positions
  <2>2. QED  BY <1>1, <2>1
<1>4. WellFormed(s, Len(s) + 1)
  BY <1>2, <1>3 DEF WellFormed
<1>5. NamesFrom(s, Len(s) + 1) = {}
  BY <1>2 DEF NamesFrom
<1>6. UniqueFrom(s, Len(s) + 1)
  BY <1>2 DEF UniqueFrom
<1>7. QED  BY <1>4, <1>5, <1>6

\* A brace is closed, if at all, by the next closing one; what follows it is
\* read like any suffix.
LEMMA PastPlaceholder ==
  ASSUME NEW s, Len(s) \in Nat, NEW i \in 1 .. Len(s), IsOpen(s, i),
         NEW j \in i + 1 .. Len(s), IsClose(s, j),
         \A k \in i + 1 .. j - 1 : ~IsClose(s, k)
  PROVE  /\ WellFormed(s, i) <=>
              Shaped(s, i, j) /\ j + 1 \notin Opens(s) /\ WellFormed(s, j + 1)
         /\ WellFormed(s, i) =>
              /\ NamesFrom(s, i) = {s[i + 1]} \cup NamesFrom(s, j + 1)
              /\ UniqueFrom(s, i) <=>
                   UniqueFrom(s, j + 1) /\ s[i + 1] \notin NamesFrom(s, j + 1)
<1>1. i \in Nat /\ j \in Nat /\ i < j /\ j <= Len(s) /\ j \in 1 .. Len(s)
  OBVIOUS
<1>2. ASSUME NEW k, IsPair(s, i, k)
      PROVE  k = j
  <2>1. k \in 1 .. Len(s) /\ k \in Nat /\ i < k /\ IsClose(s, k)
    BY <1>2, Positions
  <2>2. ~(k < j)
    <3>1. k < j => k \in i + 1 .. j - 1
      BY <1>1, <2>1
    <3>2. QED  BY <2>1, <3>1
  <2>3. ~(j < k)
    BY <1>1, <1>2, NothingBetween
  <2>4. k \in Nat
    BY <2>1
  <2>5. QED  BY <1>1, <2>2, <2>3, <2>4
<1>3. Shaped(s, i, j) => \A k \in 1 .. Len(s) : i < k /\ k < j => ~Brace(s, k)
  <2> SUFFICES ASSUME Shaped(s, i, j), NEW k \in 1 .. Len(s), i < k, k < j
               PROVE  ~Brace(s, k)
    OBVIOUS
  <2>1. s[i + 1] \in FieldNames /\ (j - i = 3 => s[j - 1] = "?") /\ j - i \in {2, 3}
    BY DEF Shaped
  <2>2. k = i + 1 \/ (k = j - 1 /\ j - i = 3)
    BY <1>1, <2>1
  <2>3. s[k] \in FieldNames \/ s[k] = "?"
    BY <2>1, <2>2
  <2>4. QED  BY <2>3 DEF Brace, IsOpen, IsClose, FieldNames
<1>4. Shaped(s, i, j) => IsPair(s, i, j)
  BY <1>1, <1>3 DEF IsPair
<1>5. ASSUME IsPair(s, i, j), NEW b \in 1 .. Len(s), Brace(s, b), b >= i
      PROVE  b = i \/ b = j \/ b >= j + 1
  <2>1. ~(i < b /\ b < j)
    BY <1>5, NothingBetween DEF Brace
  <2>2. b \in Nat /\ b >= i
    BY <1>5
  <2>3. QED  BY <1>1, <2>1, <2>2
<1>6. ASSUME IsPair(s, i, j), NEW o, NEW c, IsPair(s, o, c), o >= i
      PROVE  (o = i /\ c = j) \/ o >= j + 1
  <2>1. o \in 1 .. Len(s) /\ IsOpen(s, o)
    BY <1>6, Positions
  <2>2. o = i \/ o = j \/ o >= j + 1
    BY <1>5, <1>6, <2>1 DEF Brace
  <2>3. o # j
    BY <2>1, BraceKinds
  <2>4. QED  BY <1>2, <1>6, <2>2, <2>3
<1>7. ASSUME NEW o, NEW c, IsPair(s, o, c), o >= j + 1
      PROVE  o >= i /\ o # i
  <2>1. o \in Nat
    BY <1>7, Positions
  <2>2. QED  BY <1>1, <1>7, <2>1
<1>8. i \in Opens(s) /\ i \in Braces(s) /\ Opens(s) \subseteq Braces(s)
  BY BraceKinds
<1>9. \A b \in Braces(s) : b \in 1 .. Len(s) /\ Brace(s, b) /\ (b >= j + 1 => b >= i)
  <2>1. \A b \in Braces(s) : b \in 1 .. Len(s) /\ Brace(s, b)
    BY BraceKinds, Positions
  <2>2. \A b \in 1 .. Len(s) : b >= j + 1 => b >= i
    BY <1>1
  <2>3. QED  BY <2>1, <2>2
<1>10. WellFormed(s, i) => IsPair(s, i, j) /\ Shaped(s, i, j) /\ j + 1 \notin Opens(s)
  <2> SUFFICES ASSUME WellFormed(s, i)
               PROVE  IsPair(s, i, j) /\ Shaped(s, i, j) /\ j + 1 \notin Opens(s)
    OBVIOUS
  <2>1. i >= i
    OBVIOUS
  <2>2. \E k : IsPair(s, i, k)
    BY <1>8, <2>1 DEF WellFormed
  <2>3. IsPair(s, i, j)
    BY <1>2, <2>2
  <2>4. QED  BY <2>1, <2>3 DEF WellFormed
<1>11. WellFormed(s, i) => WellFormed(s, j + 1)
  <2> SUFFICES ASSUME WellFormed(s, i)
               PROVE  WellFormed(s, j + 1)
    OBVIOUS
  <2>1. \A o \in Opens(s) : o >= j + 1 => \E k : IsPair(s, o, k)
    BY <1>8, <1>9 DEF WellFormed
  <2>2. ASSUME NEW c \in Braces(s) \ Opens(s), c >= j + 1
        PROVE  \E o : o >= j + 1 /\ IsPair(s, o, c)
    <3>1. PICK o : o >= i /\ IsPair(s, o, c)
      BY <1>9, <2>2 DEF WellFormed
    <3>2. c # j
      BY <1>1, <2>2
    <3>3. QED  BY <1>6, <1>10, <3>1, <3>2
  <2>3. \A o, c : o >= j + 1 /\ IsPair(s, o, c) => Shaped(s, o, c) /\ c + 1 \notin Opens(s)
    BY <1>7 DEF WellFormed
  <2>4. QED  BY <2>1, <2>2, <2>3 DEF WellFormed
<1>12. Shaped(s, i, j) /\ j + 1 \notin Opens(s) /\ WellFormed(s, j + 1) => WellFormed(s, i)
  <2> SUFFICES ASSUME Shaped(s, i, j), j + 1 \notin Opens(s), WellFormed(s, j + 1)
               PROVE  WellFormed(s, i)
    OBVIOUS
  <2>1. IsPair(s, i, j)
    BY <1>4
  <2>2. ASSUME NEW o \in Opens(s), o >= i
        PROVE  \E k : IsPair(s, o, k)
    <3>1. o = i \/ o = j \/ o >= j + 1
      BY <1>5, <1>8, <1>9, <2>1, <2>2
    <3>2. o # j
      BY <2>2, BraceKinds
    <3>3. QED  BY <2>1, <2>2, <3>1, <3>2 DEF WellFormed
  <2>3. ASSUME NEW c \in Braces(s) \ Opens(s), c >= i
        PROVE  \E o : o >= i /\ IsPair(s, o, c)
    <3>1. c = i \/ c = j \/ c >= j + 1
      BY <1>5, <1>9, <2>1, <2>3
    <3>2. c # i
      BY <1>8, <2>3
    <3>3. CASE c = j
      <4>1. i >= i
        OBVIOUS
      <4>2. QED  BY <2>1, <3>3, <4>1
    <3>4. CASE c >= j + 1
      <4>1. PICK o : o >= j + 1 /\ IsPair(s, o, c)
        BY <2>3, <3>4 DEF WellFormed
      <4>2. QED  BY <1>7, <4>1
    <3>5. QED  BY <3>1, <3>2, <3>3, <3>4
  <2>4. ASSUME NEW o, NEW c, o >= i, IsPair(s, o, c)
        PROVE  Shaped(s, o, c) /\ c + 1 \notin Opens(s)
    <3>1. (o = i /\ c = j) \/ o >= j + 1
      BY <1>6, <2>1, <2>4
    <3>2. QED  BY <2>4, <3>1 DEF WellFormed
  <2>5. QED  BY <2>2, <2>3, <2>4 DEF WellFormed
<1>13. ASSUME WellFormed(s, i)
       PROVE  NamesFrom(s, i) = {s[i + 1]} \cup NamesFrom(s, j + 1)
  <2>1. IsPair(s, i, j) /\ i >= i
    BY <1>10, <1>13
  <2>2. \A o : (o >= i /\ \E c : IsPair(s, o, c)) <=> o = i \/ (o >= j + 1 /\ \E c : IsPair(s, o, c))
    BY <1>6, <1>7, <2>1
  <2>3. QED  BY <1>1, <2>2 DEF NamesFrom
<1>14. ASSUME WellFormed(s, i)
       PROVE  UniqueFrom(s, i) <=> UniqueFrom(s, j + 1) /\ s[i + 1] \notin NamesFrom(s, j + 1)
  <2>1. IsPair(s, i, j) /\ i >= i
    BY <1>10, <1>14
  <2>2. \A x : x \in NamesFrom(s, j + 1) <=> \E o, c : o >= j + 1 /\ IsPair(s, o, c) /\ x = s[o + 1]
    <3>1. \A o, c : IsPair(s, o, c) => o \in 1 .. Len(s)
      BY Positions
    <3>2. QED  BY <3>1 DEF NamesFrom
  <2>3. UniqueFrom(s, i) => UniqueFrom(s, j + 1)
    BY <1>7 DEF UniqueFrom
  <2>4. UniqueFrom(s, i) => s[i + 1] \notin NamesFrom(s, j + 1)
    BY <1>7, <2>1, <2>2 DEF UniqueFrom
  <2>5. ASSUME UniqueFrom(s, j + 1), s[i + 1] \notin NamesFrom(s, j + 1)
        PROVE  UniqueFrom(s, i)
    <3> SUFFICES ASSUME NEW o, NEW c, NEW k, NEW l, o >= i, IsPair(s, o, c),
                        k >= i, IsPair(s, k, l), s[o + 1] = s[k + 1]
                 PROVE  o = k
      BY DEF UniqueFrom
    <3>1. (o = i \/ o >= j + 1) /\ (k = i \/ k >= j + 1)
      BY <1>6, <2>1
    <3>2. QED  BY <2>2, <2>5, <3>1 DEF UniqueFrom
  <2>6. QED  BY <2>3, <2>4, <2>5
<1>15. QED  BY <1>10, <1>11, <1>12, <1>13, <1>14
-----------------------------------------------------------------------------
\* The scan accepts the grammar.

\* What the scan returns, by what it sees first (the cases of tokenize).
LEMMA ScanAt ==
  ASSUME NEW s, Len(s) \in Nat, NEW i \in 1 .. Len(s), NEW T, T = tokensFrom(s)
  PROVE  /\ IsClose(s, i) => T[i] = <<Bad>>
         /\ IsOpen(s, i) /\ Ends(s, i) = {} => T[i] = <<Bad>>
         /\ IsOpen(s, i) /\ Ends(s, i) # {} =>
              LET j   == Min(Ends(s, i))
                  tok == Named(SubSeq(s, i + 1, j - 1))
              IN T[i] = IF Adjacent(tok, T[j + 1]) THEN <<Bad>> ELSE <<tok>> \o T[j + 1]
         /\ ~Brace(s, i) =>
              T[i] = IF T[i + 1] # <<>> /\ Head(T[i + 1]) = Literal THEN T[i + 1]
                     ELSE <<Literal>> \o T[i + 1]
<1>1. T[i] = Scan(s, i, T)
  <2>1. i \in 1 .. Len(s) + 1
    OBVIOUS
  <2>2. QED  BY <2>1, ScanIsDefined
<1>2. i <= Len(s) /\ ~(i > Len(s))
  OBVIOUS
<1>3. CASE s[i] = "}"
  <2>1. s[i] # "{"
    BY <1>3
  <2>2. T[i] = <<Bad>>
    BY <1>1, <1>2, <1>3, <2>1, Zenon DEF Scan
  <2>3. QED  BY <1>3, <2>1, <2>2 DEF Brace, IsOpen, IsClose
<1>4. CASE s[i] = "{"
  <2>1. s[i] # "}"
    BY <1>4
  <2>2. CASE Ends(s, i) = {}
    <3>1. T[i] = <<Bad>>
      BY <1>1, <1>2, <1>4, <2>1, <2>2 DEF Scan
    <3>2. QED  BY <1>4, <2>1, <2>2, <3>1 DEF Brace, IsOpen, IsClose
  <2>3. CASE Ends(s, i) # {}
    <3> DEFINE j   == Min(Ends(s, i))
               tok == Named(SubSeq(s, i + 1, j - 1))
    <3>1. T[i] = IF Adjacent(tok, T[j + 1]) THEN <<Bad>> ELSE <<tok>> \o T[j + 1]
      BY <1>1, <1>2, <1>4, <2>1, <2>3 DEF Scan
    <3> HIDE DEF tok
    <3>2. QED  BY <1>4, <2>1, <2>3, <3>1 DEF Brace, IsOpen, IsClose, tok
  <2>4. QED  BY <2>2, <2>3
<1>5. CASE s[i] # "{" /\ s[i] # "}"
  <2>1. T[i] = IF T[i + 1] # <<>> /\ Head(T[i + 1]) = Literal THEN T[i + 1]
               ELSE <<Literal>> \o T[i + 1]
    BY <1>1, <1>2, <1>5 DEF Scan
  <2>2. QED  BY <1>5, <2>1 DEF Brace, IsOpen, IsClose
<1>6. QED  BY <1>3, <1>4, <1>5

\* What a scan u of the suffix from i says of that suffix.
Agrees(s, i, u) ==
  /\ u \in Seq(Tokens)
  /\ u = <<>> <=> i > Len(s)
  /\ i <= Len(s) => (Head(u) = Literal <=> ~Brace(s, i))
  /\ "invalid" \in FieldsOf(u) <=> ~WellFormed(s, i)
  /\ WellFormed(s, i) =>
       /\ FieldsOf(u) = NamesFrom(s, i)
       /\ Repeats(u) <=> ~UniqueFrom(s, i)

LEMMA BadIsToken == Bad \in Tokens /\ Bad # Literal /\ Literal \in Tokens
                    /\ Literal.field = "" /\ Bad.field = "invalid"
  BY DEF Tokens, Bad, Literal, Placeholder

\* An error is one, whatever comes after.
LEMMA ErrorAgrees ==
  ASSUME NEW s, Len(s) \in Nat, NEW i \in 1 .. Len(s), Brace(s, i), ~WellFormed(s, i)
  PROVE  Agrees(s, i, <<Bad>>)
<1>1. i <= Len(s) /\ ~(i > Len(s))
  OBVIOUS
<1>2. QED  BY <1>1, Ended, BadIsToken DEF Agrees

\* A literal.
LEMMA TextAgrees ==
  ASSUME NEW s, Len(s) \in Nat, NEW i \in 1 .. Len(s), ~Brace(s, i),
         NEW u, Agrees(s, i + 1, u)
  PROVE  Agrees(s, i, IF u # <<>> /\ Head(u) = Literal THEN u ELSE <<Literal>> \o u)
<1>1. i <= Len(s) /\ ~(i > Len(s))
  OBVIOUS
<1>2. /\ WellFormed(s, i) <=> WellFormed(s, i + 1)
      /\ NamesFrom(s, i) = NamesFrom(s, i + 1)
      /\ UniqueFrom(s, i) <=> UniqueFrom(s, i + 1)
  BY PastText
<1>3. CASE u # <<>> /\ Head(u) = Literal
  BY <1>1, <1>2, <1>3 DEF Agrees
<1>4. CASE ~(u # <<>> /\ Head(u) = Literal)
  <2> DEFINE v == <<Literal>> \o u
  <2>1. u \in Seq(Tokens)
    BY DEF Agrees
  <2>2. /\ v \in Seq(Tokens) /\ v # <<>> /\ Head(v) = Literal
        /\ FieldsOf(v) = ({""} \ {""}) \cup FieldsOf(u)
        /\ Repeats(v) <=> Repeats(u)
    BY <2>1, BadIsToken, Consed
  <2>3. FieldsOf(v) = FieldsOf(u)
    BY <2>2
  <2> HIDE DEF v
  <2>4. Agrees(s, i, v)
    BY <1>1, <1>2, <2>2, <2>3 DEF Agrees
  <2>5. QED  BY <1>4, <2>4 DEF v
<1>5. QED  BY <1>3, <1>4

\* A placeholder.
LEMMA PlaceholderAgrees ==
  ASSUME NEW X, NEW s \in Seq(X), NEW i \in 1 .. Len(s), IsOpen(s, i),
         NEW j \in i + 1 .. Len(s), IsClose(s, j),
         \A k \in i + 1 .. j - 1 : ~IsClose(s, k),
         NEW u, Agrees(s, j + 1, u),
         NEW tok, tok = Named(SubSeq(s, i + 1, j - 1))
  PROVE  Agrees(s, i, IF Adjacent(tok, u) THEN <<Bad>> ELSE <<tok>> \o u)
<1>1. Len(s) \in Nat
  BY LenProperties
<1>2. /\ i <= Len(s) /\ ~(i > Len(s)) /\ j + 1 \in 1 .. Len(s) + 1
      /\ Brace(s, i)
  BY <1>1 DEF Brace
<1>3. /\ tok \in Tokens /\ tok # Literal
      /\ tok # Bad <=> Shaped(s, i, j)
      /\ Shaped(s, i, j) => tok.field = s[i + 1]
  BY NamedIs
<1>4. /\ WellFormed(s, i) <=>
           Shaped(s, i, j) /\ j + 1 \notin Opens(s) /\ WellFormed(s, j + 1)
      /\ WellFormed(s, i) =>
           /\ NamesFrom(s, i) = {s[i + 1]} \cup NamesFrom(s, j + 1)
           /\ UniqueFrom(s, i) <=>
                UniqueFrom(s, j + 1) /\ s[i + 1] \notin NamesFrom(s, j + 1)
  BY <1>1, PastPlaceholder
<1>5. u \in Seq(Tokens)
  BY DEF Agrees
<1>6. Adjacent(tok, u) <=> j + 1 <= Len(s) /\ Brace(s, j + 1)
  BY <1>1, <1>2, <1>3 DEF Adjacent, Agrees
<1>7. CASE Adjacent(tok, u)
  <2>1. j + 1 \in 1 .. Len(s) /\ Brace(s, j + 1)
    BY <1>1, <1>2, <1>6, <1>7
  <2>2. CASE IsOpen(s, j + 1)
    BY <1>1, <1>2, <1>4, <1>7, <2>1, <2>2, BraceKinds, ErrorAgrees
  <2>3. CASE IsClose(s, j + 1)
    BY <1>1, <1>2, <1>4, <1>7, <2>1, <2>3, PastClosing, ErrorAgrees
  <2>4. QED  BY <2>1, <2>2, <2>3 DEF Brace
<1>8. CASE ~Adjacent(tok, u)
  <2> DEFINE v == <<tok>> \o u
  <2>1. /\ v \in Seq(Tokens) /\ v # <<>> /\ Head(v) = tok
        /\ FieldsOf(v) = ({tok.field} \ {""}) \cup FieldsOf(u)
        /\ Repeats(v) <=> Repeats(u) \/ tok.field \in FieldsOf(u)
    BY <1>3, <1>5, Consed
  <2> HIDE DEF v
  <2>2. tok.field # "" /\ (tok.field = "invalid" <=> ~Shaped(s, i, j))
    BY <1>3, OnlyLiteralsNameless
  <2>3. FieldsOf(v) = {tok.field} \cup FieldsOf(u)
    BY <2>1, <2>2
  <2>4. j + 1 \notin Opens(s)
    <3>1. ASSUME j + 1 \in Opens(s)
          PROVE  FALSE
      <4>1. j + 1 \in 1 .. Len(s) /\ Brace(s, j + 1)
        BY <1>1, <3>1, Positions, BraceKinds DEF Brace
      <4>2. j + 1 <= Len(s)
        BY <1>1, <4>1
      <4>3. QED  BY <1>6, <1>8, <4>1, <4>2
    <3>2. QED  BY <3>1
  <2>5. "invalid" \in FieldsOf(v) <=> ~WellFormed(s, i)
    BY <1>4, <2>2, <2>3, <2>4 DEF Agrees
  <2>6. WellFormed(s, i) => /\ FieldsOf(v) = NamesFrom(s, i)
                            /\ Repeats(v) <=> ~UniqueFrom(s, i)
    BY <1>3, <1>4, <2>1, <2>3 DEF Agrees
  <2>7. Agrees(s, i, v)
    BY <1>2, <1>3, <2>1, <2>5, <2>6 DEF Agrees
  <2>8. QED  BY <1>8, <2>7 DEF v
<1>9. QED  BY <1>7, <1>8
\* Every suffix, the last one first.
LEMMA ScanAgrees ==
  ASSUME NEW X, NEW s \in Seq(X)
  PROVE  \A i \in 1 .. Len(s) + 1 : Agrees(s, i, tokensFrom(s)[i])
<1>1. Len(s) \in Nat
  BY LenProperties
<1>2. PICK T : T = tokensFrom(s)
  OBVIOUS
<1>3. Agrees(s, Len(s) + 1, T[Len(s) + 1])
  <2>1. /\ Len(s) + 1 \in 1 .. Len(s) + 1 /\ Len(s) + 1 > Len(s)
        /\ ~(Len(s) + 1 <= Len(s))
    BY <1>1
  <2>2. T[Len(s) + 1] = Scan(s, Len(s) + 1, T)
    BY <1>1, <1>2, <2>1, ScanIsDefined
  <2>3. Scan(s, Len(s) + 1, T) = <<>>
    BY <2>1, Zenon DEF Scan
  <2>4. "invalid" \notin FieldsOf(<<>>)
    BY Ended
  <2>5. QED  BY <1>1, <2>1, <2>2, <2>3, <2>4, Ended, PastEnd DEF Agrees
<1>4. ASSUME NEW i \in 1 .. Len(s), \A k \in i + 1 .. Len(s) + 1 : Agrees(s, k, T[k])
      PROVE  Agrees(s, i, T[i])
  <2>1. CASE IsClose(s, i)
    <3>1. T[i] = <<Bad>>
      BY <1>1, <1>2, <2>1, ScanAt
    <3>2. ~WellFormed(s, i)
      BY <1>1, <2>1, PastClosing
    <3>3. QED  BY <1>1, <2>1, <3>1, <3>2, ErrorAgrees DEF Brace
  <2>2. CASE IsOpen(s, i) /\ Ends(s, i) = {}
    <3>1. T[i] = <<Bad>>
      BY <1>1, <1>2, <2>2, ScanAt
    <3>2. ASSUME NEW k, IsPair(s, i, k)
          PROVE  FALSE
      <4>1. k \in 1 .. Len(s) /\ k \in Nat /\ i < k /\ IsClose(s, k)
        BY <1>1, <3>2, Positions
      <4>2. k \in i + 1 .. Len(s)
        BY <1>1, <4>1
      <4>3. QED  BY <2>2, <4>1, <4>2 DEF Ends, IsClose
    <3>3. i \in Opens(s) /\ i >= i
      BY <1>1, <2>2, BraceKinds
    <3>4. ~WellFormed(s, i)
      BY <3>2, <3>3 DEF WellFormed
    <3>5. QED  BY <1>1, <2>2, <3>1, <3>4, ErrorAgrees DEF Brace
  <2>3. CASE IsOpen(s, i) /\ Ends(s, i) # {}
    <3>1. PICK j : j = Min(Ends(s, i))
      OBVIOUS
    <3>2. PICK tok : tok = Named(SubSeq(s, i + 1, j - 1))
      OBVIOUS
    <3>3. T[i] = IF Adjacent(tok, T[j + 1]) THEN <<Bad>> ELSE <<tok>> \o T[j + 1]
      BY <1>1, <1>2, <2>3, <3>1, <3>2, ScanAt
    <3>4. /\ j \in i + 1 .. Len(s) /\ IsClose(s, j)
          /\ \A k \in i + 1 .. j - 1 : ~IsClose(s, k)
      BY <1>1, <2>3, <3>1, EndIsNext DEF IsClose
    <3>5. Agrees(s, j + 1, T[j + 1])
      <4>1. j + 1 \in i + 1 .. Len(s) + 1
        BY <1>1, <3>4
      <4>2. QED  BY <1>4, <4>1
    <3>6. QED  BY <2>3, <3>2, <3>3, <3>4, <3>5, PlaceholderAgrees
  <2>4. CASE ~Brace(s, i)
    <3>1. T[i] = IF T[i + 1] # <<>> /\ Head(T[i + 1]) = Literal THEN T[i + 1]
                 ELSE <<Literal>> \o T[i + 1]
      BY <1>1, <1>2, <2>4, ScanAt
    <3>2. Agrees(s, i + 1, T[i + 1])
      <4>1. i + 1 \in i + 1 .. Len(s) + 1
        BY <1>1
      <4>2. QED  BY <1>4, <4>1
    <3>3. QED  BY <1>1, <2>4, <3>1, <3>2, TextAgrees
  <2>5. QED  BY <2>1, <2>2, <2>3, <2>4 DEF Brace
<1> DEFINE N == Len(s)
           S == {m \in Nat : m <= N => \A k \in N + 1 - m .. N + 1 : Agrees(s, k, T[k])}
<1>5. 0 \in S
  <2>1. \A k \in N + 1 - 0 .. N + 1 : k = N + 1
    BY <1>1
  <2>2. QED  BY <1>3, <2>1
<1>6. ASSUME NEW m \in Nat, m \in S
      PROVE  m + 1 \in S
  <2> SUFFICES ASSUME m + 1 <= N, NEW k \in N + 1 - (m + 1) .. N + 1
               PROVE  Agrees(s, k, T[k])
    OBVIOUS
  <2>1. \A l \in N + 1 - m .. N + 1 : Agrees(s, l, T[l])
    BY <1>1, <1>6
  <2>2. k \in N + 1 - m .. N + 1 \/ (k \in 1 .. N /\ k + 1 = N + 1 - m)
    BY <1>1
  <2>3. CASE k \in N + 1 - m .. N + 1
    BY <2>1, <2>3
  <2>4. CASE k \in 1 .. N /\ k + 1 = N + 1 - m
    BY <1>4, <2>1, <2>4
  <2>5. QED  BY <2>2, <2>3, <2>4
<1>7. \A k \in 1 .. N + 1 : Agrees(s, k, T[k])
  <2>1. \A m \in Nat : m \in S => m + 1 \in S
    BY <1>6
  <2> HIDE DEF S
  <2>2. N \in S
    BY <1>1, <1>5, <2>1, SetInduction
  <2>3. N + 1 - N = 1
    BY <1>1
  <2>4. QED  BY <1>1, <2>2, <2>3 DEF S
<1>8. QED  BY <1>2, <1>7

\* A template compiles if and only if it is of the language, whose texts are at
\* most maxTemplateLength bytes long; a match of it may then capture exactly the
\* fields its braces name, and no regular expression is longer (Compile, tokenize,
\* CompileRegex).
THEOREM CompileAcceptsTheLanguage ==
  ASSUME NEW X, NEW text \in Seq(X)
  PROVE  /\ (Compile(text) # Invalid) <=> Grammatical(text)
         /\ Grammatical(text) => DOMAIN Compile(text) = PlaceholdersOf(text)
         /\ CompileRegex(text) # Invalid =>
              ByteLength(normalizeText(text)) <= maxTemplateLength
<1>1. PICK s : s = normalizeText(text)
  OBVIOUS
<1>2. s \in Seq(X) /\ Len(s) \in Nat
  BY <1>1, NormalizedIsText, LenProperties
<1>3. PICK u : u = tokenize(s)
  OBVIOUS
<1>4. Agrees(s, 1, u)
  <2>1. 1 \in 1 .. Len(s) + 1
    BY <1>2
  <2>2. QED  BY <1>2, <1>3, <2>1, ScanAgrees DEF tokenize
<1>5. /\ PlaceholdersOf(text) = NamesFrom(s, 1)
      /\ Grammatical(text) <=> /\ WellFormed(s, 1)
                               /\ Required \subseteq NamesFrom(s, 1)
                               /\ UniqueFrom(s, 1)
                               /\ ByteLength(s) <= maxTemplateLength
  BY <1>1, <1>2, GrammarIs
<1>0. TooLong(s) <=> ~(ByteLength(s) <= maxTemplateLength)
  BY <1>2, LengthIsNat, SmsTemplateAssumption DEF TooLong
<1> DEFINE refused == \/ TooLong(s)
                      \/ Bad.field \in FieldsOf(u)
                      \/ ~(Required \subseteq FieldsOf(u))
                      \/ Repeats(u)
<1>6. Compile(text) = IF refused THEN Invalid
                      ELSE [f \in FieldsOf(u) |-> Contains(u, Placeholder(f, FALSE))]
  BY <1>1, <1>3 DEF Compile
<1>7. ~refused <=> Grammatical(text)
  BY <1>0, <1>4, <1>5, BadIsToken DEF Agrees
<1>8. ~refused => /\ DOMAIN Compile(text) = FieldsOf(u)
                  /\ FieldsOf(u) # {}
  BY <1>6 DEF Required
<1>9. DOMAIN Invalid = {}
  BY DEF Invalid
<1>10. Grammatical(text) => FieldsOf(u) = PlaceholdersOf(text)
  BY <1>4, <1>5 DEF Agrees
<1>11. CompileRegex(text) # Invalid => ~TooLong(s)
  BY <1>1 DEF CompileRegex
<1> HIDE DEF refused
<1>12. QED  BY <1>0, <1>1, <1>6, <1>7, <1>8, <1>9, <1>10, <1>11
================================================================================
