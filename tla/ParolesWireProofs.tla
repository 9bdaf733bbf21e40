---------------------------- MODULE ParolesWireProofs ----------------------------
(***************************************************************************)
(* The bytes of ParolesWire, for every base of at least three: what the    *)
(* server reads in a request is what was typed.                            *)
(***************************************************************************)
EXTENDS ParolesWire, SequenceTheorems, WellFoundedInduction, TLAPS

(***************************************************************************)
(* Division.                                                               *)
(***************************************************************************)
LEMMA Division ==
    ASSUME NEW v \in Nat, NEW d \in Nat \ {0}
    PROVE  /\ v \div d \in Nat /\ v % d \in 0 .. d - 1
           /\ v = d * (v \div d) + (v % d)
OBVIOUS

LEMMA Times == ASSUME NEW d \in Nat, NEW q \in Nat PROVE d * q \in Nat
OBVIOUS

LEMMA TimesMore ==
    ASSUME NEW d \in Nat, NEW q \in Nat, NEW p \in Nat, q < p
    PROVE  d * q + d =< d * p
<1>1. PICK e \in Nat : p = q + 1 + e
  <2>1. p - q - 1 \in Nat /\ p = q + 1 + (p - q - 1)
    OBVIOUS
  <2>. QED  BY <2>1
<1>2. d * p = d * q + d + d * e /\ d * e \in Nat
  BY <1>1
<1>. QED  BY <1>2

\* Quotient and remainder are what the equation says.
LEMMA DivisionUnique ==
    ASSUME NEW v \in Nat, NEW d \in Nat \ {0}, NEW q \in Nat, NEW r \in 0 .. d - 1, v = d * q + r
    PROVE  v \div d = q /\ v % d = r
<1>. DEFINE p == v \div d
            s == v % d
<1>1. p \in Nat /\ s \in 0 .. d - 1 /\ v = d * p + s
  BY Division
<1>. HIDE DEF p, s
<1>2. ~(p < q)
  <2>. SUFFICES ASSUME p < q PROVE FALSE
    OBVIOUS
  <2>1. d * p + d =< d * q
    BY <1>1, TimesMore
  <2>2. d * p \in Nat /\ d * q \in Nat
    BY <1>1
  <2>. QED  BY <1>1, <2>1, <2>2
<1>3. ~(q < p)
  <2>. SUFFICES ASSUME q < p PROVE FALSE
    OBVIOUS
  <2>1. d * q + d =< d * p
    BY <1>1, TimesMore
  <2>2. d * p \in Nat /\ d * q \in Nat
    BY <1>1
  <2>. QED  BY <1>1, <2>1, <2>2
<1>4. p = q
  BY <1>1, <1>2, <1>3
<1>5. s = r
  <2>1. d * q \in Nat
    OBVIOUS
  <2>. QED  BY <1>1, <1>4, <2>1
<1>. QED  BY <1>4, <1>5 DEF p, s

\* Dividing by d and then by e.
LEMMA DivideTwice ==
    ASSUME NEW v \in Nat, NEW d \in Nat \ {0}, NEW e \in Nat \ {0}
    PROVE  /\ v \div (d * e) = (v \div d) \div e
           /\ v % (d * e) = d * ((v \div d) % e) + (v % d)
<1>. DEFINE q == v \div d
            r == v % d
            p == q \div e
            s == q % e
<1>1. q \in Nat /\ r \in 0 .. d - 1 /\ v = d * q + r
  BY Division
<1>2. p \in Nat /\ s \in 0 .. e - 1 /\ q = e * p + s
  BY <1>1, Division
<1>. HIDE DEF q, r, p, s
<1>3. d * e \in Nat \ {0}
  OBVIOUS
<1>4. d * q = (d * e) * p + d * s
  BY <1>1, <1>2
<1>5. d * s + r \in 0 .. d * e - 1
  <2>1. d * s + d =< d * e
    BY <1>2, TimesMore
  <2>2. d * s \in Nat /\ d * e \in Nat
    BY <1>2
  <2>. QED  BY <1>1, <2>1, <2>2
<1>6. v = (d * e) * p + (d * s + r)
  <2>1. (d * e) * p \in Nat /\ d * s \in Nat /\ r \in Nat
    BY <1>1, <1>2
  <2>. QED  BY <1>1, <1>4, <2>1
<1>7. v \div (d * e) = p /\ v % (d * e) = d * s + r
  BY <1>2, <1>3, <1>5, <1>6, DivisionUnique
<1>. QED  BY <1>7 DEF p, q, r, s

(***************************************************************************)
(* Integers in bytes.                                                      *)
(***************************************************************************)
Bytes == Seq(0 .. BYTE - 1)

LEMMA SeqOf == ASSUME NEW S, NEW n \in Nat, NEW f \in [1 .. n -> S] PROVE f \in Seq(S) /\ Len(f) = n
OBVIOUS

LEMMA Elements == ASSUME NEW S, NEW f \in Seq(S) PROVE Len(f) \in Nat /\ \A i \in 1 .. Len(f) : f[i] \in S
OBVIOUS

\* A buffer of n numbers holds the n bytes of an integer from place k on.
LEMMA Put16 ==
    ASSUME NEW v \in Nat
    PROVE  /\ wire_put_u16_be(v) \in Bytes /\ Len(wire_put_u16_be(v)) = 2
           /\ wire_get_u16_be(wire_put_u16_be(v), 1) = v % (BYTE * BYTE)
<1>. DEFINE c == v \div BYTE
<1>1. BYTE \in Nat \ {0}
  BY ByteBase
<1>2. c \in Nat /\ c % BYTE \in 0 .. BYTE - 1 /\ v % BYTE \in 0 .. BYTE - 1
  BY <1>1, Division
<1>3. v % (BYTE * BYTE) = BYTE * (c % BYTE) + (v % BYTE)
  BY <1>1, DivideTwice
<1>4. wire_put_u16_be(v) = <<c % BYTE, v % BYTE>>
  BY DEF wire_put_u16_be
<1>. HIDE DEF c
<1>5. wire_put_u16_be(v) \in Bytes /\ Len(wire_put_u16_be(v)) = 2
  BY <1>2, <1>4 DEF Bytes
<1>6. wire_get_u16_be(wire_put_u16_be(v), 1) = (c % BYTE) * BYTE + (v % BYTE)
  BY <1>4 DEF wire_get_u16_be
<1>7. (c % BYTE) * BYTE = BYTE * (c % BYTE)
  BY <1>1, <1>2
<1>. QED  BY <1>3, <1>5, <1>6, <1>7

LEMMA Put32 ==
    ASSUME NEW v \in U32
    PROVE  /\ wire_put_u32_be(v) \in Bytes /\ Len(wire_put_u32_be(v)) = 4
           /\ wire_get_u32_be(wire_put_u32_be(v), 1) = v
<1>. DEFINE B == BYTE
            c == v \div B
            b == c \div B
            a == b \div B
<1>1. B \in Nat \ {0} /\ v \in Nat
  BY ByteBase DEF U32
<1>2. /\ c \in Nat /\ v % B \in 0 .. B - 1 /\ v = B * c + (v % B)
      /\ b \in Nat /\ c % B \in 0 .. B - 1 /\ c = B * b + (c % B)
      /\ a \in Nat /\ b % B \in 0 .. B - 1 /\ b = B * a + (b % B)
  <2>1. c \in Nat /\ v % B \in 0 .. B - 1 /\ v = B * c + (v % B)
    BY <1>1, Division
  <2>2. b \in Nat /\ c % B \in 0 .. B - 1 /\ c = B * b + (c % B)
    BY <1>1, <2>1, Division
  <2>3. a \in Nat /\ b % B \in 0 .. B - 1 /\ b = B * a + (b % B)
    BY <1>1, <2>2, Division
  <2>. QED  BY <2>1, <2>2, <2>3
<1>3. B * B \in Nat \ {0} /\ B * B * B \in Nat \ {0} /\ B * B * B = (B * B) * B
  BY <1>1
<1>4. v \div (B * B) = b
  BY <1>1, DivideTwice
<1>5. v \div (B * B * B) = a
  <2>1. v \div ((B * B) * B) = (v \div (B * B)) \div B
    BY <1>1, <1>3, DivideTwice
  <2>. QED  BY <1>3, <1>4, <2>1
<1>6. a < B
  <2>. SUFFICES ASSUME ~(a < B) PROVE FALSE
    OBVIOUS
  <2>. DEFINE d == B * B * B
  <2>1. d \in Nat \ {0} /\ v \div d = a
    BY <1>3, <1>5
  <2>2. v = d * a + (v % d) /\ v % d \in 0 .. d - 1
    BY <1>1, <2>1, Division
  <2>3. d * B = B * B * B * B /\ d * B \in Nat /\ d * a \in Nat
    BY <1>1, <1>2, <2>1
  <2>4. v < d * B
    BY <2>3 DEF U32
  <2>. HIDE DEF d
  <2>5. d * B =< d * a
    <3>1. CASE a = B
      BY <2>3, <3>1
    <3>2. CASE B < a
      <4>1. d * B + d =< d * a
        BY <1>1, <1>2, <2>1, <3>2, TimesMore
      <4>. QED  BY <2>1, <2>3, <4>1
    <3>. QED  BY <1>1, <1>2, <3>1, <3>2
  <2>. QED  BY <1>1, <2>1, <2>2, <2>3, <2>4, <2>5
<1>7. a % B = a
  <2>. HIDE DEF a, b, c
  <2>1. a = B * 0 + a /\ a \in 0 .. B - 1
    BY <1>1, <1>2, <1>6
  <2>. QED  BY <1>1, <2>1, DivisionUnique
<1>8. wire_put_u32_be(v) = <<a, b % B, c % B, v % B>>
  BY <1>4, <1>5, <1>7 DEF wire_put_u32_be
<1>. HIDE DEF a, b, c
<1>9. wire_put_u32_be(v) \in Bytes /\ Len(wire_put_u32_be(v)) = 4
  BY <1>1, <1>2, <1>6, <1>8 DEF Bytes
<1>10. wire_get_u32_be(wire_put_u32_be(v), 1) = ((a * B + (b % B)) * B + (c % B)) * B + (v % B)
  BY <1>8 DEF wire_get_u32_be
<1>11. a * B + (b % B) = b
  BY <1>1, <1>2
<1>12. b * B + (c % B) = c
  BY <1>1, <1>2
<1>13. c * B + (v % B) = v
  BY <1>1, <1>2
<1>. QED  BY <1>9, <1>10, <1>11, <1>12, <1>13

(***************************************************************************)
(* Fields in a row.                                                        *)
(***************************************************************************)
LEMMA Joined ==
    ASSUME NEW b \in Bytes, NEW f \in Bytes
    PROVE  /\ b \o f \in Bytes /\ Len(b \o f) = Len(b) + Len(f)
           /\ Len(b) \in Nat /\ Len(f) \in Nat
           /\ \A i \in 1 .. Len(b) : (b \o f)[i] = b[i]
           /\ \A i \in 1 .. Len(f) : (b \o f)[Len(b) + i] = f[i]
<1>1. /\ b \o f \in Bytes /\ Len(b \o f) = Len(b) + Len(f)
      /\ \A i \in 1 .. Len(b) + Len(f) : (b \o f)[i] = IF i <= Len(b) THEN b[i] ELSE f[i - Len(b)]
  BY ConcatProperties DEF Bytes
<1>2. Len(b) \in Nat /\ Len(f) \in Nat
  BY LenProperties DEF Bytes
<1>3. \A i \in 1 .. Len(b) : (b \o f)[i] = b[i]
  BY <1>1, <1>2
<1>4. \A i \in 1 .. Len(f) : (b \o f)[Len(b) + i] = f[i]
  <2>. SUFFICES ASSUME NEW i \in 1 .. Len(f) PROVE (b \o f)[Len(b) + i] = f[i]
    OBVIOUS
  <2>1. Len(b) + i \in 1 .. Len(b) + Len(f) /\ ~(Len(b) + i <= Len(b)) /\ Len(b) + i - Len(b) = i
    BY <1>2
  <2>. QED  BY <1>1, <2>1
<1>. QED  BY <1>1, <1>2, <1>3, <1>4

\* What follows a field does not change it.
LEMMA GetBefore ==
    ASSUME NEW b \in Bytes, NEW f \in Bytes, NEW k \in Nat \ {0}
    PROVE  /\ k + 3 =< Len(b) => wire_get_u32_be(b \o f, k) = wire_get_u32_be(b, k)
           /\ k + 1 =< Len(b) => wire_get_u16_be(b \o f, k) = wire_get_u16_be(b, k)
<1>1. Len(b) \in Nat /\ \A i \in 1 .. Len(b) : (b \o f)[i] = b[i]
  BY Joined
<1>2. ASSUME k + 3 =< Len(b) PROVE wire_get_u32_be(b \o f, k) = wire_get_u32_be(b, k)
  <2>1. {k, k + 1, k + 2, k + 3} \subseteq 1 .. Len(b)
    BY <1>1, <1>2
  <2>. QED  BY <1>1, <2>1 DEF wire_get_u32_be
<1>3. ASSUME k + 1 =< Len(b) PROVE wire_get_u16_be(b \o f, k) = wire_get_u16_be(b, k)
  <2>1. {k, k + 1} \subseteq 1 .. Len(b)
    BY <1>1, <1>3
  <2>. QED  BY <1>1, <2>1 DEF wire_get_u16_be
<1>. QED  BY <1>2, <1>3

\* What stands before a field moves it.
LEMMA GetAfter ==
    ASSUME NEW b \in Bytes, NEW f \in Bytes, NEW k \in Nat \ {0}
    PROVE  /\ k + 3 =< Len(f) => wire_get_u32_be(b \o f, Len(b) + k) = wire_get_u32_be(f, k)
           /\ k + 1 =< Len(f) => wire_get_u16_be(b \o f, Len(b) + k) = wire_get_u16_be(f, k)
<1>. DEFINE n == Len(b)
            s == b \o f
<1>1. n \in Nat /\ Len(f) \in Nat /\ \A i \in 1 .. Len(f) : s[n + i] = f[i]
  BY Joined
<1>. HIDE DEF n, s
<1>2. ASSUME k + 3 =< Len(f) PROVE wire_get_u32_be(s, n + k) = wire_get_u32_be(f, k)
  <2>1. {k, k + 1, k + 2, k + 3} \subseteq 1 .. Len(f)
    BY <1>1, <1>2
  <2>2. /\ s[n + k] = f[k] /\ s[n + (k + 1)] = f[k + 1]
        /\ s[n + (k + 2)] = f[k + 2] /\ s[n + (k + 3)] = f[k + 3]
    BY <1>1, <2>1
  <2>3. n + (k + 1) = n + k + 1 /\ n + (k + 2) = n + k + 2 /\ n + (k + 3) = n + k + 3
    BY <1>1
  <2>. QED  BY <2>2, <2>3 DEF wire_get_u32_be
<1>3. ASSUME k + 1 =< Len(f) PROVE wire_get_u16_be(s, n + k) = wire_get_u16_be(f, k)
  <2>1. {k, k + 1} \subseteq 1 .. Len(f)
    BY <1>1, <1>3
  <2>2. s[n + k] = f[k] /\ s[n + (k + 1)] = f[k + 1] /\ n + (k + 1) = n + k + 1
    BY <1>1, <2>1
  <2>. QED  BY <2>2 DEF wire_get_u16_be
<1>. QED  BY <1>2, <1>3 DEF n, s

\* The buffer b holds the integer u and then f.
Led(b, u, f) ==
    /\ b \in Bytes /\ f \in Bytes /\ Len(f) \in Nat /\ Len(b) = 4 + Len(f)
    /\ wire_get_u32_be(b, 1) = u
    /\ \A j \in Nat : 4 < j /\ j =< 1 + Len(f) => wire_get_u32_be(b, j) = wire_get_u32_be(f, j - 4)
    /\ \A j \in Nat : 4 < j /\ j =< 3 + Len(f) => wire_get_u16_be(b, j) = wire_get_u16_be(f, j - 4)
    /\ \A j \in Nat : 4 < j /\ j =< 4 + Len(f) => b[j] = f[j - 4]

LEMMA Field ==
    ASSUME NEW u \in U32, NEW f \in Bytes
    PROVE  Led(wire_put_u32_be(u) \o f, u, f)
<1>. DEFINE h == wire_put_u32_be(u)
            b == h \o f
<1>1. h \in Bytes /\ Len(h) = 4 /\ wire_get_u32_be(h, 1) = u
  BY Put32
<1>. HIDE DEF h
<1>2. /\ b \in Bytes /\ Len(b) = 4 + Len(f) /\ Len(f) \in Nat
      /\ \A i \in 1 .. Len(f) : b[4 + i] = f[i]
  <2>1. /\ b \in Bytes /\ Len(b) = Len(h) + Len(f) /\ Len(f) \in Nat
        /\ \A i \in 1 .. Len(f) : b[Len(h) + i] = f[i]
    BY <1>1, Joined, Zenon
  <2>. HIDE DEF b
  <2>. QED  BY <1>1, <2>1
<1>3. wire_get_u32_be(b, 1) = u
  <2>1. 1 \in Nat \ {0} /\ 1 + 3 =< Len(h)
    BY <1>1
  <2>2. wire_get_u32_be(b, 1) = wire_get_u32_be(h, 1)
    BY <1>1, <2>1, GetBefore, Zenon
  <2>. QED  BY <1>1, <2>2
<1>4. ASSUME NEW j \in Nat, 4 < j
      PROVE  /\ j =< 1 + Len(f) => wire_get_u32_be(b, j) = wire_get_u32_be(f, j - 4)
             /\ j =< 3 + Len(f) => wire_get_u16_be(b, j) = wire_get_u16_be(f, j - 4)
  <2>1. PICK k \in Nat \ {0} : k = j - 4
    BY <1>4
  <2>2. 4 + k = j
    BY <2>1
  <2>3. /\ k + 3 =< Len(f) => wire_get_u32_be(b, 4 + k) = wire_get_u32_be(f, k)
        /\ k + 1 =< Len(f) => wire_get_u16_be(b, 4 + k) = wire_get_u16_be(f, k)
    BY <1>1, GetAfter
  <2>. QED  BY <1>2, <2>1, <2>2, <2>3
<1>5. ASSUME NEW j \in Nat, 4 < j, j =< 4 + Len(f) PROVE b[j] = f[j - 4]
  <2>1. j - 4 \in 1 .. Len(f) /\ 4 + (j - 4) = j
    BY <1>2, <1>5
  <2>. QED  BY <1>2, <2>1
<1>. HIDE DEF b
<1>7. Led(b, u, f)
  BY <1>2, <1>3, <1>4, <1>5 DEF Led
<1>. QED  BY <1>7 DEF b, h

\* The bytes from j to m of b are four places before in f.
Part(b, j, m) == SubSeq(b, j, m)
Rest(b, f) ==
    \A j \in Nat, m \in Nat : 4 < j /\ 3 < m /\ m =< 4 + Len(f) =>
        Part(b, j, m) = Part(f, j - 4, m - 4)

LEMMA LedRest == ASSUME NEW b, NEW u, NEW f, Led(b, u, f) PROVE Rest(b, f)
<1>. SUFFICES ASSUME NEW j \in Nat, NEW m \in Nat, 4 < j, 3 < m, m =< 4 + Len(f)
              PROVE  Part(b, j, m) = Part(f, j - 4, m - 4)
  BY DEF Rest
<1>1. SubSeq(b, j, m) = [i \in 1 .. (1 + m - j) |-> b[j + i - 1]]
  OBVIOUS
<1>2. SubSeq(f, j - 4, m - 4) = [i \in 1 .. (1 + (m - 4) - (j - 4)) |-> f[j - 4 + i - 1]]
  OBVIOUS
<1>3. ASSUME NEW i \in 1 .. (1 + m - j) PROVE b[j + i - 1] = f[j - 4 + i - 1]
  <2>. DEFINE x == j + i - 1
              y == j - 4 + i - 1
  <2>1. x \in Nat /\ 4 < x /\ x =< 4 + Len(f) /\ x - 4 = y
    BY DEF Led
  <2>. HIDE DEF x, y
  <2>2. b[x] = f[x - 4]
    BY <2>1 DEF Led
  <2>. QED  BY <2>1, <2>2 DEF x, y
<1>4. [i \in 1 .. (1 + m - j) |-> b[j + i - 1]]
        = [i \in 1 .. (1 + (m - 4) - (j - 4)) |-> f[j - 4 + i - 1]]
  <2>1. 1 + (m - 4) - (j - 4) = 1 + m - j
    OBVIOUS
  <2>. QED  BY <1>3, <2>1
<1>. QED  BY <1>1, <1>2, <1>4, Zenon DEF Part

LEMMA Grouped ==
    ASSUME NEW u \in U32, NEW v \in U32, NEW w \in U32, NEW f \in Bytes
    PROVE  wire_put_u32_be(u) \o wire_put_u32_be(v) \o wire_put_u32_be(w) \o f
             = wire_put_u32_be(u) \o wire_put_u32_be(v) \o (wire_put_u32_be(w) \o f)
<1>. DEFINE a == wire_put_u32_be(u)
            b == wire_put_u32_be(v)
            c == wire_put_u32_be(w)
<1>1. a \in Bytes /\ b \in Bytes /\ c \in Bytes
  BY Put32
<1>. HIDE DEF a, b, c
<1>. DEFINE d == a \o b
<1>2. d \in Bytes
  BY <1>1, Joined
<1>. HIDE DEF d
<1>3. d \o c \o f = d \o (c \o f)
  <2>1. d \in Seq(0 .. BYTE - 1) /\ c \in Seq(0 .. BYTE - 1) /\ f \in Seq(0 .. BYTE - 1)
    BY <1>1, <1>2 DEF Bytes
  <2>. QED  BY <2>1, ConcatAssociative
<1>. QED  BY <1>3, Zenon DEF a, b, c, d

\* The buffer b holds the integers u and g, and then f.
Led2(b, u, g, f) ==
    /\ b \in Bytes /\ f \in Bytes /\ Len(f) \in Nat /\ Len(b) = 8 + Len(f)
    /\ wire_get_u32_be(b, 1) = u /\ wire_get_u32_be(b, 5) = g
    /\ \A j \in Nat : 8 < j /\ j =< 5 + Len(f) => wire_get_u32_be(b, j) = wire_get_u32_be(f, j - 8)
    /\ \A j \in Nat : 8 < j /\ j =< 7 + Len(f) => wire_get_u16_be(b, j) = wire_get_u16_be(f, j - 8)
    /\ \A j \in Nat : 8 < j /\ j =< 8 + Len(f) => b[j] = f[j - 8]
    /\ \A j \in Nat, m \in Nat : 8 < j /\ 7 < m /\ m =< 8 + Len(f) =>
          Part(b, j, m) = Part(f, j - 8, m - 8)

LEMMA TwoFields ==
    ASSUME NEW u \in U32, NEW g \in U32, NEW f \in Bytes
    PROVE  Led2(wire_put_u32_be(u) \o wire_put_u32_be(g) \o f, u, g, f)
<1>. DEFINE e == wire_put_u32_be(g) \o f
            b == wire_put_u32_be(u) \o e
<1>1. b = wire_put_u32_be(u) \o wire_put_u32_be(g) \o f
  <2>1. wire_put_u32_be(u) \in Bytes /\ wire_put_u32_be(g) \in Bytes
    BY Put32
  <2>. QED  BY <2>1, ConcatAssociative DEF Bytes
<1>2. Led(e, g, f)
  BY Field
<1>3. Led(b, u, e)
  BY <1>2, Field DEF Led
<1>. HIDE DEF b, e
<1>4. /\ b \in Bytes /\ f \in Bytes /\ Len(f) \in Nat /\ Len(b) = 8 + Len(f)
      /\ wire_get_u32_be(b, 1) = u /\ wire_get_u32_be(b, 5) = g
  BY <1>2, <1>3 DEF Led
<1>5. Len(e) = 4 + Len(f) /\ Rest(b, e) /\ Rest(e, f)
  BY <1>2, <1>3, LedRest DEF Led
<1>6. ASSUME NEW j \in Nat, 8 < j
      PROVE  /\ j =< 5 + Len(f) => wire_get_u32_be(b, j) = wire_get_u32_be(f, j - 8)
             /\ j =< 7 + Len(f) => wire_get_u16_be(b, j) = wire_get_u16_be(f, j - 8)
             /\ j =< 8 + Len(f) => b[j] = f[j - 8]
  <2>1. PICK i \in Nat : i = j - 4 /\ 4 < i /\ i - 4 = j - 8
    BY <1>6
  <2>2. /\ j =< 5 + Len(f) => wire_get_u32_be(b, j) = wire_get_u32_be(e, i)
        /\ j =< 7 + Len(f) => wire_get_u16_be(b, j) = wire_get_u16_be(e, i)
        /\ j =< 8 + Len(f) => b[j] = e[i]
    BY <1>3, <1>4, <1>5, <2>1 DEF Led
  <2>3. /\ j =< 5 + Len(f) => wire_get_u32_be(e, i) = wire_get_u32_be(f, i - 4)
        /\ j =< 7 + Len(f) => wire_get_u16_be(e, i) = wire_get_u16_be(f, i - 4)
        /\ j =< 8 + Len(f) => e[i] = f[i - 4]
    BY <1>2, <1>4, <2>1 DEF Led
  <2>. QED  BY <2>1, <2>2, <2>3
<1>7. ASSUME NEW j \in Nat, NEW m \in Nat, 8 < j, 7 < m, m =< 8 + Len(f)
      PROVE  Part(b, j, m) = Part(f, j - 8, m - 8)
  <2>1. PICK i \in Nat, n \in Nat : i = j - 4 /\ n = m - 4
    BY <1>7
  <2>2. Part(b, j, m) = Part(e, i, n)
    BY <1>4, <1>5, <1>7, <2>1 DEF Rest
  <2>3. Part(e, i, n) = Part(f, i - 4, n - 4)
    BY <1>4, <1>5, <1>7, <2>1 DEF Rest
  <2>4. i - 4 = j - 8 /\ n - 4 = m - 8
    BY <2>1
  <2>. QED  BY <2>2, <2>3, <2>4
<1>8. Led2(b, u, g, f)
  BY <1>4, <1>6, <1>7 DEF Led2
<1>. QED  BY <1>1, <1>8

(***************************************************************************)
(* A text after its length.                                                *)
(***************************************************************************)
LEMMA KeptBytes ==
    ASSUME NEW t \in Bytes
    PROVE  /\ Kept(t) \in Bytes /\ Len(Kept(t)) = Len(t) % (BYTE * BYTE)
           /\ Len(Kept(t)) \in Nat /\ Len(t) \in Nat
<1>1. Len(t) \in Nat /\ BYTE * BYTE \in Nat \ {0}
  BY ByteBase, LenProperties DEF Bytes
<1>. DEFINE n == Len(t) % (BYTE * BYTE)
<1>2. n \in Nat /\ n =< Len(t)
  <2>1. /\ Len(t) \div (BYTE * BYTE) \in Nat /\ n \in 0 .. (BYTE * BYTE) - 1
        /\ Len(t) = (BYTE * BYTE) * (Len(t) \div (BYTE * BYTE)) + n
    BY <1>1, Division
  <2>2. (BYTE * BYTE) * (Len(t) \div (BYTE * BYTE)) \in Nat
    BY <1>1, <2>1, Times
  <2>. HIDE DEF n
  <2>. QED  BY <1>1, <2>1, <2>2
<1>3. Kept(t) = SubSeq(t, 1, n)
  BY DEF Kept
<1>. HIDE DEF n
<1>4. SubSeq(t, 1, n) \in Seq(0 .. BYTE - 1) /\ Len(SubSeq(t, 1, n)) = n
  <2>1. \A i \in 1 .. n : t[i] \in 0 .. BYTE - 1
    <3>1. \A i \in 1 .. Len(t) : t[i] \in 0 .. BYTE - 1
      BY Elements DEF Bytes
    <3>. QED  BY <1>1, <1>2, <3>1
  <2>2. 1 \in Int /\ n \in Int
    BY <1>2
  <2>3. /\ SubSeq(t, 1, n) \in Seq(0 .. BYTE - 1)
        /\ Len(SubSeq(t, 1, n)) = IF 1 <= n THEN n - 1 + 1 ELSE 0
    BY <2>1, <2>2, SubSeqProperties
  <2>. QED  BY <1>2, <2>3
<1>. QED  BY <1>1, <1>2, <1>3, <1>4 DEF Bytes, n

LEMMA TextBytes ==
    ASSUME NEW t \in Bytes
    PROVE  /\ Text(t) \in Bytes /\ Len(Text(t)) = 2 + Len(Kept(t))
           /\ wire_get_u16_be(Text(t), 1) = Len(Kept(t))
           /\ Part(Text(t), 3, 2 + Len(Kept(t))) = Kept(t)
<1>. DEFINE h == wire_put_u16_be(Len(t))
            k == Kept(t)
            b == h \o k
<1>1. k \in Bytes /\ Len(k) = Len(t) % (BYTE * BYTE) /\ Len(k) \in Nat /\ Len(t) \in Nat
  BY KeptBytes
<1>2. h \in Bytes /\ Len(h) = 2 /\ wire_get_u16_be(h, 1) = Len(t) % (BYTE * BYTE)
  BY <1>1, Put16
<1>. HIDE DEF h, k
<1>3. b \in Bytes /\ Len(b) = 2 + Len(k) /\ \A i \in 1 .. Len(k) : b[2 + i] = k[i]
  <2>1. /\ b \in Bytes /\ Len(b) = Len(h) + Len(k)
        /\ \A i \in 1 .. Len(k) : b[Len(h) + i] = k[i]
    BY <1>1, <1>2, Joined, Zenon
  <2>. HIDE DEF b
  <2>. QED  BY <1>2, <2>1
<1>4. wire_get_u16_be(b, 1) = Len(k)
  <2>1. 1 \in Nat \ {0} /\ 1 + 1 =< Len(h)
    BY <1>2
  <2>2. wire_get_u16_be(b, 1) = wire_get_u16_be(h, 1)
    BY <1>1, <1>2, <2>1, GetBefore, Zenon
  <2>. QED  BY <1>1, <1>2, <2>2
<1>5. SubSeq(b, 3, 2 + Len(k)) = k
  <2>1. SubSeq(b, 3, 2 + Len(k)) = [i \in 1 .. Len(k) |-> b[2 + i]]
    <3>. HIDE DEF b
    <3>. DEFINE m == 2 + Len(k)
    <3>1. SubSeq(b, 3, m) = [i \in 1 .. (1 + m - 3) |-> b[3 + i - 1]]
      OBVIOUS
    <3>2. 1 + m - 3 = Len(k)
      BY <1>1
    <3>3. \A i \in 1 .. Len(k) : 3 + i - 1 = 2 + i
      OBVIOUS
    <3>4. [i \in 1 .. (1 + m - 3) |-> b[3 + i - 1]] = [i \in 1 .. Len(k) |-> b[2 + i]]
      BY <3>2, <3>3
    <3>. QED  BY <3>1, <3>4, Zenon
  <2>2. k = [i \in 1 .. Len(k) |-> k[i]]
    BY <1>1 DEF Bytes
  <2>. QED  BY <1>3, <2>1, <2>2
<1>6. Text(t) = b /\ Kept(t) = k
  BY DEF Text, h, k
<1>. QED  BY <1>3, <1>4, <1>5, <1>6, Zenon DEF Part

(***************************************************************************)
(* Invitees, of eight bytes each.                                          *)
(***************************************************************************)
LEMMA InviteeBytes ==
    ASSUME NEW u \in U32
    PROVE  Invitee(u) \in Bytes /\ Len(Invitee(u)) = 8 /\ wire_get_u32_be(Invitee(u), 1) = u
<1>. DEFINE z == wire_put_zeros(4)
<1>1. z \in Bytes /\ Len(z) = 4
  <2>1. z = [i \in 1 .. 4 |-> 0] /\ 0 \in 0 .. BYTE - 1
    BY ByteBase DEF wire_put_zeros
  <2>2. z \in [1 .. 4 -> 0 .. BYTE - 1]
    BY <2>1
  <2>. QED  BY <2>2, SeqOf DEF Bytes
<1>. HIDE DEF z
<1>2. Led(wire_put_u32_be(u) \o z, u, z)
  BY <1>1, Field
<1>3. Invitee(u) = wire_put_u32_be(u) \o z
  BY DEF Invitee, z
<1>. QED  BY <1>1, <1>2, <1>3 DEF Led

\* Byte j of a list of invitees is a byte of invitee ((j - 1) \div 8) + 1.
Place(j) == ((j - 1) \div 8) + 1
Offset(j) == ((j - 1) % 8) + 1

LEMMA Places ==
    ASSUME NEW n \in Nat, NEW j \in 1 .. 8 * n
    PROVE  Place(j) \in 1 .. n /\ Offset(j) \in 1 .. 8 /\ j = 8 * (Place(j) - 1) + Offset(j)
BY DEF Place, Offset

LEMMA PlaceOf ==
    ASSUME NEW n \in Nat, NEW i \in 1 .. n, NEW m \in 1 .. 8, NEW j, j = 8 * (i - 1) + m
    PROVE  j \in 1 .. 8 * n /\ Place(j) = i /\ Offset(j) = m
BY DEF Place, Offset

LEMMA InviteesBytes ==
    ASSUME NEW ids \in Seq(U32)
    PROVE  /\ Invitees(ids) \in Bytes /\ Len(Invitees(ids)) = 8 * Len(ids) /\ Len(ids) \in Nat
           /\ \A i \in 1 .. Len(ids) : wire_get_u32_be(Invitees(ids), 8 * i - 7) = ids[i]
<1>. DEFINE n == Len(ids)
            f == Invitees(ids)
<1>1. n \in Nat /\ \A i \in 1 .. n : ids[i] \in U32
  OBVIOUS
<1>2. f = [j \in 1 .. 8 * n |-> Invitee(ids[Place(j)])[Offset(j)]]
  BY DEF Invitees, Place, Offset
<1>. HIDE DEF f, n
<1>3. ASSUME NEW i \in 1 .. n, NEW m \in 1 .. 8
      PROVE  f[8 * (i - 1) + m] = Invitee(ids[i])[m] /\ Invitee(ids[i])[m] \in 0 .. BYTE - 1
  <2>. DEFINE j == 8 * (i - 1) + m
  <2>1. j \in 1 .. 8 * n /\ Place(j) = i /\ Offset(j) = m
    BY <1>1, PlaceOf
  <2>. HIDE DEF j
  <2>2. f[j] = Invitee(ids[i])[m]
    BY <1>2, <2>1
  <2>3. Invitee(ids[i]) \in Bytes /\ Len(Invitee(ids[i])) = 8
    BY <1>1, InviteeBytes
  <2>4. Invitee(ids[i])[m] \in 0 .. BYTE - 1
    <3>1. \A k \in 1 .. Len(Invitee(ids[i])) : Invitee(ids[i])[k] \in 0 .. BYTE - 1
      BY <2>3, Elements DEF Bytes
    <3>. QED  BY <2>3, <3>1
  <2>. QED  BY <2>2, <2>4 DEF j
<1>4. f \in Bytes /\ Len(f) = 8 * n
  <2>1. ASSUME NEW j \in 1 .. 8 * n PROVE f[j] \in 0 .. BYTE - 1
    <3>1. Place(j) \in 1 .. n /\ Offset(j) \in 1 .. 8 /\ j = 8 * (Place(j) - 1) + Offset(j)
      BY <1>1, Places
    <3>. QED  BY <1>3, <3>1
  <2>2. f \in [1 .. 8 * n -> 0 .. BYTE - 1] /\ 8 * n \in Nat
    BY <1>1, <1>2, <2>1
  <2>3. f \in Seq(0 .. BYTE - 1) /\ Len(f) = 8 * n
    <3>. DEFINE m == 8 * n
    <3>. HIDE DEF m
    <3>1. f \in [1 .. m -> 0 .. BYTE - 1] /\ m \in Nat
      BY <2>2 DEF m
    <3>2. f \in Seq(0 .. BYTE - 1) /\ Len(f) = m
      BY <3>1, SeqOf
    <3>. QED  BY <3>2 DEF m
  <2>. QED  BY <2>3 DEF Bytes
<1>5. ASSUME NEW i \in 1 .. n PROVE wire_get_u32_be(f, 8 * i - 7) = ids[i]
  <2>1. /\ f[8 * (i - 1) + 1] = Invitee(ids[i])[1] /\ f[8 * (i - 1) + 2] = Invitee(ids[i])[2]
        /\ f[8 * (i - 1) + 3] = Invitee(ids[i])[3] /\ f[8 * (i - 1) + 4] = Invitee(ids[i])[4]
    BY <1>3
  <2>. DEFINE k == 8 * i - 7
  <2>2. /\ f[k] = Invitee(ids[i])[1] /\ f[k + 1] = Invitee(ids[i])[2]
        /\ f[k + 2] = Invitee(ids[i])[3] /\ f[k + 3] = Invitee(ids[i])[4]
    <3>1. /\ k = 8 * (i - 1) + 1 /\ k + 1 = 8 * (i - 1) + 2
          /\ k + 2 = 8 * (i - 1) + 3 /\ k + 3 = 8 * (i - 1) + 4
      BY <1>1
    <3>. HIDE DEF k
    <3>. QED  BY <2>1, <3>1
  <2>. HIDE DEF k
  <2>3. wire_get_u32_be(f, k) = wire_get_u32_be(Invitee(ids[i]), 1)
    <3>1. 1 + 1 = 2 /\ 1 + 2 = 3 /\ 1 + 3 = 4
      OBVIOUS
    <3>. QED  BY <2>2, <3>1 DEF wire_get_u32_be
  <2>4. wire_get_u32_be(Invitee(ids[i]), 1) = ids[i]
    BY <1>1, InviteeBytes
  <2>. QED  BY <2>3, <2>4 DEF k
<1>. QED  BY <1>1, <1>4, <1>5 DEF f, n

(***************************************************************************)
(* What the server reads in each request.                                  *)
(***************************************************************************)

LEMMA PostBytes ==
    ASSUME NEW u \in U32, NEW g \in U32, NEW t \in Bytes, NEW b, Led2(b, u, g, Text(t))
    PROVE  /\ b \in Bytes /\ Len(b) = 10 + Len(Kept(t)) /\ Len(Kept(t)) \in Nat
           /\ wire_get_u32_be(b, 1) = u /\ wire_get_u32_be(b, 5) = g
           /\ wire_get_u16_be(b, 9) = Len(Kept(t))
           /\ Part(b, 11, 10 + Len(Kept(t))) = Kept(t)
<1>. DEFINE n == Len(Kept(t))
            f == Text(t)
<1>1. /\ f \in Bytes /\ Len(f) = 2 + n /\ n \in Nat
      /\ wire_get_u16_be(f, 1) = n /\ Part(f, 3, 2 + n) = Kept(t)
  BY TextBytes, KeptBytes
<1>2. Led2(b, u, g, f)
  OBVIOUS
<1>. HIDE DEF n, f
<1>3. /\ b \in Bytes /\ Len(b) = 10 + n /\ n \in Nat
      /\ wire_get_u32_be(b, 1) = u /\ wire_get_u32_be(b, 5) = g
      /\ wire_get_u16_be(b, 9) = n
      /\ Part(b, 11, 10 + n) = Kept(t)
  BY <1>1, <1>2 DEF Led2
<1>. QED  BY <1>3 DEF n

\* The command c with the text t.
WithText(c, t) == [c EXCEPT !.text = t]
WithNumb(c, m) == [c EXCEPT !.numb = m]

LEMMA ReadPost ==
    ASSUME NEW u \in U32, NEW g \in U32, NEW t \in Bytes, NEW c,
           c = WithText(Command("POST", u, g), t)
    PROVE  Sent(c) \in Bytes /\ Read("POST", Sent(c)) = WithText(c, Kept(t))
<1>. DEFINE b == Sent(c)
            n == Len(Kept(t))
<1>1. b = wire_put_u32_be(u) \o wire_put_u32_be(g) \o Text(t)
  <2>1. c.code = "POST" /\ c.uid = u /\ c.idg = g /\ c.text = t
    BY DEF Command, WithText, WithNumb
  <2>. QED  BY <2>1 DEF Sent, cmd_post
<1>. HIDE DEF b
<1>2. /\ b \in Bytes /\ Len(b) = 10 + n /\ n \in Nat
      /\ wire_get_u32_be(b, 1) = u /\ wire_get_u32_be(b, 5) = g
      /\ wire_get_u16_be(b, 9) = n /\ Part(b, 11, 10 + n) = Kept(t)
  <2>1. Text(t) \in Bytes
    BY TextBytes
  <2>2. Led2(b, u, g, Text(t))
    BY <1>1, <2>1, TwoFields
  <2>. QED  BY <2>2, PostBytes
<1>3. Header["POST"] = 10 /\ "POST" \in DOMAIN Header
  BY DEF Header
<1>4. Announced("POST", b) = n
  BY <1>2 DEF Announced
<1>5. Read("POST", b) = Fields("POST", b)
  BY <1>2, <1>3, <1>4 DEF Read, Whole, Sound
<1>6. Fields("POST", b) = [Command("POST", u, g) EXCEPT !.text = Kept(t)]
  BY <1>2, <1>3, <1>4 DEF Fields, Part
<1>7. [Command("POST", u, g) EXCEPT !.text = Kept(t)] = WithText(c, Kept(t))
  BY DEF Command, WithText, WithNumb
<1>. QED  BY <1>2, <1>5, <1>6, <1>7 DEF b

LEMMA NewGroupBytes ==
    ASSUME NEW u \in U32, NEW t \in Bytes, NEW b, Led(b, u, Text(t))
    PROVE  /\ b \in Bytes /\ Len(b) = 6 + Len(Kept(t)) /\ Len(Kept(t)) \in Nat
           /\ wire_get_u32_be(b, 1) = u /\ wire_get_u16_be(b, 5) = Len(Kept(t))
           /\ Part(b, 7, 6 + Len(Kept(t))) = Kept(t)
<1>. DEFINE n == Len(Kept(t))
            f == Text(t)
<1>1. /\ f \in Bytes /\ Len(f) = 2 + n /\ n \in Nat
      /\ wire_get_u16_be(f, 1) = n /\ Part(f, 3, 2 + n) = Kept(t)
  BY TextBytes, KeptBytes
<1>2. Led(b, u, f) /\ Rest(b, f)
  BY LedRest
<1>. HIDE DEF n, f
<1>3. /\ b \in Bytes /\ Len(b) = 6 + n /\ wire_get_u32_be(b, 1) = u /\ wire_get_u16_be(b, 5) = n
  BY <1>1, <1>2 DEF Led
<1>4. Part(b, 7, 6 + n) = Kept(t)
  BY <1>1, <1>2 DEF Rest
<1>. QED  BY <1>1, <1>3, <1>4 DEF n

LEMMA ReadNewGroup ==
    ASSUME NEW u \in U32, NEW t \in Bytes, NEW c, c = WithText(Command("NEW_GROUP", u, 0), t)
    PROVE  /\ Sent(c) \in Bytes
           /\ Read("NEW_GROUP", Sent(c)) = IF Kept(t) = << >> THEN Bad ELSE WithText(c, Kept(t))
<1>. DEFINE b == Sent(c)
            n == Len(Kept(t))
            f == Text(t)
<1>1. b = wire_put_u32_be(u) \o f
  <2>1. c.code = "NEW_GROUP" /\ c.uid = u /\ c.text = t
    BY DEF Command, WithText, WithNumb
  <2>. QED  BY <2>1 DEF Sent, cmd_newgroup
<1>2. f \in Bytes /\ n \in Nat
  BY TextBytes, KeptBytes
<1>3. Led(b, u, f)
  <2>. HIDE DEF b, f
  <2>. QED  BY <1>1, <1>2, Field
<1>4. n = 0 <=> Kept(t) = << >>
  BY KeptBytes, EmptySeq DEF Bytes
<1>. HIDE DEF b
<1>5. /\ b \in Bytes /\ Len(b) = 6 + n /\ wire_get_u32_be(b, 1) = u /\ wire_get_u16_be(b, 5) = n
  BY <1>3, NewGroupBytes
<1>6. Part(b, 7, 6 + n) = Kept(t)
  BY <1>3, NewGroupBytes
<1>. HIDE DEF n, f
<1>7. Header["NEW_GROUP"] = 6 /\ "NEW_GROUP" \in DOMAIN Header
  BY DEF Header
<1>8. Announced("NEW_GROUP", b) = n
  BY <1>5 DEF Announced
<1>9. Read("NEW_GROUP", b) = IF n = 0 THEN Bad ELSE Fields("NEW_GROUP", b)
  BY <1>2, <1>5, <1>7, <1>8 DEF Read, Whole, Sound
<1>10. Fields("NEW_GROUP", b) = [Command("NEW_GROUP", u, 0) EXCEPT !.text = Kept(t)]
  BY <1>5, <1>6, <1>7, <1>8 DEF Fields, Part
<1>11. [Command("NEW_GROUP", u, 0) EXCEPT !.text = Kept(t)] = WithText(c, Kept(t))
  BY DEF Command, WithText, WithNumb
<1>. QED  BY <1>4, <1>5, <1>9, <1>10, <1>11 DEF b

LEMMA InviteBytes ==
    ASSUME NEW u \in U32, NEW g \in U32, NEW ids \in Seq(U32), NEW b, NEW f,
           Led(f, Len(ids), Invitees(ids)), Led2(b, u, g, f)
    PROVE  /\ b \in Bytes /\ Len(b) = 12 + 8 * Len(ids) /\ Len(ids) \in Nat
           /\ wire_get_u32_be(b, 1) = u /\ wire_get_u32_be(b, 5) = g
           /\ wire_get_u32_be(b, 9) = Len(ids)
           /\ \A i \in 1 .. Len(ids) : wire_get_u32_be(b, 5 + 8 * i) = ids[i]
<1>. DEFINE n == Len(ids)
            l == Invitees(ids)
<1>2. /\ l \in Bytes /\ Len(l) = 8 * n /\ n \in Nat
      /\ \A i \in 1 .. n : wire_get_u32_be(l, 8 * i - 7) = ids[i]
  BY InviteesBytes
<1>3. Led(f, n, l) /\ Led2(b, u, g, f)
  OBVIOUS
<1>. HIDE DEF n, l
<1>4. Len(f) = 4 + 8 * n /\ wire_get_u32_be(f, 1) = n
  BY <1>2, <1>3 DEF Led
<1>5. /\ b \in Bytes /\ Len(b) = 12 + 8 * n /\ wire_get_u32_be(b, 1) = u /\ wire_get_u32_be(b, 5) = g
      /\ wire_get_u32_be(b, 9) = n
  BY <1>2, <1>3, <1>4 DEF Led2
<1>6. ASSUME NEW i \in 1 .. n PROVE wire_get_u32_be(b, 5 + 8 * i) = ids[i]
  <2>. DEFINE j == 5 + 8 * i
              k == 8 * i - 3
              m == 8 * i - 7
  <2>1. j \in Nat /\ 8 < j /\ j =< 5 + Len(f) /\ j - 8 = k
    BY <1>2, <1>3 DEF Led
  <2>2. k \in Nat /\ 4 < k /\ k =< 1 + Len(l) /\ k - 4 = m
    BY <1>2
  <2>3. wire_get_u32_be(l, m) = ids[i]
    BY <1>2
  <2>. HIDE DEF j, k, m
  <2>4. wire_get_u32_be(b, j) = wire_get_u32_be(f, j - 8)
    BY <1>3, <2>1 DEF Led2
  <2>5. wire_get_u32_be(f, k) = wire_get_u32_be(l, k - 4)
    BY <1>3, <2>2 DEF Led
  <2>6. wire_get_u32_be(b, j) = ids[i]
    BY <2>1, <2>2, <2>3, <2>4, <2>5
  <2>. QED  BY <2>6 DEF j
<1>. QED  BY <1>2, <1>5, <1>6 DEF n

LEMMA ReadInvite ==
    ASSUME NEW u \in U32, NEW g \in U32, NEW ids \in Seq(U32), Len(ids) \in U32, Len(ids) =< MAX_NB,
           NEW c, c = [Command("INVITE", u, g) EXCEPT !.ids = ids]
    PROVE  Sent(c) \in Bytes /\ Read("INVITE", Sent(c)) = c
<1>. DEFINE b == Sent(c)
            n == Len(ids)
            l == Invitees(ids)
            f == wire_put_u32_be(n) \o l
<1>1. b = wire_put_u32_be(u) \o wire_put_u32_be(g) \o f
  <2>1. c.code = "INVITE" /\ c.uid = u /\ c.idg = g /\ c.ids = ids
    BY DEF Command
  <2>2. b = wire_put_u32_be(u) \o wire_put_u32_be(g) \o wire_put_u32_be(n) \o l
    BY <2>1 DEF Sent, cmd_invite
  <2>3. n \in U32 /\ l \in Bytes
    BY InviteesBytes
  <2>. HIDE DEF l, n
  <2>. QED  BY <2>2, <2>3, Grouped, Zenon
<1>2. l \in Bytes /\ n \in Nat
  BY InviteesBytes
<1>3. Led(f, n, l)
  <2>. HIDE DEF l, n
  <2>1. n \in U32
    BY DEF n
  <2>. QED  BY <1>2, <2>1, Field
<1>. HIDE DEF b, f
<1>4. Led2(b, u, g, f)
  <2>1. f \in Bytes
    BY <1>3 DEF Led
  <2>. QED  BY <1>1, <2>1, TwoFields
<1>5. /\ b \in Bytes /\ Len(b) = 12 + 8 * n /\ wire_get_u32_be(b, 1) = u /\ wire_get_u32_be(b, 5) = g
      /\ wire_get_u32_be(b, 9) = n
  BY <1>3, <1>4, InviteBytes
<1>6. \A i \in 1 .. n : wire_get_u32_be(b, 5 + 8 * i) = ids[i]
  BY <1>3, <1>4, InviteBytes
<1>. HIDE DEF n, l
<1>7. Header["INVITE"] = 12 /\ "INVITE" \in DOMAIN Header
  BY DEF Header
<1>8. Announced("INVITE", b) = 8 * n
  BY <1>5 DEF Announced
<1>9. Read("INVITE", b) = Fields("INVITE", b)
  <2>1. n =< MAX_NB
    BY DEF n
  <2>. QED  BY <1>2, <1>5, <1>7, <1>8, <2>1 DEF Read, Whole, Sound
<1>10. ids = [i \in 1 .. n |-> wire_get_u32_be(b, 5 + 8 * i)]
  <2>1. ids = [i \in 1 .. n |-> ids[i]]
    BY DEF n
  <2>. QED  BY <1>6, <2>1
<1>11. Fields("INVITE", b)
         = [Command("INVITE", u, g) EXCEPT !.ids = [i \in 1 .. n |-> wire_get_u32_be(b, 5 + 8 * i)]]
  BY <1>5 DEF Fields
<1>. QED  BY <1>5, <1>9, <1>10, <1>11 DEF b

LEMMA ReadList ==
    ASSUME NEW u \in U32, NEW g \in U32
    PROVE  /\ Sent(Command("LIST_INV", u, 0)) \in Bytes
           /\ Read("LIST_INV", Sent(Command("LIST_INV", u, 0))) = Command("LIST_INV", u, 0)
           /\ Sent(Command("LIST_MEM", u, g)) \in Bytes
           /\ Read("LIST_MEM", Sent(Command("LIST_MEM", u, g))) = Command("LIST_MEM", u, g)
<1>. DEFINE c == Command("LIST_INV", u, 0)
            d == Command("LIST_MEM", u, g)
            b == Sent(c)
            e == Sent(d)
            h == wire_put_u32_be(g)
<1>1. h \in Bytes /\ Len(h) = 4 /\ wire_get_u32_be(h, 1) = g
  BY Put32
<1>2. b = wire_put_u32_be(u) /\ e = wire_put_u32_be(u) \o h
  BY DEF Sent, Command, cmd_listinv, cmd_listmem
<1>3. b \in Bytes /\ Len(b) = 4 /\ wire_get_u32_be(b, 1) = u
  BY <1>2, Put32
<1>. HIDE DEF h, b, e
<1>4. Led(e, u, h)
  BY <1>1, <1>2, Field
<1>5. e \in Bytes /\ Len(e) = 8 /\ wire_get_u32_be(e, 1) = u /\ wire_get_u32_be(e, 5) = g
  BY <1>1, <1>4 DEF Led
<1>6. /\ Header["LIST_INV"] = 4 /\ "LIST_INV" \in DOMAIN Header
      /\ Header["LIST_MEM"] = 8 /\ "LIST_MEM" \in DOMAIN Header
  BY DEF Header
<1>7. Announced("LIST_INV", b) = 0 /\ Announced("LIST_MEM", e) = 0
  BY DEF Announced
<1>8. Read("LIST_INV", b) = Fields("LIST_INV", b) /\ Read("LIST_MEM", e) = Fields("LIST_MEM", e)
  BY <1>3, <1>5, <1>6, <1>7 DEF Read, Whole, Sound
<1>9. Fields("LIST_INV", b) = c /\ Fields("LIST_MEM", e) = d
  BY <1>3, <1>5 DEF Fields
<1>. QED  BY <1>3, <1>5, <1>8, <1>9 DEF b, e

LEMMA ReadAnswer ==
    ASSUME NEW u \in U32, NEW g \in U32, NEW an \in 0 .. 2,
           NEW c, c = [Command("INV_ANS", u, g) EXCEPT !.an = an]
    PROVE  Sent(c) \in Bytes /\ Read("INV_ANS", Sent(c)) = c
<1>. DEFINE b == Sent(c)
            f == wire_put_u8(an)
<1>1. b = wire_put_u32_be(u) \o wire_put_u32_be(g) \o f
  <2>1. c.code = "INV_ANS" /\ c.uid = u /\ c.idg = g /\ c.an = an
    BY DEF Command
  <2>. QED  BY <2>1 DEF Sent, cmd_ans
<1>2. f \in Bytes /\ Len(f) = 1 /\ f[1] = an
  <2>1. an % BYTE = an
    BY ByteBase
  <2>2. an \in 0 .. BYTE - 1
    BY ByteBase
  <2>3. f = <<an>>
    BY <2>1 DEF wire_put_u8
  <2>. QED  BY <2>2, <2>3 DEF Bytes
<1>. HIDE DEF b, f
<1>3. Led2(b, u, g, f)
  BY <1>1, <1>2, TwoFields
<1>4. /\ b \in Bytes /\ Len(b) = 9 /\ wire_get_u32_be(b, 1) = u /\ wire_get_u32_be(b, 5) = g
      /\ b[9] = an
  BY <1>2, <1>3 DEF Led2
<1>5. Header["INV_ANS"] = 9 /\ "INV_ANS" \in DOMAIN Header
  BY DEF Header
<1>6. Announced("INV_ANS", b) = 0
  BY DEF Announced
<1>7. Read("INV_ANS", b) = Fields("INV_ANS", b)
  BY <1>4, <1>5, <1>6 DEF Read, Whole, Sound
<1>8. Fields("INV_ANS", b) = c
  BY <1>4 DEF Fields
<1>. QED  BY <1>4, <1>7, <1>8 DEF b

LEMMA ReplyBytes ==
    ASSUME NEW u \in U32, NEW g \in U32, NEW m \in U32, NEW t \in Bytes, NEW b, NEW e,
           Led(e, m, Text(t)), Led2(b, u, g, e)
    PROVE  /\ b \in Bytes /\ Len(b) = 14 + Len(Kept(t)) /\ Len(Kept(t)) \in Nat
           /\ wire_get_u32_be(b, 1) = u /\ wire_get_u32_be(b, 5) = g
           /\ wire_get_u32_be(b, 9) = m /\ wire_get_u16_be(b, 13) = Len(Kept(t))
           /\ Part(b, 15, 14 + Len(Kept(t))) = Kept(t)
<1>. DEFINE n == Len(Kept(t))
<1>1. n \in Nat
  BY KeptBytes
<1>2. /\ e \in Bytes /\ Len(e) = 6 + n /\ wire_get_u32_be(e, 1) = m
      /\ wire_get_u16_be(e, 5) = n /\ Part(e, 7, 6 + n) = Kept(t)
  BY NewGroupBytes
<1>. HIDE DEF n
<1>3. /\ b \in Bytes /\ Len(b) = 14 + n /\ wire_get_u32_be(b, 1) = u /\ wire_get_u32_be(b, 5) = g
      /\ wire_get_u32_be(b, 9) = m /\ wire_get_u16_be(b, 13) = n
  BY <1>1, <1>2 DEF Led2
<1>4. Part(b, 15, 14 + n) = Kept(t)
  BY <1>1, <1>2 DEF Led2
<1>. QED  BY <1>1, <1>3, <1>4 DEF n

LEMMA ReadReply ==
    ASSUME NEW u \in U32, NEW g \in U32, NEW m \in U32, NEW t \in Bytes, NEW c,
           c = WithText(WithNumb(Command("REPLY", u, g), m), t)
    PROVE  Sent(c) \in Bytes /\ Read("REPLY", Sent(c)) = WithText(c, Kept(t))
<1>. DEFINE b == Sent(c)
            n == Len(Kept(t))
            f == Text(t)
            e == wire_put_u32_be(m) \o f
<1>1. /\ f \in Bytes /\ Len(f) = 2 + n /\ n \in Nat
      /\ wire_get_u16_be(f, 1) = n /\ Part(f, 3, 2 + n) = Kept(t)
  BY TextBytes, KeptBytes
<1>2. b = wire_put_u32_be(u) \o wire_put_u32_be(g) \o e
  <2>1. c.code = "REPLY" /\ c.uid = u /\ c.idg = g /\ c.numb = m /\ c.text = t
    BY DEF Command, WithText, WithNumb
  <2>2. b = wire_put_u32_be(u) \o wire_put_u32_be(g) \o wire_put_u32_be(m) \o f
    BY <2>1 DEF Sent, cmd_reply
  <2>. HIDE DEF f
  <2>. QED  BY <1>1, <2>2, Grouped, Zenon
<1>3. Led(e, m, f)
  <2>. HIDE DEF f
  <2>. QED  BY <1>1, Field
<1>. HIDE DEF b, e
<1>4. Led2(b, u, g, e)
  <2>1. e \in Bytes
    BY <1>3 DEF Led
  <2>. QED  BY <1>2, <2>1, TwoFields
<1>7. /\ b \in Bytes /\ Len(b) = 14 + n /\ wire_get_u32_be(b, 1) = u /\ wire_get_u32_be(b, 5) = g
      /\ wire_get_u32_be(b, 9) = m /\ wire_get_u16_be(b, 13) = n
  BY <1>3, <1>4, ReplyBytes
<1>8. Part(b, 15, 14 + n) = Kept(t)
  BY <1>3, <1>4, ReplyBytes
<1>. HIDE DEF f, n
<1>9. Header["REPLY"] = 14 /\ "REPLY" \in DOMAIN Header
  BY DEF Header
<1>10. Announced("REPLY", b) = n
  BY <1>7 DEF Announced
<1>11. Read("REPLY", b) = Fields("REPLY", b)
  BY <1>1, <1>7, <1>9, <1>10 DEF Read, Whole, Sound
<1>12. Fields("REPLY", b) = [[Command("REPLY", u, g) EXCEPT !.numb = m] EXCEPT !.text = Kept(t)]
  BY <1>7, <1>8, <1>9, <1>10 DEF Fields, Part
<1>13. [[Command("REPLY", u, g) EXCEPT !.numb = m] EXCEPT !.text = Kept(t)] = WithText(c, Kept(t))
  BY DEF Command, WithText, WithNumb
<1>. QED  BY <1>7, <1>11, <1>12, <1>13 DEF b

LEMMA ReadFeed ==
    ASSUME NEW u \in U32, NEW g \in U32, NEW m \in U32, NEW r \in U32, NEW c,
           c = [WithNumb(Command("FEED", u, g), m) EXCEPT !.numr = r]
    PROVE  Sent(c) \in Bytes /\ Read("FEED", Sent(c)) = c
<1>. DEFINE b == Sent(c)
            f == wire_put_u32_be(r)
            e == wire_put_u32_be(m) \o f
<1>1. f \in Bytes /\ Len(f) = 4 /\ wire_get_u32_be(f, 1) = r
  BY Put32
<1>2. b = wire_put_u32_be(u) \o wire_put_u32_be(g) \o e
  <2>1. c.code = "FEED" /\ c.uid = u /\ c.idg = g /\ c.numb = m /\ c.numr = r
    BY DEF Command, WithNumb
  <2>2. b = wire_put_u32_be(u) \o wire_put_u32_be(g) \o wire_put_u32_be(m) \o f
    BY <2>1 DEF Sent, cmd_feed_request
  <2>3. f \in Bytes
    BY <1>1
  <2>. HIDE DEF b, f
  <2>4. wire_put_u32_be(u) \o wire_put_u32_be(g) \o wire_put_u32_be(m) \o f
          = wire_put_u32_be(u) \o wire_put_u32_be(g) \o (wire_put_u32_be(m) \o f)
    BY <2>3, Grouped
  <2>. QED  BY <2>2, <2>4, Zenon
<1>3. Led(e, m, f)
  BY <1>1, Field
<1>. HIDE DEF b, e, f
<1>4. Led2(b, u, g, e)
  BY <1>2, <1>3, TwoFields DEF Led
<1>5. Len(e) = 8 /\ wire_get_u32_be(e, 1) = m /\ wire_get_u32_be(e, 5) = r
  BY <1>1, <1>3 DEF Led
<1>6. /\ b \in Bytes /\ Len(b) = 16 /\ wire_get_u32_be(b, 1) = u /\ wire_get_u32_be(b, 5) = g
      /\ wire_get_u32_be(b, 9) = m /\ wire_get_u32_be(b, 13) = r
  BY <1>4, <1>5 DEF Led2
<1>7. Header["FEED"] = 16 /\ "FEED" \in DOMAIN Header
  BY DEF Header
<1>8. Announced("FEED", b) = 0
  BY DEF Announced
<1>9. Read("FEED", b) = Fields("FEED", b)
  BY <1>6, <1>7, <1>8 DEF Read, Whole, Sound
<1>10. Fields("FEED", b) = c
  BY <1>6 DEF Fields, WithNumb
<1>. QED  BY <1>6, <1>9, <1>10 DEF b

(***************************************************************************)
(* All requests whose numbers fit in their fields.                         *)
(***************************************************************************)
InviteeLists == {ids \in Seq(U32) : Len(ids) \in U32 /\ Len(ids) =< MAX_NB}
Sendable(c) ==
    \/ \E u \in U32, t \in Bytes : c = WithText(Command("NEW_GROUP", u, 0), t)
    \/ \E u \in U32, g \in U32, ids \in InviteeLists : c = [Command("INVITE", u, g) EXCEPT !.ids = ids]
    \/ \E u \in U32, g \in U32 : c = Command("LIST_INV", u, 0) \/ c = Command("LIST_MEM", u, g)
    \/ \E u \in U32, g \in U32, an \in 0 .. 2 : c = [Command("INV_ANS", u, g) EXCEPT !.an = an]
    \/ \E u \in U32, g \in U32, t \in Bytes : c = WithText(Command("POST", u, g), t)
    \/ \E u \in U32, g \in U32, m \in U32, t \in Bytes :
          c = WithText(WithNumb(Command("REPLY", u, g), m), t)
    \/ \E u \in U32, g \in U32, m \in U32, r \in U32 :
          c = [WithNumb(Command("FEED", u, g), m) EXCEPT !.numr = r]

Understood(c) ==
    IF c.code = "NEW_GROUP" /\ Kept(c.text) = << >> THEN Bad ELSE WithText(c, Kept(c.text))

LEMMA KeptNothing == Kept(<< >>) = << >>
<1>1. << >> \in Bytes
  BY DEF Bytes
<1>2. Kept(<< >>) \in Bytes /\ Len(Kept(<< >>)) = Len(<< >>) % (BYTE * BYTE)
  BY <1>1, KeptBytes
<1>3. Len(<< >>) = 0 /\ 0 % (BYTE * BYTE) = 0
  <2>1. BYTE * BYTE \in Nat \ {0}
    BY ByteBase
  <2>. QED  BY <2>1
<1>. QED  BY <1>2, <1>3, EmptySeq DEF Bytes

LEMMA RequestRead ==
    \A c : Sendable(c) => Sent(c) \in Bytes /\ Read(c.code, Sent(c)) = Understood(c)
<1>. SUFFICES ASSUME NEW c, Sendable(c)
              PROVE  Sent(c) \in Bytes /\ Read(c.code, Sent(c)) = Understood(c)
  OBVIOUS
<1>. DEFINE ok == Sent(c) \in Bytes /\ Read(c.code, Sent(c)) = Understood(c)
<1>1. ASSUME NEW u \in U32, NEW t \in Bytes, c = WithText(Command("NEW_GROUP", u, 0), t)
      PROVE  ok
  <2>1. c.code = "NEW_GROUP" /\ c.text = t
    BY <1>1 DEF Command, WithText
  <2>2. Understood(c) = IF Kept(t) = << >> THEN Bad ELSE WithText(c, Kept(t))
    BY <2>1 DEF Understood
  <2>. QED  BY <1>1, <2>1, <2>2, ReadNewGroup
<1>2. ASSUME NEW u \in U32, NEW g \in U32, NEW ids \in Seq(U32), Len(ids) \in U32, Len(ids) =< MAX_NB,
             c = [Command("INVITE", u, g) EXCEPT !.ids = ids]
      PROVE  ok
  <2>0. c = [code |-> "INVITE", uid |-> u, idg |-> g, numb |-> 0, numr |-> 0, an |-> 0, ids |-> ids,
             text |-> << >>]
    BY <1>2 DEF Command
  <2>1. c.code = "INVITE" /\ c.text = << >> /\ WithText(c, << >>) = c
    BY <2>0 DEF WithText
  <2>2. Understood(c) = c
    BY <2>1, KeptNothing DEF Understood
  <2>3. Sent(c) \in Bytes /\ Read("INVITE", Sent(c)) = c
    BY <1>2, ReadInvite
  <2>. QED  BY <2>1, <2>2, <2>3, Zenon
<1>3. ASSUME NEW u \in U32, NEW g \in U32,
             c = Command("LIST_INV", u, 0) \/ c = Command("LIST_MEM", u, g)
      PROVE  ok
  <2>1. Understood(c) = c /\ c.code = (IF c = Command("LIST_INV", u, 0) THEN "LIST_INV" ELSE "LIST_MEM")
    BY <1>3, KeptNothing DEF Command, Understood, WithText
  <2>. QED  BY <1>3, <2>1, ReadList
<1>4. ASSUME NEW u \in U32, NEW g \in U32, NEW an \in 0 .. 2,
             c = [Command("INV_ANS", u, g) EXCEPT !.an = an]
      PROVE  ok
  <2>0. c = [code |-> "INV_ANS", uid |-> u, idg |-> g, numb |-> 0, numr |-> 0, an |-> an, ids |-> << >>,
             text |-> << >>]
    BY <1>4 DEF Command
  <2>1. c.code = "INV_ANS" /\ c.text = << >> /\ WithText(c, << >>) = c
    BY <2>0 DEF WithText
  <2>2. Understood(c) = c
    BY <2>1, KeptNothing DEF Understood
  <2>3. Sent(c) \in Bytes /\ Read("INV_ANS", Sent(c)) = c
    BY <1>4, ReadAnswer
  <2>. QED  BY <2>1, <2>2, <2>3, Zenon
<1>5. ASSUME NEW u \in U32, NEW g \in U32, NEW t \in Bytes,
             c = WithText(Command("POST", u, g), t)
      PROVE  ok
  <2>1. c.code = "POST" /\ c.text = t
    BY <1>5 DEF Command, WithText
  <2>2. Understood(c) = WithText(c, Kept(t))
    BY <2>1 DEF Understood
  <2>3. Sent(c) \in Bytes /\ Read("POST", Sent(c)) = WithText(c, Kept(t))
    BY <1>5, ReadPost, Zenon
  <2>. QED  BY <2>1, <2>2, <2>3, Zenon
<1>6. ASSUME NEW u \in U32, NEW g \in U32, NEW m \in U32, NEW t \in Bytes,
             c = WithText(WithNumb(Command("REPLY", u, g), m), t)
      PROVE  ok
  <2>1. c.code = "REPLY" /\ c.text = t
    BY <1>6 DEF Command, WithText, WithNumb
  <2>2. Understood(c) = WithText(c, Kept(t))
    BY <2>1 DEF Understood
  <2>3. Sent(c) \in Bytes /\ Read("REPLY", Sent(c)) = WithText(c, Kept(t))
    BY <1>6, ReadReply, SMT
  <2>. QED  BY <2>1, <2>2, <2>3, Zenon
<1>7. ASSUME NEW u \in U32, NEW g \in U32, NEW m \in U32, NEW r \in U32,
             c = [WithNumb(Command("FEED", u, g), m) EXCEPT !.numr = r]
      PROVE  ok
  <2>0. c = [code |-> "FEED", uid |-> u, idg |-> g, numb |-> m, numr |-> r, an |-> 0, ids |-> << >>,
             text |-> << >>]
    BY <1>7 DEF Command, WithNumb
  <2>1. c.code = "FEED" /\ c.text = << >> /\ WithText(c, << >>) = c
    BY <2>0 DEF WithText
  <2>2. Understood(c) = c
    BY <2>1, KeptNothing DEF Understood
  <2>3. Sent(c) \in Bytes /\ Read("FEED", Sent(c)) = c
    BY <1>7, ReadFeed
  <2>. QED  BY <2>1, <2>2, <2>3, Zenon
<1>. HIDE DEF ok
<1>8. ok
  <2>1. Sendable(c)
    OBVIOUS
  <2>2. \A ids \in InviteeLists : ids \in Seq(U32) /\ Len(ids) \in U32 /\ Len(ids) =< MAX_NB
    BY DEF InviteeLists
  <2>. QED  BY <1>1, <1>2, <1>3, <1>4, <1>5, <1>6, <1>7, <2>1, <2>2, Zenon DEF Sendable
<1>. QED  BY <1>8 DEF ok

\* What may be typed: any text, and as many invitees as one likes.
Typed(c) ==
    \/ c.code # "INVITE" /\ Sendable(c)
    \/ \E u \in U32, g \in U32, ids \in Seq(U32) : c = [Command("INVITE", u, g) EXCEPT !.ids = ids]

\* A buffer that holds the invitees holds fewer than the server takes.
LEMMA FewEnough ==
    ASSUME NEW ids \in Seq(U32), 13 + 8 * Len(ids) =< INVITE_MSG
    PROVE  ids \in InviteeLists
<1>. DEFINE n == Len(ids)
            top == BYTE * BYTE * BYTE * BYTE - 1
<1>1. n \in Nat /\ MAX_NB \in 1 .. top /\ top \in Int /\ U32 = 0 .. top
  <2>1. top \in Int
    BY ByteBase
  <2>. QED  BY <2>1, WireLimits DEF U32
<1>. HIDE DEF n, top
<1>2. n =< MAX_NB
  BY <1>1, Buffers DEF n
<1>3. n \in U32
  BY <1>1, <1>2
<1>. QED  BY <1>2, <1>3 DEF InviteeLists, n

\* The server reads in the bytes of a request what was typed: every field, every invitee,
\* and the text as it is cut by its length on two bytes; only a group without a name is
\* turned down.  This holds of every request that fits in the buffer of its command, 512
\* bytes for a new group and 2048 for an invitation, which no command checks
\* (src/src/client.c puts the request in bytes, src/src/server.c reads it).
THEOREM EveryRequestRead ==
    \A c : Typed(c) /\ Fits(c) => Sent(c) \in Bytes /\ Read(c.code, Sent(c)) = Understood(c)
<1>. SUFFICES ASSUME NEW c, Typed(c), Fits(c) PROVE Sendable(c)
  BY RequestRead
<1>1. ASSUME NEW u \in U32, NEW g \in U32, NEW ids \in Seq(U32),
             c = [Command("INVITE", u, g) EXCEPT !.ids = ids]
      PROVE  Sendable(c)
  <2>1. c.code = "INVITE" /\ c.ids = ids
    BY <1>1 DEF Command
  <2>2. 13 + 8 * Len(ids) =< INVITE_MSG
    BY <2>1 DEF Fits
  <2>3. ids \in InviteeLists
    BY <2>2, FewEnough
  <2>. QED  BY <1>1, <2>3, Zenon DEF Sendable
<1>. QED  BY <1>1, Zenon DEF Typed

(***************************************************************************)
(* Induction over the natural numbers: a property that fails somewhere     *)
(* fails at a least number.                                                *)
(***************************************************************************)
LEMMA LeastNat ==
    ASSUME NEW T \in SUBSET Nat, T # {}
    PROVE  \E x \in T : \A y \in T : x =< y
<1>. DEFINE R == OpToRel(<, Nat)
<1>1. IsWellFoundedOn(R, Nat)
  BY NatLessThanWellFounded
<1>2. \A a, b \in Nat : <<a, b>> \in R <=> a < b
  BY DEF OpToRel
<1>. HIDE DEF R
<1>3. PICK x \in T : \A y \in T : ~(<<y, x>> \in R)
  BY <1>1, WFMin
<1>4. \A y \in T : ~(y < x)
  BY <1>2, <1>3
<1>. QED  BY <1>4

(***************************************************************************)
(* The answer to FEED: the bytes of its first k lines.                     *)
(***************************************************************************)
IsUpto(u, idg, lines, n, m) ==
    u = [k \in 0 .. m |->
            IF k = 0 THEN wire_put_u32_be(idg) \o wire_put_u32_be(n)
            ELSE u[k - 1] \o LineBytes(lines[k])]
Upto(idg, lines) == CHOOSE u : IsUpto(u, idg, lines, Len(lines), Len(lines))

LEMMA FeedUpto == ASSUME NEW idg, NEW lines PROVE FeedBytes(idg, lines) = Upto(idg, lines)[Len(lines)]
BY DEF FeedBytes, Upto, IsUpto

LEMMA UptoExists ==
    ASSUME NEW idg, NEW lines, NEW n, NEW m \in Nat
    PROVE  \E u : IsUpto(u, idg, lines, n, m)
<1>. DEFINE Lacks(x) == ~ \E u : IsUpto(u, idg, lines, n, x)
            T == {x \in Nat : Lacks(x)}
<1>. SUFFICES ASSUME Lacks(m) PROVE FALSE
  OBVIOUS
<1>1. PICK x \in T : \A y \in T : x =< y
  <2>1. T \in SUBSET Nat /\ m \in T
    OBVIOUS
  <2>. HIDE DEF T
  <2>. QED  BY <2>1, LeastNat
<1>2. x \in Nat /\ Lacks(x)
  OBVIOUS
<1>3. CASE x = 0
  <2>. DEFINE u == [k \in 0 .. 0 |-> wire_put_u32_be(idg) \o wire_put_u32_be(n)]
  <2>1. IsUpto(u, idg, lines, n, 0)
    <3>1. [k \in 0 .. 0 |-> wire_put_u32_be(idg) \o wire_put_u32_be(n)]
            = [k \in 0 .. 0 |-> IF k = 0 THEN wire_put_u32_be(idg) \o wire_put_u32_be(n)
                                ELSE u[k - 1] \o LineBytes(lines[k])]
      <4>1. \A k \in 0 .. 0 : k = 0
        OBVIOUS
      <4>. HIDE DEF u
      <4>. QED  BY <4>1
    <3>. QED  BY <3>1 DEF IsUpto
  <2>. QED  BY <1>2, <1>3, <2>1
<1>4. CASE x # 0
  <2>1. x - 1 \in Nat /\ ~(x =< x - 1)
    BY <1>2, <1>4
  <2>2. PICK v : IsUpto(v, idg, lines, n, x - 1)
    BY <1>1, <2>1
  <2>. DEFINE base == wire_put_u32_be(idg) \o wire_put_u32_be(n)
              last == v[x - 1] \o LineBytes(lines[x])
              u == [k \in 0 .. x |-> IF k = x THEN last ELSE v[k]]
  <2>. HIDE DEF base, last
  <2>3. \A k \in 0 .. x - 1 : v[k] = IF k = 0 THEN base ELSE v[k - 1] \o LineBytes(lines[k])
    BY <2>2 DEF IsUpto, base
  <2>4. \A k \in 0 .. x - 1 : u[k] = v[k]
    BY <1>2
  <2>5. u[x] = last
    BY <1>2
  <2>6. u = [k \in 0 .. x |-> u[k]]
    OBVIOUS
  <2>. HIDE DEF u
  <2>7. ASSUME NEW k \in 0 .. x PROVE u[k] = IF k = 0 THEN base ELSE u[k - 1] \o LineBytes(lines[k])
    <3>1. CASE k = x
      <4>1. x - 1 \in 0 .. x - 1 /\ k # 0 /\ k - 1 = x - 1
        BY <1>2, <1>4, <3>1
      <4>2. u[k - 1] = v[x - 1]
        BY <2>4, <4>1
      <4>3. u[k] = v[x - 1] \o LineBytes(lines[x])
        BY <2>5, <3>1, Zenon DEF last
      <4>4. u[k] = u[k - 1] \o LineBytes(lines[k])
        BY <3>1, <4>2, <4>3, Zenon
      <4>. QED  BY <4>1, <4>4
    <3>2. CASE k # x
      <4>1. k \in 0 .. x - 1 /\ (k # 0 => k - 1 \in 0 .. x - 1)
        BY <1>2, <3>2
      <4>2. CASE k = 0
        <5>1. u[k] = v[k] /\ v[k] = base
          BY <2>3, <2>4, <4>1, <4>2
        <5>. QED  BY <4>2, <5>1
      <4>3. CASE k # 0
        <5>1. u[k] = v[k] /\ u[k - 1] = v[k - 1] /\ v[k] = v[k - 1] \o LineBytes(lines[k])
          BY <2>3, <2>4, <4>1, <4>3
        <5>2. u[k] = u[k - 1] \o LineBytes(lines[k])
          BY <5>1, Zenon
        <5>. QED  BY <4>3, <5>2
      <4>. QED  BY <4>2, <4>3
    <3>. QED  BY <3>1, <3>2
  <2>8. u = [k \in 0 .. x |-> IF k = 0 THEN base ELSE u[k - 1] \o LineBytes(lines[k])]
    BY <2>6, <2>7
  <2>9. IsUpto(u, idg, lines, n, x)
    BY <2>8, Zenon DEF IsUpto, base
  <2>. QED  BY <1>2, <2>9
<1>. QED  BY <1>3, <1>4

LEMMA UptoIs ==
    ASSUME NEW idg, NEW lines, Len(lines) \in Nat
    PROVE  /\ Upto(idg, lines)[0] = wire_put_u32_be(idg) \o wire_put_u32_be(Len(lines))
           /\ \A k \in 1 .. Len(lines) :
                 Upto(idg, lines)[k] = Upto(idg, lines)[k - 1] \o LineBytes(lines[k])
<1>. DEFINE u == Upto(idg, lines)
            n == Len(lines)
            base == wire_put_u32_be(idg) \o wire_put_u32_be(n)
<1>1. IsUpto(u, idg, lines, n, n)
  <2>1. \E v : IsUpto(v, idg, lines, n, n)
    BY UptoExists
  <2>. QED  BY <2>1, Zenon DEF Upto
<1>2. u = [k \in 0 .. n |-> IF k = 0 THEN base ELSE u[k - 1] \o LineBytes(lines[k])]
  BY <1>1, Zenon DEF IsUpto
<1>. HIDE DEF u, n, base
<1>3. \A k \in 0 .. n : u[k] = IF k = 0 THEN base ELSE u[k - 1] \o LineBytes(lines[k])
  BY <1>2
<1>4. n \in Nat
  BY DEF n
<1>5. u[0] = base /\ \A k \in 1 .. n : u[k] = u[k - 1] \o LineBytes(lines[k])
  <2>1. ASSUME NEW k \in 1 .. n PROVE u[k] = u[k - 1] \o LineBytes(lines[k])
    <3>1. k \in 0 .. n /\ k # 0
      BY <1>4
    <3>. QED  BY <1>3, <3>1, Zenon
  <2>2. 0 \in 0 .. n
    BY <1>4
  <2>. QED  BY <1>3, <2>1, <2>2, Zenon
<1>. QED  BY <1>5 DEF u, n, base

(***************************************************************************)
(* Lines whose numbers fit in their fields, and texts in their length.     *)
(***************************************************************************)
ShortText == {t \in Bytes : Len(t) < BYTE * BYTE}
LineType == [author : U32, numb : U32, numr : U32, text : ShortText]

LEMMA ShortKept ==
    ASSUME NEW t \in ShortText
    PROVE  t \in Bytes /\ Kept(t) = t /\ Len(t) \in Nat
<1>1. t \in Bytes /\ Len(t) \in Nat /\ Len(t) < BYTE * BYTE /\ BYTE * BYTE \in Nat \ {0}
  BY ByteBase, KeptBytes DEF ShortText
<1>2. Len(t) % (BYTE * BYTE) = Len(t)
  <2>. DEFINE n == Len(t)
              d == BYTE * BYTE
  <2>. HIDE DEF n, d
  <2>1. n = d * 0 + n /\ n \in 0 .. d - 1 /\ n \in Nat /\ d \in Nat \ {0}
    BY <1>1 DEF n, d
  <2>2. n % d = n
    BY <2>1, DivisionUnique
  <2>. QED  BY <2>2 DEF n, d
<1>3. SubSeq(t, 1, Len(t)) = t
  BY <1>1 DEF Bytes
<1>. QED  BY <1>1, <1>2, <1>3 DEF Kept

LEMMA LineRead ==
    ASSUME NEW l \in LineType, NEW f, f = LineBytes(l)
    PROVE  /\ f \in Bytes /\ Len(f) = 14 + Len(l.text) /\ Len(l.text) \in Nat
           /\ wire_get_u32_be(f, 1) = l.author /\ wire_get_u32_be(f, 5) = l.numb
           /\ wire_get_u32_be(f, 9) = l.numr /\ wire_get_u16_be(f, 13) = Len(l.text)
           /\ Part(f, 15, 14 + Len(l.text)) = l.text
<1>. DEFINE a == l.author
            m == l.numb
            r == l.numr
            t == l.text
            h == Text(t)
            e == wire_put_u32_be(r) \o h
            b == LineBytes(l)
<1>1. a \in U32 /\ m \in U32 /\ r \in U32 /\ t \in ShortText
  BY DEF LineType
<1>2. b = wire_put_u32_be(a) \o wire_put_u32_be(m) \o wire_put_u32_be(r) \o h
  BY DEF LineBytes
<1>. HIDE DEF a, m, r, t, b
<1>3. t \in Bytes /\ Kept(t) = t /\ Len(t) \in Nat
  BY <1>1, ShortKept
<1>4. h \in Bytes
  BY <1>3, TextBytes
<1>5. b = wire_put_u32_be(a) \o wire_put_u32_be(m) \o e
  <2>. HIDE DEF h
  <2>1. wire_put_u32_be(a) \o wire_put_u32_be(m) \o wire_put_u32_be(r) \o h
          = wire_put_u32_be(a) \o wire_put_u32_be(m) \o (wire_put_u32_be(r) \o h)
    BY <1>1, <1>4, Grouped
  <2>. QED  BY <1>2, <2>1, Zenon
<1>6. Led(e, r, h)
  <2>. HIDE DEF h
  <2>. QED  BY <1>1, <1>4, Field
<1>7. e \in Bytes
  BY <1>6 DEF Led
<1>8. Led2(b, a, m, e)
  <2>. HIDE DEF e
  <2>. QED  BY <1>1, <1>5, <1>7, TwoFields
<1>9. /\ b \in Bytes /\ Len(b) = 14 + Len(Kept(t)) /\ Len(Kept(t)) \in Nat
      /\ wire_get_u32_be(b, 1) = a /\ wire_get_u32_be(b, 5) = m
      /\ wire_get_u32_be(b, 9) = r /\ wire_get_u16_be(b, 13) = Len(Kept(t))
      /\ Part(b, 15, 14 + Len(Kept(t))) = Kept(t)
  <2>. HIDE DEF e
  <2>. QED  BY <1>1, <1>3, <1>6, <1>8, ReplyBytes
<1>10. /\ b \in Bytes /\ Len(b) = 14 + Len(t) /\ Len(t) \in Nat
       /\ wire_get_u32_be(b, 1) = a /\ wire_get_u32_be(b, 5) = m
       /\ wire_get_u32_be(b, 9) = r /\ wire_get_u16_be(b, 13) = Len(t)
       /\ Part(b, 15, 14 + Len(t)) = t
  BY <1>3, <1>9
<1>. QED  BY <1>10 DEF a, m, r, t, b

LEMMA UptoBytes ==
    ASSUME NEW idg \in U32, NEW lines \in Seq(LineType), Len(lines) \in U32
    PROVE  \A k \in 0 .. Len(lines) : Upto(idg, lines)[k] \in Bytes /\ Len(Upto(idg, lines)[k]) \in Nat
<1>. DEFINE u == Upto(idg, lines)
            n == Len(lines)
            T == {k \in Nat : k =< n /\ u[k] \notin Bytes}
<1>1. n \in Nat /\ \A k \in 1 .. n : lines[k] \in LineType
  OBVIOUS
<1>2. /\ u[0] = wire_put_u32_be(idg) \o wire_put_u32_be(n)
      /\ \A k \in 1 .. n : u[k] = u[k - 1] \o LineBytes(lines[k])
  BY <1>1, UptoIs
<1>3. u[0] \in Bytes
  <2>1. wire_put_u32_be(idg) \in Bytes /\ wire_put_u32_be(n) \in Bytes
    BY Put32
  <2>. QED  BY <1>2, <2>1, Joined
<1>. HIDE DEF u, n
<1>4. T = {}
  <2>. SUFFICES ASSUME T # {} PROVE FALSE
    OBVIOUS
  <2>1. PICK x \in T : \A y \in T : x =< y
    <3>1. T \in SUBSET Nat
      OBVIOUS
    <3>. HIDE DEF T
    <3>. QED  BY <3>1, LeastNat
  <2>2. x \in 1 .. n /\ u[x] \notin Bytes /\ x - 1 \notin T /\ x - 1 \in Nat /\ x - 1 =< n
    <3>1. x # 0
      BY <1>3
    <3>2. ~(x =< x - 1)
      OBVIOUS
    <3>. QED  BY <1>1, <2>1, <3>1, <3>2
  <2>3. u[x - 1] \in Bytes
    BY <2>2
  <2>4. LineBytes(lines[x]) \in Bytes
    BY <1>1, <2>2, LineRead
  <2>5. u[x - 1] \o LineBytes(lines[x]) \in Bytes
    BY <2>3, <2>4, Joined
  <2>. QED  BY <1>2, <2>2, <2>5, Zenon
<1>5. \A k \in 0 .. n : u[k] \in Bytes
  BY <1>1, <1>4
<1>6. \A f \in Bytes : Len(f) \in Nat
  BY LenProperties DEF Bytes
<1>. QED  BY <1>5, <1>6 DEF u, n

\* What comes before a line does not depend on what follows.
Extends(g, f) == Len(f) =< Len(g) /\ \A i \in 1 .. Len(f) : g[i] = f[i]

LEMMA UptoExtends ==
    ASSUME NEW idg \in U32, NEW lines \in Seq(LineType), Len(lines) \in U32,
           NEW k \in 0 .. Len(lines), NEW m \in k .. Len(lines)
    PROVE  Extends(Upto(idg, lines)[m], Upto(idg, lines)[k])
<1>. DEFINE u == Upto(idg, lines)
            n == Len(lines)
            T == {y \in Nat : k =< y /\ y =< n /\ ~Extends(u[y], u[k])}
<1>1. n \in Nat /\ k \in Nat /\ m \in Nat /\ \A j \in 1 .. n : lines[j] \in LineType
  OBVIOUS
<1>2. \A j \in 1 .. n : u[j] = u[j - 1] \o LineBytes(lines[j])
  BY <1>1, UptoIs
<1>3. \A j \in 0 .. n : u[j] \in Bytes /\ Len(u[j]) \in Nat
  BY UptoBytes
<1>. HIDE DEF u, n
<1>4. T = {}
  <2>. SUFFICES ASSUME T # {} PROVE FALSE
    OBVIOUS
  <2>1. PICK x \in T : \A y \in T : x =< y
    <3>1. T \in SUBSET Nat
      OBVIOUS
    <3>. HIDE DEF T
    <3>. QED  BY <3>1, LeastNat
  <2>2. Extends(u[k], u[k])
    <3>1. k \in 0 .. n
      BY DEF n
    <3>. QED  BY <1>3, <3>1 DEF Extends
  <2>3. x \in 1 .. n /\ ~Extends(u[x], u[k]) /\ x - 1 \notin T /\ x - 1 \in 0 .. n /\ k =< x - 1
    <3>1. x # k
      BY <2>2
    <3>2. ~(x =< x - 1)
      OBVIOUS
    <3>. QED  BY <1>1, <2>1, <3>1, <3>2
  <2>4. Extends(u[x - 1], u[k])
    BY <2>3
  <2>. DEFINE v == u[x - 1]
              f == LineBytes(lines[x])
  <2>5. f \in Bytes
    BY <1>1, <2>3, LineRead
  <2>6. v \in Bytes
    BY <1>3, <2>3
  <2>. HIDE DEF v, f
  <2>7. Extends(v \o f, v)
    <3>1. /\ Len(v \o f) = Len(v) + Len(f) /\ Len(v) \in Nat /\ Len(f) \in Nat
          /\ \A i \in 1 .. Len(v) : (v \o f)[i] = v[i]
      BY <2>5, <2>6, Joined
    <3>. QED  BY <3>1 DEF Extends
  <2>8. Extends(u[x], v)
    BY <1>2, <2>3, <2>7, Zenon DEF v, f
  <2>9. Extends(u[x], u[k])
    <3>1. Len(u[x]) \in Nat /\ Len(v) \in Nat /\ Len(u[k]) \in Nat
      <4>1. k \in 0 .. n /\ x \in 0 .. n
        BY <2>3 DEF n
      <4>. QED  BY <1>3, <2>3, <4>1 DEF v
    <3>2. Extends(v, u[k])
      BY <2>4 DEF v
    <3>. QED  BY <2>8, <3>1, <3>2 DEF Extends
  <2>. QED  BY <2>3, <2>9
<1>5. m =< n /\ k =< m
  BY <1>1 DEF n
<1>6. Extends(u[m], u[k])
  BY <1>1, <1>4, <1>5
<1>. QED  BY <1>6 DEF u

(***************************************************************************)
(* What cmd_feed prints: the lines from each place on.                     *)
(***************************************************************************)
Follows(b, k) == k + 14 + wire_get_u16_be(b, k + 12)
IsFrom(f, b, m) ==
    f = [k \in m .. Len(b) + 1 |->
            IF WholeAt(b, k) THEN <<LineAt(b, k)>> \o f[Follows(b, k)] ELSE << >>]
From(b) == CHOOSE f : IsFrom(f, b, 1)
Least(m, n) == IF m < n THEN m ELSE n

LEMMA PrintedFrom ==
    ASSUME NEW b
    PROVE  Printed(b) = IF Len(b) < 8 THEN << >>
                        ELSE SubSeq(From(b)[9], 1, Least(wire_get_u32_be(b, 5), Len(From(b)[9])))
BY DEF Printed, From, IsFrom, Follows, Least

LEMMA FollowsInside ==
    ASSUME NEW b \in Bytes, NEW k \in 1 .. Len(b) + 1, WholeAt(b, k)
    PROVE  Follows(b, k) \in k + 1 .. Len(b) + 1
<1>1. Len(b) \in Nat /\ \A i \in 1 .. Len(b) : b[i] \in 0 .. BYTE - 1
  BY Elements DEF Bytes
<1>2. BYTE \in Nat
  BY ByteBase
<1>3. k \in Nat /\ 1 =< k /\ k + 13 =< Len(b) /\ k + 13 + wire_get_u16_be(b, k + 12) =< Len(b)
  BY <1>1 DEF WholeAt
<1>4. k + 12 \in 1 .. Len(b) /\ k + 12 + 1 \in 1 .. Len(b)
  BY <1>1, <1>3
<1>5. b[k + 12] \in Nat /\ b[k + 12 + 1] \in Nat
  BY <1>1, <1>2, <1>4
<1>6. wire_get_u16_be(b, k + 12) \in Nat
  <2>1. b[k + 12] * BYTE \in Nat
    BY <1>2, <1>5, Times
  <2>. QED  BY <1>5, <2>1 DEF wire_get_u16_be
<1>. QED  BY <1>1, <1>3, <1>6 DEF Follows

LEMMA FromExists ==
    ASSUME NEW b \in Bytes, NEW m \in 1 .. Len(b) + 1
    PROVE  \E f : IsFrom(f, b, m)
<1>. DEFINE n == Len(b) + 1
            Lacks(x) == ~ \E f : IsFrom(f, b, n - x)
            T == {x \in Nat : x < n /\ Lacks(x)}
<1>0. Len(b) \in Nat
  BY Elements DEF Bytes
<1>1. n \in Nat /\ n - m \in Nat /\ n - m < n /\ n - (n - m) = m
  BY <1>0
<1>. SUFFICES ASSUME Lacks(n - m) PROVE FALSE
  BY <1>1
<1>. HIDE DEF Lacks
<1>2. PICK x \in T : \A y \in T : x =< y
  <2>1. T \in SUBSET Nat /\ n - m \in T
    BY <1>1
  <2>. HIDE DEF T
  <2>. QED  BY <2>1, LeastNat
<1>3. x \in Nat /\ x < n /\ Lacks(x)
  OBVIOUS
<1>. DEFINE j == n - x
            tail(v) == IF WholeAt(b, j) THEN <<LineAt(b, j)>> \o v[Follows(b, j)] ELSE << >>
            e(v, k) == IF WholeAt(b, k) THEN <<LineAt(b, k)>> \o v[Follows(b, k)] ELSE << >>
<1>4. j \in 1 .. n /\ j \in Nat
  BY <1>1, <1>3
<1>5. \E v : \A k \in j + 1 .. n : v[k] = e(v, k)
  <2>1. CASE x = 0
    <3>1. j + 1 .. n = {}
      BY <1>1, <2>1
    <3>. QED  BY <3>1
  <2>2. CASE x # 0
    <3>1. x - 1 \in Nat /\ x - 1 < n /\ ~(x =< x - 1) /\ n - (x - 1) = j + 1
      BY <1>1, <1>3, <2>2
    <3>2. ~Lacks(x - 1)
      BY <1>2, <3>1
    <3>3. PICK v : IsFrom(v, b, j + 1)
      BY <3>1, <3>2 DEF Lacks
    <3>4. v = [k \in j + 1 .. n |-> e(v, k)]
      BY <3>3 DEF IsFrom
    <3>5. \A k \in j + 1 .. n : v[k] = e(v, k)
      <4>. HIDE DEF j, n, e
      <4>. QED  BY <3>4
    <3>. QED  BY <3>5
  <2>. QED  BY <2>1, <2>2
<1>6. PICK v : \A k \in j + 1 .. n : v[k] = e(v, k)
  BY <1>5
<1>. DEFINE first == tail(v)
            f == [k \in j .. n |-> IF k = j THEN first ELSE v[k]]
<1>7. \A k \in j .. n : WholeAt(b, k) => Follows(b, k) \in k + 1 .. n
  <2>. SUFFICES ASSUME NEW k \in j .. n, WholeAt(b, k) PROVE Follows(b, k) \in k + 1 .. n
    OBVIOUS
  <2>1. k \in 1 .. Len(b) + 1
    BY <1>1, <1>4
  <2>. QED  BY <2>1, FollowsInside
<1>8. \A k \in j + 1 .. n : f[k] = v[k]
  BY <1>1, <1>4
<1>9. f[j] = first
  BY <1>1, <1>4
<1>10. f = [k \in j .. n |-> f[k]]
  OBVIOUS
<1>. HIDE DEF f
<1>11. ASSUME NEW k \in j .. n PROVE f[k] = e(f, k)
  <2>1. ASSUME WholeAt(b, k) PROVE f[Follows(b, k)] = v[Follows(b, k)]
    <3>1. Follows(b, k) \in j + 1 .. n
      BY <1>1, <1>4, <1>7, <2>1
    <3>. QED  BY <1>8, <3>1
  <2>2. e(f, k) = e(v, k)
    BY <2>1, Zenon
  <2>3. CASE k = j
    <3>1. first = e(v, k)
      BY <2>3, Zenon
    <3>. HIDE DEF first, e
    <3>. QED  BY <1>9, <2>2, <2>3, <3>1
  <2>4. CASE k # j
    <3>1. k \in j + 1 .. n
      BY <1>1, <1>4, <2>4
    <3>. HIDE DEF e
    <3>. QED  BY <1>6, <1>8, <2>2, <3>1
  <2>. QED  BY <2>3, <2>4
<1>12. f = [k \in j .. n |-> e(f, k)]
  <2>. HIDE DEF e
  <2>. QED  BY <1>10, <1>11
<1>13. IsFrom(f, b, j)
  BY <1>12, Zenon DEF IsFrom
<1>. QED  BY <1>3, <1>13 DEF Lacks

LEMMA FromIs ==
    ASSUME NEW b \in Bytes, NEW k \in 1 .. Len(b) + 1
    PROVE  From(b)[k] = IF WholeAt(b, k) THEN <<LineAt(b, k)>> \o From(b)[Follows(b, k)] ELSE << >>
<1>. DEFINE f == From(b)
            e(j) == IF WholeAt(b, j) THEN <<LineAt(b, j)>> \o f[Follows(b, j)] ELSE << >>
<1>1. IsFrom(f, b, 1)
  <2>1. 1 \in 1 .. Len(b) + 1
    <3>1. Len(b) \in Nat
      BY Elements DEF Bytes
    <3>. QED  BY <3>1
  <2>2. \E v : IsFrom(v, b, 1)
    BY <2>1, FromExists
  <2>. QED  BY <2>2, Zenon DEF From
<1>2. f = [j \in 1 .. Len(b) + 1 |-> e(j)]
  BY <1>1, Zenon DEF IsFrom
<1>3. f[k] = e(k)
  <2>. HIDE DEF f, e
  <2>. QED  BY <1>2
<1>. QED  BY <1>3, Zenon DEF f, e

\* From place P on, the buffer b holds f, or as much of it as there is room for.
Inside(b, P, f) == \A i \in Nat : 0 < i /\ i =< Len(f) /\ P + i =< Len(b) => b[P + i] = f[i]

LEMMA InsideGet ==
    ASSUME NEW b, NEW f, NEW P \in Nat, Len(b) \in Nat, Len(f) \in Nat, Inside(b, P, f),
           NEW k \in Nat \ {0}
    PROVE  /\ k + 3 =< Len(f) /\ P + k + 3 =< Len(b) =>
                wire_get_u32_be(b, P + k) = wire_get_u32_be(f, k)
           /\ k + 1 =< Len(f) /\ P + k + 1 =< Len(b) =>
                wire_get_u16_be(b, P + k) = wire_get_u16_be(f, k)
<1>1. P + (k + 1) = P + k + 1 /\ P + (k + 2) = P + k + 2 /\ P + (k + 3) = P + k + 3
  OBVIOUS
<1>2. ASSUME k + 3 =< Len(f), P + k + 3 =< Len(b)
      PROVE  wire_get_u32_be(b, P + k) = wire_get_u32_be(f, k)
  <2>0. \A i \in {k, k + 1, k + 2, k + 3} : b[P + i] = f[i]
    <3>. SUFFICES ASSUME NEW i \in {k, k + 1, k + 2, k + 3} PROVE b[P + i] = f[i]
      OBVIOUS
    <3>1. i \in Nat /\ 0 < i /\ i =< Len(f) /\ P + i =< Len(b)
      BY <1>2
    <3>. QED  BY <3>1 DEF Inside
  <2>1. /\ b[P + k] = f[k] /\ b[P + k + 1] = f[k + 1]
        /\ b[P + k + 2] = f[k + 2] /\ b[P + k + 3] = f[k + 3]
    BY <1>1, <2>0
  <2>. QED  BY <2>1 DEF wire_get_u32_be
<1>3. ASSUME k + 1 =< Len(f), P + k + 1 =< Len(b)
      PROVE  wire_get_u16_be(b, P + k) = wire_get_u16_be(f, k)
  <2>1. b[P + k] = f[k] /\ b[P + k + 1] = f[k + 1]
    BY <1>1, <1>3 DEF Inside
  <2>. QED  BY <2>1 DEF wire_get_u16_be
<1>. QED  BY <1>2, <1>3

LEMMA InsidePart ==
    ASSUME NEW b, NEW f, NEW P \in Nat, Len(b) \in Nat, Len(f) \in Nat, Inside(b, P, f),
           NEW j \in Nat \ {0}, NEW m \in Nat, m =< Len(f), P + m =< Len(b)
    PROVE  Part(b, P + j, P + m) = Part(f, j, m)
<1>1. SubSeq(b, P + j, P + m) = [i \in 1 .. (1 + (P + m) - (P + j)) |-> b[P + j + i - 1]]
  OBVIOUS
<1>2. SubSeq(f, j, m) = [i \in 1 .. (1 + m - j) |-> f[j + i - 1]]
  OBVIOUS
<1>3. ASSUME NEW i \in 1 .. (1 + m - j) PROVE b[P + j + i - 1] = f[j + i - 1]
  <2>. DEFINE x == j + i - 1
  <2>1. x \in Nat /\ 0 < x /\ x =< Len(f) /\ P + x =< Len(b) /\ P + x = P + j + i - 1
    OBVIOUS
  <2>. HIDE DEF x
  <2>2. b[P + x] = f[x]
    BY <2>1 DEF Inside
  <2>. QED  BY <2>1, <2>2 DEF x
<1>4. [i \in 1 .. (1 + (P + m) - (P + j)) |-> b[P + j + i - 1]] = [i \in 1 .. (1 + m - j) |-> f[j + i - 1]]
  <2>1. 1 + (P + m) - (P + j) = 1 + m - j
    OBVIOUS
  <2>. QED  BY <1>3, <2>1
<1>. QED  BY <1>1, <1>2, <1>4, Zenon DEF Part

LEMMA LineFound ==
    ASSUME NEW b \in Bytes, NEW P \in Nat, NEW l \in LineType, NEW f, f = LineBytes(l),
           Inside(b, P, f)
    PROVE  /\ P + Len(f) =< Len(b) =>
                /\ WholeAt(b, P + 1) /\ LineAt(b, P + 1) = l
                /\ Follows(b, P + 1) = P + Len(f) + 1
           /\ Len(b) < P + Len(f) => ~WholeAt(b, P + 1)
<1>. DEFINE t == l.text
            n == Len(t)
<1>1. /\ f \in Bytes /\ Len(f) = 14 + n /\ n \in Nat
      /\ wire_get_u32_be(f, 1) = l.author /\ wire_get_u32_be(f, 5) = l.numb
      /\ wire_get_u32_be(f, 9) = l.numr /\ wire_get_u16_be(f, 13) = n
      /\ Part(f, 15, 14 + n) = t
  BY LineRead
<1>2. Len(b) \in Nat /\ Len(f) \in Nat
  BY Elements DEF Bytes
<1>. HIDE DEF n, t
<1>3. ASSUME P + 14 =< Len(b) PROVE wire_get_u16_be(b, P + 13) = n
  <2>1. 13 \in Nat \ {0} /\ 13 + 1 =< Len(f) /\ P + 13 + 1 =< Len(b)
    BY <1>1, <1>2, <1>3
  <2>2. wire_get_u16_be(b, P + 13) = wire_get_u16_be(f, 13)
    BY <1>2, <2>1, InsideGet
  <2>. QED  BY <1>1, <2>2
<1>4. P + 1 + 12 = P + 13 /\ P + 1 + 13 = P + 14 /\ P + 1 + 14 = P + 15 /\ P + 1 + 4 = P + 5
      /\ P + 1 + 8 = P + 9
  OBVIOUS
<1>5. ASSUME Len(b) < P + Len(f) PROVE ~WholeAt(b, P + 1)
  <2>. SUFFICES ASSUME WholeAt(b, P + 1) PROVE FALSE
    OBVIOUS
  <2>1. P + 14 =< Len(b) /\ P + 14 + wire_get_u16_be(b, P + 13) =< Len(b)
    BY <1>4 DEF WholeAt
  <2>. QED  BY <1>1, <1>2, <1>3, <1>5, <2>1
<1>6. ASSUME P + Len(f) =< Len(b)
      PROVE  /\ WholeAt(b, P + 1) /\ LineAt(b, P + 1) = l
             /\ Follows(b, P + 1) = P + Len(f) + 1
  <2>1. P + 14 =< Len(b) /\ wire_get_u16_be(b, P + 13) = n
    BY <1>1, <1>2, <1>3, <1>6
  <2>2. WholeAt(b, P + 1)
    BY <1>1, <1>2, <1>4, <1>6, <2>1 DEF WholeAt
  <2>3. Follows(b, P + 1) = P + Len(f) + 1
    BY <1>1, <1>2, <1>4, <2>1 DEF Follows
  <2>4. /\ wire_get_u32_be(b, P + 1) = l.author /\ wire_get_u32_be(b, P + 5) = l.numb
        /\ wire_get_u32_be(b, P + 9) = l.numr
    <3>1. \A k \in {1, 5, 9} : k \in Nat \ {0} /\ k + 3 =< Len(f) /\ P + k + 3 =< Len(b)
      BY <1>1, <1>2, <1>6
    <3>2. \A k \in {1, 5, 9} : wire_get_u32_be(b, P + k) = wire_get_u32_be(f, k)
      BY <1>2, <3>1, InsideGet
    <3>. QED  BY <1>1, <3>2
  <2>5. Part(b, P + 15, P + 14 + n) = t
    <3>1. 15 \in Nat \ {0} /\ 14 + n \in Nat /\ 14 + n =< Len(f) /\ P + (14 + n) =< Len(b)
      BY <1>1, <1>2, <1>6
    <3>2. Part(b, P + 15, P + (14 + n)) = Part(f, 15, 14 + n)
      BY <1>2, <3>1, InsidePart
    <3>3. P + (14 + n) = P + 14 + n
      BY <1>1
    <3>. QED  BY <1>1, <3>2, <3>3
  <2>6. LineAt(b, P + 1) = l
    <3>1. LineAt(b, P + 1)
            = [author |-> wire_get_u32_be(b, P + 1), numb |-> wire_get_u32_be(b, P + 5),
               numr |-> wire_get_u32_be(b, P + 9), text |-> Part(b, P + 15, P + 14 + wire_get_u16_be(b, P + 13))]
      BY <1>4 DEF LineAt, Part
    <3>2. LineAt(b, P + 1) = [author |-> l.author, numb |-> l.numb, numr |-> l.numr, text |-> t]
      BY <2>1, <2>4, <2>5, <3>1, Zenon
    <3>3. l = [author |-> l.author, numb |-> l.numb, numr |-> l.numr, text |-> l.text]
      BY DEF LineType
    <3>. QED  BY <3>2, <3>3, Zenon DEF t
  <2>. QED  BY <2>2, <2>3, <2>6
<1>. QED  BY <1>5, <1>6

(***************************************************************************)
(* A part of the answer to FEED.                                           *)
(***************************************************************************)
LEMMA Taken ==
    ASSUME NEW F \in Bytes, NEW n \in 0 .. Len(F), NEW b, b = Part(F, 1, n)
    PROVE  b \in Bytes /\ Len(b) = n /\ \A i \in 1 .. n : b[i] = F[i]
<1>1. Len(F) \in Nat /\ \A i \in 1 .. Len(F) : F[i] \in 0 .. BYTE - 1
  BY Elements DEF Bytes
<1>2. SubSeq(F, 1, n) = [i \in 1 .. (1 + n - 1) |-> F[1 + i - 1]]
  OBVIOUS
<1>3. [i \in 1 .. (1 + n - 1) |-> F[1 + i - 1]] = [i \in 1 .. n |-> F[i]]
  <2>1. 1 + n - 1 = n /\ \A i \in 1 .. n : 1 + i - 1 = i
    BY <1>1
  <2>. QED  BY <2>1
<1>4. b = [i \in 1 .. n |-> F[i]]
  BY <1>2, <1>3, Zenon DEF Part
<1>5. b \in [1 .. n -> 0 .. BYTE - 1]
  BY <1>1, <1>4
<1>6. b \in Seq(0 .. BYTE - 1) /\ Len(b) = n
  <2>1. n \in Nat
    BY <1>1
  <2>. QED  BY <1>5, <2>1, SeqOf, Zenon
<1>7. \A i \in 1 .. n : b[i] = F[i]
  BY <1>4
<1>. QED  BY <1>6, <1>7 DEF Bytes

\* Line j + 1 of the answer stands after the bytes of the first j lines.
LEMMA LineInside ==
    ASSUME NEW g \in U32, NEW L \in Seq(LineType), Len(L) \in U32,
           NEW n \in 0 .. Len(FeedBytes(g, L)), NEW b, b = Part(FeedBytes(g, L), 1, n),
           NEW j \in 0 .. Len(L) - 1
    PROVE  /\ Inside(b, Len(Upto(g, L)[j]), LineBytes(L[j + 1]))
           /\ Len(Upto(g, L)[j + 1]) = Len(Upto(g, L)[j]) + Len(LineBytes(L[j + 1]))
<1>. DEFINE u == Upto(g, L)
            N == Len(L)
            F == FeedBytes(g, L)
            v == u[j]
            f == LineBytes(L[j + 1])
<1>1. N \in Nat /\ j \in Nat /\ j + 1 \in 1 .. N /\ j \in 0 .. N /\ j + 1 \in 0 .. N
      /\ N \in j + 1 .. N /\ j + 1 - 1 = j
  OBVIOUS
<1>2. L[j + 1] \in LineType
  BY <1>1
<1>3. F = u[N]
  BY FeedUpto
<1>4. \A k \in 0 .. N : u[k] \in Bytes /\ Len(u[k]) \in Nat
  BY UptoBytes
<1>5. u[j + 1] = v \o f
  <2>1. \A k \in 1 .. N : u[k] = u[k - 1] \o LineBytes(L[k])
    BY <1>1, UptoIs
  <2>2. PICK k \in 1 .. N : k = j + 1 /\ k - 1 = j
    BY <1>1
  <2>3. u[k] = u[k - 1] \o LineBytes(L[k])
    BY <2>1
  <2>. QED  BY <2>2, <2>3, Zenon
<1>6. f \in Bytes
  BY <1>2, LineRead
<1>7. v \in Bytes
  BY <1>1, <1>4
<1>8. Extends(F, u[j + 1])
  BY <1>1, <1>3, UptoExtends
<1>9. F \in Bytes /\ Len(F) \in Nat
  BY <1>1, <1>3, <1>4
<1>. HIDE DEF u, N, F, v, f
<1>10. b \in Bytes /\ Len(b) = n /\ \A i \in 1 .. n : b[i] = F[i]
  BY <1>9, Taken DEF F
<1>11. /\ Len(v \o f) = Len(v) + Len(f) /\ Len(v) \in Nat /\ Len(f) \in Nat
       /\ \A i \in 1 .. Len(f) : (v \o f)[Len(v) + i] = f[i]
  BY <1>6, <1>7, Joined
<1>12. Len(u[j + 1]) = Len(v) + Len(f) /\ \A i \in 1 .. Len(f) : u[j + 1][Len(v) + i] = f[i]
  BY <1>5, <1>11, Zenon
<1>13. Inside(b, Len(v), f)
  <2>. SUFFICES ASSUME NEW i \in Nat, 0 < i, i =< Len(f), Len(v) + i =< Len(b)
                PROVE  b[Len(v) + i] = f[i]
    BY DEF Inside
  <2>1. n \in Nat
    BY <1>9 DEF F
  <2>2. Len(v) + i \in 1 .. n /\ i \in 1 .. Len(f) /\ Len(v) + i \in 1 .. Len(u[j + 1])
    BY <1>10, <1>11, <1>12, <2>1
  <2>3. b[Len(v) + i] = F[Len(v) + i]
    BY <1>10, <2>2
  <2>4. F[Len(v) + i] = u[j + 1][Len(v) + i]
    BY <1>8, <2>2 DEF Extends
  <2>. QED  BY <1>12, <2>2, <2>3, <2>4
<1>14. Len(u[j + 1]) = Len(v) + Len(f)
  BY <1>12
<1>. QED  BY <1>13, <1>14 DEF u, v, f

\* Lines j + 1 to i of L.
Lines(L, j, i) == SubSeq(L, j + 1, i)

LEMMA LinesFrom ==
    ASSUME NEW S, NEW L \in Seq(S), NEW j \in 0 .. Len(L) - 1, NEW i \in j + 1 .. Len(L)
    PROVE  <<L[j + 1]>> \o Lines(L, j + 1, i) = Lines(L, j, i)
<1>1. j \in Nat /\ i \in Nat /\ Len(L) \in Nat
  OBVIOUS
<1>. DEFINE s == <<L[j + 1]>>
            t == SubSeq(L, j + 1 + 1, i)
            r == SubSeq(L, j + 1, i)
<1>2. L[j + 1] \in S
  BY <1>1
<1>3. s \in Seq(S) /\ Len(s) = 1 /\ s[1] = L[j + 1]
  BY <1>2
<1>4. t \in Seq(S) /\ Len(t) = i - j - 1 /\ \A k \in 1 .. i - j - 1 : t[k] = L[j + 1 + k]
  BY <1>1
<1>5. r \in Seq(S) /\ Len(r) = i - j /\ \A k \in 1 .. i - j : r[k] = L[j + k]
  BY <1>1
<1>. HIDE DEF s, t, r
<1>6. /\ s \o t \in Seq(S) /\ Len(s \o t) = i - j
      /\ \A k \in 1 .. i - j : (s \o t)[k] = IF k = 1 THEN s[1] ELSE t[k - 1]
  <2>1. /\ s \o t \in Seq(S) /\ Len(s \o t) = Len(s) + Len(t)
        /\ \A k \in 1 .. Len(s) + Len(t) : (s \o t)[k] = IF k <= Len(s) THEN s[k] ELSE t[k - Len(s)]
    <3>1. s \in Seq(S) /\ t \in Seq(S)
      BY <1>3, <1>4
    <3>. QED  BY <3>1, ConcatProperties, Zenon
  <2>2. Len(s) + Len(t) = i - j /\ \A k \in 1 .. i - j : k <= 1 <=> k = 1
    BY <1>1, <1>3, <1>4
  <2>. QED  BY <1>3, <2>1, <2>2
<1>7. \A k \in 1 .. i - j : (s \o t)[k] = r[k]
  <2>. SUFFICES ASSUME NEW k \in 1 .. i - j PROVE (s \o t)[k] = r[k]
    OBVIOUS
  <2>1. CASE k = 1
    BY <1>1, <1>3, <1>5, <1>6, <2>1
  <2>2. CASE k # 1
    <3>1. k - 1 \in 1 .. i - j - 1 /\ j + 1 + (k - 1) = j + k
      BY <1>1, <2>2
    <3>. QED  BY <1>4, <1>5, <1>6, <2>2, <3>1
  <2>. QED  BY <2>1, <2>2
<1>8. s \o t = r
  BY <1>5, <1>6, <1>7, SeqEqual
<1>. QED  BY <1>8 DEF Lines, s, t, r

\* The lines printed from line j + 1 on, when n bytes of the answer arrived.
Prints(g, L, n, j) ==
    \E i \in j .. Len(L) :
        /\ From(Part(FeedBytes(g, L), 1, n))[Len(Upto(g, L)[j]) + 1] = Lines(L, j, i)
        /\ j < Len(L) /\ Len(Upto(g, L)[j + 1]) =< n => i > j

LEMMA PrintsLast ==
    ASSUME NEW g \in U32, NEW L \in Seq(LineType), Len(L) \in U32,
           NEW n \in 0 .. Len(FeedBytes(g, L)), NEW j, j = Len(L), Len(Upto(g, L)[j]) =< n
    PROVE  Prints(g, L, n, j)
<1>. DEFINE N == Len(L)
            F == FeedBytes(g, L)
            b == Part(F, 1, n)
<1>1. N \in Nat /\ N \in 0 .. N
  OBVIOUS
<1>2. F = Upto(g, L)[N] /\ Upto(g, L)[N] \in Bytes /\ Len(Upto(g, L)[N]) \in Nat
  BY <1>1, FeedUpto, UptoBytes
<1>3. n = Len(Upto(g, L)[j]) /\ n \in Nat
  BY <1>2
<1>4. b \in Bytes /\ Len(b) = n
  <2>. HIDE DEF b
  <2>. QED  BY <1>2, Taken DEF b
<1>. HIDE DEF b, F
<1>5. n + 1 \in 1 .. Len(b) + 1 /\ ~WholeAt(b, n + 1)
  BY <1>3, <1>4 DEF WholeAt
<1>6. From(b)[n + 1] = << >>
  BY <1>4, <1>5, FromIs
<1>7. Lines(L, j, j) = << >>
  BY <1>1 DEF Lines
<1>8. j \in j .. Len(L) /\ ~(j < Len(L))
  BY <1>1
<1>. QED  BY <1>3, <1>6, <1>7, <1>8 DEF Prints, b, F

LEMMA PrintsNext ==
    ASSUME NEW g \in U32, NEW L \in Seq(LineType), Len(L) \in U32,
           NEW n \in 0 .. Len(FeedBytes(g, L)), NEW j \in 0 .. Len(L) - 1,
           Len(Upto(g, L)[j]) =< n,
           Len(Upto(g, L)[j + 1]) =< n => Prints(g, L, n, j + 1)
    PROVE  Prints(g, L, n, j)
<1>. DEFINE N == Len(L)
            F == FeedBytes(g, L)
            b == Part(F, 1, n)
            P == Len(Upto(g, L)[j])
            Q == Len(Upto(g, L)[j + 1])
            f == LineBytes(L[j + 1])
<1>1. N \in Nat /\ N \in 0 .. N /\ j \in 0 .. N /\ j \in Nat /\ j + 1 \in 0 .. N /\ j + 1 \in 1 .. N
  OBVIOUS
<1>2. F = Upto(g, L)[N] /\ Upto(g, L)[N] \in Bytes /\ P \in Nat /\ Q \in Nat /\ L[j + 1] \in LineType
  <2>1. \A k \in 0 .. N : Upto(g, L)[k] \in Bytes /\ Len(Upto(g, L)[k]) \in Nat
    BY UptoBytes
  <2>2. F = Upto(g, L)[N] /\ L[j + 1] \in LineType
    BY <1>1, FeedUpto
  <2>. HIDE DEF F
  <2>. QED  BY <1>1, <2>1, <2>2
<1>3. Inside(b, P, f) /\ Q = P + Len(f)
  BY LineInside
<1>4. b \in Bytes /\ Len(b) = n
  <2>. HIDE DEF b
  <2>. QED  BY <1>2, Taken DEF b
<1>. HIDE DEF b, F, P, Q, f
<1>5. n \in Nat /\ P =< n
  <2>1. Len(b) \in Nat
    BY <1>4, Elements DEF Bytes
  <2>. QED  BY <1>4, <2>1 DEF P
<1>6. /\ P + Len(f) =< Len(b) =>
           /\ WholeAt(b, P + 1) /\ LineAt(b, P + 1) = L[j + 1]
           /\ Follows(b, P + 1) = P + Len(f) + 1
      /\ Len(b) < P + Len(f) => ~WholeAt(b, P + 1)
  BY <1>2, <1>3, <1>4, LineFound DEF f
<1>7. P + 1 \in 1 .. Len(b) + 1
  BY <1>2, <1>4, <1>5
<1>8. From(b)[P + 1] = IF WholeAt(b, P + 1)
                       THEN <<LineAt(b, P + 1)>> \o From(b)[Follows(b, P + 1)] ELSE << >>
  BY <1>4, <1>7, FromIs
<1>9. CASE Q =< n
  <2>1. WholeAt(b, P + 1) /\ LineAt(b, P + 1) = L[j + 1] /\ Follows(b, P + 1) = Q + 1
    BY <1>3, <1>4, <1>6, <1>9
  <2>2. PICK i \in j + 1 .. N : From(b)[Q + 1] = Lines(L, j + 1, i)
    BY <1>9, Zenon DEF Prints, b, F, Q, N
  <2>3. From(b)[P + 1] = <<L[j + 1]>> \o Lines(L, j + 1, i)
    BY <1>8, <2>1, <2>2, Zenon
  <2>4. <<L[j + 1]>> \o Lines(L, j + 1, i) = Lines(L, j, i)
    BY LinesFrom
  <2>5. i \in j .. N /\ i > j
    BY <1>1
  <2>6. From(b)[P + 1] = Lines(L, j, i)
    BY <2>3, <2>4, Zenon
  <2>. QED  BY <2>5, <2>6 DEF Prints, b, F, P
<1>10. CASE ~(Q =< n)
  <2>1. ~WholeAt(b, P + 1)
    BY <1>2, <1>3, <1>4, <1>5, <1>6, <1>10
  <2>2. From(b)[P + 1] = << >>
    BY <1>8, <2>1
  <2>3. Lines(L, j, j) = << >>
    BY <1>1 DEF Lines
  <2>4. j \in j .. N
    BY <1>1
  <2>. QED  BY <1>10, <2>2, <2>3, <2>4 DEF Prints, b, F, P, Q
<1>. QED  BY <1>9, <1>10

LEMMA PrintsAll ==
    ASSUME NEW g \in U32, NEW L \in Seq(LineType), Len(L) \in U32,
           NEW n \in 0 .. Len(FeedBytes(g, L)), NEW j \in 0 .. Len(L),
           Len(Upto(g, L)[j]) =< n
    PROVE  Prints(g, L, n, j)
<1>. DEFINE N == Len(L)
            Reached(k) == Len(Upto(g, L)[k]) =< n
            Fails(k) == Reached(k) /\ ~Prints(g, L, n, k)
            T == {x \in Nat : x =< N /\ Fails(N - x)}
<1>1. N \in Nat /\ j \in Nat /\ N - j \in Nat /\ N - j =< N /\ N - (N - j) = j
  OBVIOUS
<1>. SUFFICES ASSUME Fails(j) PROVE FALSE
  OBVIOUS
<1>. HIDE DEF Fails
<1>2. PICK x \in T : \A y \in T : x =< y
  <2>1. T \in SUBSET Nat /\ N - j \in T
    BY <1>1
  <2>. HIDE DEF T
  <2>. QED  BY <2>1, LeastNat
<1>3. x \in Nat /\ x =< N /\ Fails(N - x)
  OBVIOUS
<1>. DEFINE k == N - x
<1>4. k \in 0 .. N /\ Reached(k)
  BY <1>1, <1>3 DEF Fails
<1>5. Prints(g, L, n, k)
  <2>1. CASE x = 0
    <3>1. k = Len(L)
      BY <1>1, <2>1
    <3>. HIDE DEF k
    <3>. QED  BY <1>4, <3>1, PrintsLast
  <2>2. CASE x # 0
    <3>1. x - 1 \in Nat /\ x - 1 =< N /\ ~(x =< x - 1) /\ N - (x - 1) = k + 1 /\ k \in 0 .. Len(L) - 1
      BY <1>1, <1>3, <2>2
    <3>2. ~Fails(k + 1)
      BY <1>2, <3>1
    <3>3. Reached(k + 1) => Prints(g, L, n, k + 1)
      BY <3>2 DEF Fails
    <3>. HIDE DEF k
    <3>. QED  BY <1>4, <3>1, <3>3, PrintsNext
  <2>. QED  BY <2>1, <2>2
<1>. QED  BY <1>3, <1>5 DEF Fails

\* How many lines the answer announces.
LEMMA FeedCount ==
    ASSUME NEW g \in U32, NEW L \in Seq(LineType), Len(L) \in U32
    PROVE  wire_get_u32_be(FeedBytes(g, L), 5) = Len(L)
<1>. DEFINE N == Len(L)
            F == FeedBytes(g, L)
            u == Upto(g, L)
            h == wire_put_u32_be(N)
<1>1. N \in Nat /\ 0 \in 0 .. N /\ N \in 0 .. N
  OBVIOUS
<1>2. F = u[N]
  BY <1>1, FeedUpto
<1>3. u[0] = wire_put_u32_be(g) \o h
  BY <1>1, UptoIs
<1>4. h \in Bytes /\ Len(h) = 4 /\ wire_get_u32_be(h, 1) = N
  BY Put32
<1>5. Extends(F, u[0])
  BY <1>1, <1>2, UptoExtends
<1>. HIDE DEF h
<1>6. Led(u[0], g, h)
  BY <1>3, <1>4, Field
<1>7. Len(u[0]) = 8 /\ wire_get_u32_be(u[0], 5) = N
  <2>1. 5 \in Nat /\ 4 < 5 /\ 5 =< 1 + Len(h) /\ 5 - 4 = 1
    BY <1>4
  <2>. QED  BY <1>4, <1>6, <2>1 DEF Led
<1>. HIDE DEF F, u
<1>8. \A k \in {5, 6, 7, 8} : F[k] = u[0][k]
  <2>1. {5, 6, 7, 8} \subseteq 1 .. Len(u[0])
    BY <1>7
  <2>. QED  BY <1>5, <2>1 DEF Extends
<1>9. wire_get_u32_be(F, 5) = wire_get_u32_be(u[0], 5)
  BY <1>8 DEF wire_get_u32_be
<1>. QED  BY <1>7, <1>9 DEF F

\* However much of the answer to FEED has arrived, cmd_feed prints the first lines of it,
\* unchanged, and at least one as soon as the first one has arrived whole.
THEOREM PagesArePrefixes ==
    ASSUME NEW g \in U32, NEW L \in Seq(LineType), Len(L) \in U32,
           NEW n \in 0 .. Len(FeedBytes(g, L))
    PROVE  \E i \in 0 .. Len(L) :
              /\ Printed(SubSeq(FeedBytes(g, L), 1, n)) = SubSeq(L, 1, i)
              /\ Len(L) > 0 /\ n >= 8 + 14 + Len(L[1].text) => i > 0
<1>. DEFINE N == Len(L)
            F == FeedBytes(g, L)
            b == Part(F, 1, n)
            u == Upto(g, L)
            h == wire_put_u32_be(N)
<1>1. N \in Nat /\ 0 \in 0 .. N /\ N \in 0 .. N
  OBVIOUS
<1>2. F = u[N] /\ u[N] \in Bytes /\ Len(u[N]) \in Nat
  BY <1>1, FeedUpto, UptoBytes
<1>3. u[0] = wire_put_u32_be(g) \o h
  BY <1>1, UptoIs
<1>4. h \in Bytes /\ Len(h) = 4 /\ wire_get_u32_be(h, 1) = N
  BY Put32
<1>5. Extends(F, u[0])
  BY <1>1, <1>2, UptoExtends
<1>. HIDE DEF h
<1>6. Led(u[0], g, h)
  BY <1>3, <1>4, Field
<1>7. u[0] \in Bytes /\ Len(u[0]) = 8 /\ wire_get_u32_be(u[0], 5) = N
  <2>1. 5 \in Nat /\ 4 < 5 /\ 5 =< 1 + Len(h) /\ 5 - 4 = 1
    BY <1>4
  <2>. QED  BY <1>4, <1>6, <2>1 DEF Led
<1>8. b \in Bytes /\ Len(b) = n /\ \A i \in 1 .. n : b[i] = F[i]
  <2>. HIDE DEF b
  <2>. QED  BY <1>2, Taken DEF b
<1>9. n \in Nat
  BY <1>2
<1>10. Len(L) > 0 => Len(u[1]) = 8 + 14 + Len(L[1].text)
  <2>. SUFFICES ASSUME Len(L) > 0 PROVE Len(u[1]) = 8 + 14 + Len(L[1].text)
    OBVIOUS
  <2>1. 0 \in 0 .. Len(L) - 1 /\ 0 + 1 = 1 /\ L[1] \in LineType
    BY <1>1
  <2>2. Len(u[0 + 1]) = Len(u[0]) + Len(LineBytes(L[0 + 1]))
    BY <2>1, LineInside
  <2>3. Len(LineBytes(L[1])) = 14 + Len(L[1].text) /\ Len(L[1].text) \in Nat
    BY <2>1, LineRead
  <2>. QED  BY <1>7, <2>1, <2>2, <2>3
<1>. HIDE DEF b, F, u
<1>11. CASE n < 8
  <2>1. Printed(b) = << >>
    BY <1>8, <1>9, <1>11, PrintedFrom
  <2>2. SubSeq(L, 1, 0) = << >>
    OBVIOUS
  <2>3. Len(L) > 0 => Len(L[1].text) \in Nat
    <3>. SUFFICES ASSUME Len(L) > 0 PROVE Len(L[1].text) \in Nat
      OBVIOUS
    <3>1. L[1] \in LineType
      BY <1>1
    <3>. QED  BY <3>1, LineRead
  <2>4. Len(L) > 0 => ~(n >= 8 + 14 + Len(L[1].text))
    BY <1>9, <1>11, <2>3
  <2>. QED  BY <1>1, <2>1, <2>2, <2>4 DEF b, F, Part
<1>12. CASE ~(n < 8)
  <2>1. Prints(g, L, n, 0)
    <3>1. 0 \in 0 .. Len(L) /\ Len(Upto(g, L)[0]) =< n
      BY <1>1, <1>7, <1>9, <1>12 DEF u
    <3>. QED  BY <3>1, PrintsAll
  <2>2. PICK i \in 0 .. N : /\ From(b)[Len(u[0]) + 1] = Lines(L, 0, i)
                            /\ 0 < Len(L) /\ Len(u[0 + 1]) =< n => i > 0
    BY <2>1, Zenon DEF Prints, b, F, u
  <2>3. From(b)[9] = SubSeq(L, 1, i)
    BY <1>7, <2>2 DEF Lines
  <2>4. wire_get_u32_be(b, 5) = N
    <3>1. {5, 6, 7, 8} \subseteq 1 .. n /\ {5, 6, 7, 8} \subseteq 1 .. Len(u[0])
      BY <1>7, <1>9, <1>12
    <3>2. \A k \in {5, 6, 7, 8} : b[k] = u[0][k]
      BY <1>5, <1>8, <3>1 DEF Extends
    <3>3. wire_get_u32_be(b, 5) = wire_get_u32_be(u[0], 5)
      BY <3>2 DEF wire_get_u32_be
    <3>. QED  BY <1>7, <3>3
  <2>5. Len(SubSeq(L, 1, i)) = i /\ i =< N /\ i \in Nat
    BY <1>1
  <2>6. Least(N, i) = i
    BY <1>1, <2>5 DEF Least
  <2>7. SubSeq(SubSeq(L, 1, i), 1, i) = SubSeq(L, 1, i)
    BY <2>5
  <2>8. Printed(b) = SubSeq(From(b)[9], 1, Least(wire_get_u32_be(b, 5), Len(From(b)[9])))
    BY <1>8, <1>12, PrintedFrom
  <2>9. Printed(b) = SubSeq(L, 1, i)
    BY <2>3, <2>4, <2>5, <2>6, <2>7, <2>8, Zenon
  <2>10. Len(L) > 0 /\ n >= 8 + 14 + Len(L[1].text) => i > 0
    BY <1>9, <1>10, <2>2
  <2>. QED  BY <2>9, <2>10 DEF b, F, Part
<1>. QED  BY <1>11, <1>12

================================================================================
