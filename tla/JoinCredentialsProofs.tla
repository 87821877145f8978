------------------------ MODULE JoinCredentialsProofs ------------------------
(***************************************************************************)
(* What a config file holds after it was edited, and what follows for the  *)
(* credentials, for any controllers, tokens, files, calls and crashes: no  *)
(* controller gets another's secret, and the access point can come back.   *)
(***************************************************************************)
EXTENDS JoinCredentials, SequenceTheorems, WellFoundedInduction,
        FiniteSetTheorems, TLAPS

-----------------------------------------------------------------------------
(* The first and the last of some lines. *)

LEMMA Least ==
  ASSUME NEW S \in SUBSET Nat, S # {}
  PROVE  \E x \in S : \A y \in S : x <= y
<1>1. PICK x \in S : \A y \in S : <<y, x>> \notin OpToRel(<, Nat)
  BY NatLessThanWellFounded, WFMin
<1>2. \A y \in S : ~(y < x)
  BY <1>1 DEF OpToRel
<1> QED BY <1>2

LEMMA FirstExists ==
  ASSUME NEW T, NEW f \in Seq(T), NEW name, NEW key, HasOption(f, name, key)
  PROVE  \E i \in DOMAIN f : IsFirst(f, name, key, i)
<1> DEFINE S == {i \in DOMAIN f : IsOption(f, name, key, i)}
<1>1. DOMAIN f = 1..Len(f) /\ Len(f) \in Nat
  OBVIOUS
<1>2. S \in SUBSET Nat /\ S # {}
  BY <1>1 DEF HasOption
<1>3. PICK x \in S : \A y \in S : x <= y
  BY <1>2, Least
<1>4. \A j \in 1..(x - 1) : j \in DOMAIN f /\ ~(x <= j)
  BY <1>1, <1>3
<1> QED BY <1>3, <1>4 DEF IsFirst

LEMMA GetIs ==
  ASSUME NEW T, NEW f \in Seq(T), NEW name, NEW key,
         NEW i \in DOMAIN f, IsFirst(f, name, key, i)
  PROVE  HasOption(f, name, key) /\ Get(f, name, key) = f[i].value
<1> DEFINE c == CHOOSE j \in DOMAIN f : IsFirst(f, name, key, j)
<1>1. DOMAIN f = 1..Len(f) /\ Len(f) \in Nat
  OBVIOUS
<1>2. c \in DOMAIN f /\ IsFirst(f, name, key, c)
  OBVIOUS
<1> HIDE DEF c
<1>3. c = i
  BY <1>1, <1>2 DEF IsFirst
<1>4. HasOption(f, name, key)
  BY DEF IsFirst, HasOption
<1> QED BY <1>3, <1>4 DEF Get, c

LEMMA HeaderInSection ==
  ASSUME NEW T, NEW f \in Seq(T), NEW name, HasSection(f, name)
  PROVE  \E h \in Headers(f, name) : InSection(f, name, h)
<1>1. DOMAIN f = 1..Len(f) /\ Len(f) \in Nat
  OBVIOUS
<1>2. Headers(f, name) \in SUBSET Nat /\ Headers(f, name) # {}
  BY <1>1 DEF Headers, HasSection
<1>3. PICK h \in Headers(f, name) : \A g \in Headers(f, name) : h <= g
  BY <1>2, Least
<1>4. h \in Nat /\ (h + 1)..h = {}
  BY <1>2
<1> QED BY <1>2, <1>3, <1>4 DEF InSection

\* There is a line to insert after.
LEMMA LastExists ==
  ASSUME NEW T, NEW f \in Seq(T), NEW name, HasSection(f, name)
  PROVE  \E i \in DOMAIN f : IsLastUsed(f, name, i)
<1> DEFINE U == {i \in DOMAIN f : InSection(f, name, i) /\ f[i].kind # "other"}
           S == {Len(f) - i : i \in U}
<1>1. DOMAIN f = 1..Len(f) /\ Len(f) \in Nat
  OBVIOUS
<1>2. U # {}
  BY HeaderInSection DEF Headers
<1>3. S \in SUBSET Nat /\ S # {}
  BY <1>1, <1>2
<1>4. PICK x \in S : \A y \in S : x <= y
  BY <1>3, Least
<1>5. PICK i \in U : x = Len(f) - i
  BY <1>4
<1>6. ASSUME NEW j \in U
      PROVE  j <= i
  <2>1. Len(f) - j \in S
    OBVIOUS
  <2>2. Len(f) - i <= Len(f) - j
    BY <1>4, <1>5, <2>1
  <2> QED BY <1>1, <2>2
<1>7. \A j \in (i + 1)..Len(f) : j \in DOMAIN f /\ ~(j <= i)
  BY <1>1, <1>5
<1> QED BY <1>5, <1>6, <1>7 DEF IsLastUsed

-----------------------------------------------------------------------------
(* Set: the option has the value, and the others have theirs. *)

\* What an edit of one option gives.
Sets(f, g, name, key, v) ==
  /\ HasSection(g, name)
  /\ HasOption(g, name, key) /\ Get(g, name, key) = v
  /\ \A k : k # key => /\ HasOption(g, name, k) <=> HasOption(f, name, k)
                       /\ Get(g, name, k) = Get(f, name, k)

LEMMA ReplacedSets ==
  ASSUME NEW T, NEW f \in Seq(T), NEW name, NEW key, NEW v,
         HasSection(f, name), HasOption(f, name, key), Option(key, v) \in T,
         NEW g, g = Replaced(f, name, key, v)
  PROVE  g \in Seq(T) /\ Sets(f, g, name, key, v)
<1>1. DOMAIN f = 1..Len(f) /\ Len(f) \in Nat
  OBVIOUS
<1>2. g \in Seq(T) /\ DOMAIN g = DOMAIN f /\ Len(g) = Len(f)
  BY <1>1 DEF Replaced
<1>3. \A i \in DOMAIN f : g[i] = IF IsFirst(f, name, key, i) THEN Option(key, v) ELSE f[i]
  BY DEF Replaced
<1>4. \A i \in DOMAIN f : g[i].kind = f[i].kind /\ (f[i].kind = "section" => g[i].key = f[i].key)
                          /\ (f[i].kind = "option" => g[i].key = f[i].key)
  BY <1>3 DEF IsFirst, IsOption, Option
<1>5. Headers(g, name) = Headers(f, name)
  BY <1>2, <1>4 DEF Headers
<1>6. \A i \in DOMAIN f : InSection(g, name, i) <=> InSection(f, name, i)
  <2> SUFFICES ASSUME NEW i \in DOMAIN f
               PROVE  InSection(g, name, i) <=> InSection(f, name, i)
    OBVIOUS
  <2>1. \A h \in Headers(f, name) : \A j \in (h + 1)..i : j \in DOMAIN f
    BY <1>1 DEF Headers
  <2> QED BY <1>4, <1>5, <2>1 DEF InSection
<1>7. \A k : \A i \in DOMAIN f : IsOption(g, name, k, i) <=> IsOption(f, name, k, i)
  BY <1>4, <1>6 DEF IsOption
<1>8. \A k : \A i \in DOMAIN f : IsFirst(g, name, k, i) <=> IsFirst(f, name, k, i)
  <2> SUFFICES ASSUME NEW i \in DOMAIN f, NEW k
               PROVE  IsFirst(g, name, k, i) <=> IsFirst(f, name, k, i)
    OBVIOUS
  <2>1. \A j \in 1..(i - 1) : j \in DOMAIN f
    BY <1>1
  <2> QED BY <1>7, <2>1 DEF IsFirst
<1>9. HasOption(g, name, key) /\ Get(g, name, key) = v
  <2>1. PICK i \in DOMAIN f : IsFirst(f, name, key, i)
    BY FirstExists
  <2>2. IsFirst(g, name, key, i) /\ g[i].value = v
    BY <1>3, <1>8, <2>1 DEF Option
  <2> QED BY <1>2, <2>2, GetIs
<1>10. ASSUME NEW k, k # key
       PROVE  /\ HasOption(g, name, k) <=> HasOption(f, name, k)
              /\ Get(g, name, k) = Get(f, name, k)
  <2>1. HasOption(g, name, k) <=> HasOption(f, name, k)
    BY <1>2, <1>7 DEF HasOption
  <2>2. CASE HasOption(f, name, k)
    <3>1. PICK i \in DOMAIN f : IsFirst(f, name, k, i)
      BY <2>2, FirstExists
    <3>2. g[i] = f[i]
      BY <1>3, <1>10, <3>1 DEF IsFirst, IsOption
    <3>3. Get(f, name, k) = f[i].value
      BY <3>1, GetIs
    <3>4. IsFirst(g, name, k, i)
      BY <1>8, <3>1
    <3>5. Get(g, name, k) = g[i].value
      BY <1>2, <3>4, GetIs
    <3> QED BY <2>1, <3>2, <3>3, <3>5
  <2>3. CASE ~HasOption(f, name, k)
    BY <2>1, <2>3 DEF Get
  <2> QED BY <2>1, <2>2, <2>3
<1> QED BY <1>2, <1>5, <1>9, <1>10 DEF Sets, HasSection

LEMMA Glued ==
  ASSUME NEW T, NEW c \in Seq(T), NEW b \in Seq(T)
  PROVE  /\ c \o b \in Seq(T) /\ Len(c \o b) = Len(c) + Len(b)
         /\ \A i \in 1..(Len(c) + Len(b)) :
              (c \o b)[i] = IF i <= Len(c) THEN c[i] ELSE b[i - Len(c)]
BY ConcatProperties

\* g is f with the line e after line n.
Opens(f, g, n, e) ==
  /\ Len(g) = Len(f) + 1
  /\ \A i \in 1..n : g[i] = f[i]
  /\ g[n + 1] = e
  /\ \A i \in (n + 1)..Len(f) : g[i + 1] = f[i]

LEMMA InsertedLines ==
  ASSUME NEW T, NEW f \in Seq(T), NEW n \in 1..Len(f), NEW e \in T,
         NEW g, g = Inserted(f, n, e)
  PROVE  g \in Seq(T) /\ Opens(f, g, n, e)
<1> DEFINE a == SubSeq(f, 1, n)
           b == SubSeq(f, n + 1, Len(f))
           c == a \o <<e>>
<1>1. a \in Seq(T) /\ Len(a) = n /\ \A i \in 1..n : a[i] = f[i]
  OBVIOUS
<1>2. b \in Seq(T) /\ Len(b) = Len(f) - n /\ \A i \in 1..(Len(f) - n) : b[i] = f[n + i]
  OBVIOUS
<1> HIDE DEF a, b
<1>3. c \in Seq(T) /\ Len(c) = n + 1 /\ (\A i \in 1..n : c[i] = f[i]) /\ c[n + 1] = e
  BY <1>1
<1> HIDE DEF c
<1>4. g = c \o b
  BY DEF Inserted, a, b, c
<1>5. c \in Seq(T) /\ b \in Seq(T)
  BY <1>2, <1>3
<1>6. /\ g \in Seq(T) /\ Len(g) = Len(c) + Len(b)
      /\ \A i \in 1..(Len(c) + Len(b)) :
           g[i] = IF i <= Len(c) THEN c[i] ELSE b[i - Len(c)]
  BY ONLY <1>4, <1>5, Glued
<1>7. Len(f) \in Nat /\ Len(c) + Len(b) = Len(f) + 1
  BY <1>2, <1>3
<1>8. \A i \in (n + 1)..Len(f) : i - n \in 1..(Len(f) - n) /\ b[i - n] = f[i]
  BY <1>2
<1>9. \A i \in 1..(n + 1) : g[i] = c[i]
  BY <1>3, <1>6, <1>7
<1>10. \A i \in (n + 1)..Len(f) : g[i + 1] = b[i - n]
  BY <1>3, <1>6, <1>7
<1> QED BY <1>3, <1>6, <1>7, <1>8, <1>9, <1>10 DEF Opens

LEMMA SectionIs ==
  ASSUME NEW T, NEW f \in Seq(T), NEW name,
         NEW h \in Headers(f, name), \A x \in Headers(f, name) : h <= x
  PROVE  \A i : InSection(f, name, i) <=>
                  h <= i /\ \A j \in (h + 1)..i : f[j].kind # "section"
<1>1. Headers(f, name) \subseteq Nat
  BY DEF Headers
<1>2. \A x \in Headers(f, name) : (\A y \in Headers(f, name) : x <= y) => x = h
  BY <1>1
<1> QED BY <1>2 DEF InSection

\* Where a line of f is once another stands after line n.
Past(n, i) == IF i <= n THEN i ELSE i + 1

LEMMA InsertedSets ==
  ASSUME NEW T, NEW f \in Seq(T), NEW name, NEW key, NEW v,
         ~HasOption(f, name, key), Option(key, v) \in T,
         NEW n \in DOMAIN f, InSection(f, name, n),
         NEW g, g = Inserted(f, n, Option(key, v))
  PROVE  g \in Seq(T) /\ Sets(f, g, name, key, v)
<1>1. DOMAIN f = 1..Len(f) /\ Len(f) \in Nat /\ n \in 1..Len(f)
  OBVIOUS
<1>2. /\ g \in Seq(T) /\ Len(g) = Len(f) + 1
      /\ \A i \in 1..n : g[i] = f[i]
      /\ g[n + 1] = Option(key, v)
      /\ \A i \in (n + 1)..Len(f) : g[i + 1] = f[i]
  <2>1. g \in Seq(T) /\ Opens(f, g, n, Option(key, v))
    BY <1>1, InsertedLines
  <2> QED BY <2>1 DEF Opens
<1>3. DOMAIN g = 1..(Len(f) + 1)
  BY <1>2
<1>4. g[n + 1].kind = "option" /\ g[n + 1].key = key /\ g[n + 1].value = v
  BY <1>2 DEF Option
<1>5. /\ \A i \in 1..Len(f) : Past(n, i) \in 1..(Len(f) + 1) /\ g[Past(n, i)] = f[i]
      /\ \A j \in 1..(Len(f) + 1) : j = n + 1 \/ \E i \in 1..Len(f) : j = Past(n, i)
      /\ \A i, j \in 1..Len(f) : Past(n, i) < Past(n, j) => i < j
      /\ \A i \in 1..Len(f) : i <= Past(n, i)
  <2>1. \A i \in 1..Len(f) : Past(n, i) \in 1..(Len(f) + 1) /\ g[Past(n, i)] = f[i]
    BY <1>1, <1>2 DEF Past
  <2>2. ASSUME NEW j \in 1..(Len(f) + 1), j # n + 1
        PROVE  \E i \in 1..Len(f) : j = Past(n, i)
    <3>1. CASE j <= n
      <4>1. j \in 1..Len(f) /\ j = Past(n, j)
        BY <1>1, <3>1 DEF Past
      <4> QED BY <4>1
    <3>2. CASE j > n + 1
      <4>1. j - 1 \in 1..Len(f) /\ j = Past(n, j - 1)
        BY <1>1, <3>2 DEF Past
      <4> QED BY <4>1
    <3> QED BY <1>1, <2>2, <3>1, <3>2
  <2>3. /\ \A i, j \in 1..Len(f) : Past(n, i) < Past(n, j) => i < j
        /\ \A i \in 1..Len(f) : i <= Past(n, i)
    BY <1>1 DEF Past
  <2> QED BY <2>1, <2>2, <2>3
<1>6. PICK h \in Headers(f, name) :
        /\ h <= n /\ (\A j \in (h + 1)..n : f[j].kind # "section")
        /\ \A x \in Headers(f, name) : h <= x
  BY DEF InSection
<1>7. h \in 1..n /\ h \in 1..Len(f)
  BY <1>1, <1>6 DEF Headers
<1>8. h \in Headers(g, name) /\ \A x \in Headers(g, name) : h <= x
  <2>1. h \in Headers(g, name)
    BY <1>1, <1>2, <1>3, <1>6, <1>7 DEF Headers
  <2>2. ASSUME NEW x \in Headers(g, name)
        PROVE  h <= x
    <3>1. x \in 1..(Len(f) + 1) /\ x # n + 1
      BY <1>3, <1>4 DEF Headers
    <3>2. PICK i \in 1..Len(f) : x = Past(n, i)
      BY <1>5, <3>1
    <3>3. i \in Headers(f, name)
      BY <1>1, <1>5, <3>2 DEF Headers
    <3>4. h <= i /\ i <= x
      BY <1>5, <1>6, <3>2, <3>3
    <3> QED BY <1>7, <3>1, <3>4
  <2> QED BY <2>1, <2>2
<1>9. \A i : InSection(f, name, i) <=>
               h <= i /\ \A j \in (h + 1)..i : f[j].kind # "section"
  BY <1>6, SectionIs
<1>10. \A i : InSection(g, name, i) <=>
                h <= i /\ \A j \in (h + 1)..i : g[j].kind # "section"
  BY <1>2, <1>8, SectionIs
<1>11. InSection(g, name, n + 1)
  <2>1. ASSUME NEW j \in (h + 1)..(n + 1)
        PROVE  g[j].kind # "section"
    <3>1. CASE j = n + 1
      BY <1>4, <3>1
    <3>2. CASE j # n + 1
      <4>1. j \in (h + 1)..n /\ j \in 1..n
        BY <1>1, <1>7, <3>2
      <4> QED BY <1>2, <1>6, <4>1
    <3> QED BY <3>1, <3>2
  <2>2. h <= n + 1
    BY <1>1, <1>7
  <2> QED BY <1>10, <2>1, <2>2
<1>12. ASSUME NEW i \in 1..Len(f)
       PROVE  InSection(g, name, Past(n, i)) <=> InSection(f, name, i)
  <2>1. h <= i <=> h <= Past(n, i)
    BY <1>1, <1>7 DEF Past
  <2>2. ASSUME \A j \in (h + 1)..i : f[j].kind # "section",
               NEW j \in (h + 1)..Past(n, i)
        PROVE  g[j].kind # "section"
    <3>1. j \in 1..(Len(f) + 1)
      BY <1>5, <1>7
    <3>2. CASE j = n + 1
      BY <1>4, <3>2
    <3>3. CASE j # n + 1
      <4>1. PICK x \in 1..Len(f) : j = Past(n, x)
        BY <1>5, <3>1, <3>3
      <4>2. x \in (h + 1)..i
        BY <1>1, <1>7, <4>1 DEF Past
      <4> QED BY <1>5, <2>2, <4>1, <4>2
    <3> QED BY <3>2, <3>3
  <2>3. ASSUME \A j \in (h + 1)..Past(n, i) : g[j].kind # "section",
               NEW j \in (h + 1)..i
        PROVE  f[j].kind # "section"
    <3>1. j \in 1..Len(f) /\ Past(n, j) \in (h + 1)..Past(n, i)
      BY <1>1, <1>7 DEF Past
    <3> QED BY <1>5, <2>3, <3>1
  <2> QED BY <1>9, <1>10, <2>1, <2>2, <2>3
<1>13. \A k : \A i \in 1..Len(f) :
         IsOption(g, name, k, Past(n, i)) <=> IsOption(f, name, k, i)
  BY <1>5, <1>12 DEF IsOption
<1>14. \A k : IsOption(g, name, k, n + 1) <=> k = key
  BY <1>4, <1>11 DEF IsOption
<1>15. \A k : HasOption(g, name, k) <=> k = key \/ HasOption(f, name, k)
  <2> SUFFICES ASSUME NEW k
               PROVE  HasOption(g, name, k) <=> k = key \/ HasOption(f, name, k)
    OBVIOUS
  <2>1. ASSUME HasOption(g, name, k), k # key
        PROVE  HasOption(f, name, k)
    <3>1. PICK j \in 1..(Len(f) + 1) : IsOption(g, name, k, j)
      BY <1>3, <2>1 DEF HasOption
    <3>2. PICK i \in 1..Len(f) : j = Past(n, i)
      BY <1>5, <1>14, <2>1, <3>1
    <3> QED BY <1>1, <1>13, <3>1, <3>2 DEF HasOption
  <2>2. ASSUME k = key
        PROVE  HasOption(g, name, k)
    <3>1. n + 1 \in DOMAIN g
      BY <1>1, <1>3
    <3> QED BY <1>14, <2>2, <3>1 DEF HasOption
  <2>3. ASSUME HasOption(f, name, k)
        PROVE  HasOption(g, name, k)
    <3>1. PICK i \in 1..Len(f) : IsOption(f, name, k, i)
      BY <1>1, <2>3 DEF HasOption
    <3> QED BY <1>3, <1>5, <1>13, <3>1 DEF HasOption
  <2> QED BY <2>1, <2>2, <2>3
<1>16. HasOption(g, name, key) /\ Get(g, name, key) = v
  <2>1. n + 1 \in DOMAIN g
    BY <1>1, <1>3
  <2>2. ASSUME NEW j \in 1..(n + 1 - 1)
        PROVE  ~IsOption(g, name, key, j)
    <3>1. j \in 1..Len(f) /\ j = Past(n, j)
      BY <1>1 DEF Past
    <3> QED BY <1>1, <1>13, <3>1 DEF HasOption
  <2>3. IsFirst(g, name, key, n + 1)
    BY <1>14, <2>2 DEF IsFirst
  <2> QED BY <1>2, <1>4, <2>1, <2>3, GetIs
<1>17. ASSUME NEW k, k # key
       PROVE  Get(g, name, k) = Get(f, name, k)
  <2>1. CASE HasOption(f, name, k)
    <3>1. PICK i \in DOMAIN f : IsFirst(f, name, k, i)
      BY <2>1, FirstExists
    <3>2. i \in 1..Len(f) /\ Past(n, i) \in DOMAIN g /\ g[Past(n, i)] = f[i]
      BY <1>1, <1>3, <1>5
    <3>3. ASSUME NEW j \in 1..(Past(n, i) - 1)
          PROVE  ~IsOption(g, name, k, j)
      <4>1. j \in 1..(Len(f) + 1) /\ j < Past(n, i)
        BY <1>1, <1>5, <3>2
      <4>2. CASE j = n + 1
        BY <1>14, <1>17, <4>2
      <4>3. CASE j # n + 1
        <5>1. PICK x \in 1..Len(f) : j = Past(n, x)
          BY <1>5, <4>1, <4>3
        <5>2. x < i
          BY <1>5, <3>2, <4>1, <5>1
        <5>3. x \in 1..(i - 1)
          BY <1>1, <3>2, <5>2
        <5> QED BY <1>13, <3>1, <5>1, <5>3 DEF IsFirst
      <4> QED BY <4>2, <4>3
    <3>4. IsFirst(g, name, k, Past(n, i))
      BY <1>13, <3>1, <3>2, <3>3 DEF IsFirst
    <3>5. Get(f, name, k) = f[i].value
      BY <3>1, GetIs
    <3>6. Get(g, name, k) = g[Past(n, i)].value
      BY <1>2, <3>2, <3>4, GetIs
    <3> QED BY <3>2, <3>5, <3>6
  <2>2. CASE ~HasOption(f, name, k)
    BY <1>15, <1>17, <2>2 DEF Get
  <2> QED BY <2>1, <2>2
<1>18. HasSection(g, name)
  BY <1>8 DEF HasSection
<1> QED BY <1>2, <1>15, <1>16, <1>17, <1>18 DEF Sets

LEMMA SetSets ==
  ASSUME NEW T, NEW f \in Seq(T), NEW name, NEW key, NEW v,
         HasSection(f, name), Option(key, v) \in T
  PROVE  Set(f, name, key, v) \in Seq(T) /\ Sets(f, Set(f, name, key, v), name, key, v)
<1>1. CASE HasOption(f, name, key)
  BY <1>1, ReplacedSets DEF Set
<1>2. CASE ~HasOption(f, name, key)
  <2> DEFINE n == CHOOSE i \in DOMAIN f : IsLastUsed(f, name, i)
  <2>1. n \in DOMAIN f /\ IsLastUsed(f, name, n)
    BY LastExists
  <2> HIDE DEF n
  <2>2. InSection(f, name, n)
    BY <2>1 DEF IsLastUsed
  <2>3. Set(f, name, key, v) = Inserted(f, n, Option(key, v))
    BY <1>2 DEF Set, n
  <2> QED BY <1>2, <2>1, <2>2, <2>3, InsertedSets
<1> QED BY <1>1, <1>2

-----------------------------------------------------------------------------
(* EnsureSection: the section is there, and every option as it was. *)

LEMMA NoSectionNoOption ==
  ASSUME NEW f, NEW name, ~HasSection(f, name)
  PROVE  \A k : ~HasOption(f, name, k) /\ Get(f, name, k) = Empty
BY DEF HasSection, HasOption, IsOption, InSection, Get

\* A section whose header is the last line of the file.
LEMMA NewSection ==
  ASSUME NEW T, NEW f \in Seq(T), NEW name, f # <<>>,
         f[Len(f)] = Header(name),
         \A i \in 1..(Len(f) - 1) : i \notin Headers(f, name)
  PROVE  HasSection(f, name) /\ \A k : Get(f, name, k) = Empty
<1>1. DOMAIN f = 1..Len(f) /\ Len(f) \in Nat /\ Len(f) >= 1
  BY EmptySeq
<1>2. Len(f) \in Headers(f, name)
  BY <1>1 DEF Headers, Header
<1>3. ASSUME NEW k, NEW i \in DOMAIN f, IsOption(f, name, k, i)
      PROVE  FALSE
  <2>1. f[i].kind = "option" /\ InSection(f, name, i)
    BY <1>3 DEF IsOption
  <2>2. PICK h \in Headers(f, name) : h <= i
    BY <2>1 DEF InSection
  <2>3. h = Len(f)
    BY <1>1, <2>2 DEF Headers
  <2>4. i = Len(f)
    BY <1>1, <2>2, <2>3
  <2> QED BY <2>1, <2>4 DEF Header
<1> QED BY <1>2, <1>3 DEF HasSection, HasOption, Get

LEMMA SectionEnsured ==
  ASSUME NEW T, NEW f \in Seq(T), NEW name, Header(name) \in T, Other \in T,
         NEW g, g = EnsureSection(f, name)
  PROVE  /\ g \in Seq(T) /\ HasSection(g, name)
         /\ \A k : Get(g, name, k) = Get(f, name, k)
<1> DEFINE h == Header(name)
<1>1. CASE HasSection(f, name)
  BY <1>1 DEF EnsureSection
<1>2. CASE ~HasSection(f, name)
  <2>1. \A k : Get(f, name, k) = Empty
    BY <1>2, NoSectionNoOption
  <2>2. \A i \in DOMAIN f : ~(f[i].kind = "section" /\ f[i].key = name)
    BY <1>2 DEF HasSection, Headers
  <2>3. DOMAIN f = 1..Len(f) /\ Len(f) \in Nat
    OBVIOUS
  <2>4. Other.kind = "other"
    BY DEF Other
  <2>5. ASSUME NEW x \in Seq(T), x # <<>>, x[Len(x)] = h,
               \A i \in 1..(Len(x) - 1) : x[i] = Other \/ (i \in DOMAIN f /\ x[i] = f[i])
        PROVE  HasSection(x, name) /\ \A k : Get(x, name, k) = Empty
    <3>1. \A i \in 1..(Len(x) - 1) : i \notin Headers(x, name)
      BY <2>2, <2>4, <2>5 DEF Headers
    <3> QED BY <2>5, <3>1, NewSection
  <2>6. g = Append(f, h) \/ g = f \o <<Other, h>>
    BY <1>2 DEF EnsureSection
  <2>7. CASE g = Append(f, h)
    <3>1. g \in Seq(T) /\ g # <<>> /\ g[Len(g)] = h
      BY <2>7
    <3>2. \A i \in 1..(Len(g) - 1) : i \in DOMAIN f /\ g[i] = f[i]
      BY <2>7
    <3> QED BY <2>1, <2>5, <3>1, <3>2
  <2>8. CASE g = f \o <<Other, h>>
    <3>1. <<Other, h>> \in Seq(T) /\ Len(<<Other, h>>) = 2
      OBVIOUS
    <3>2. /\ g \in Seq(T) /\ Len(g) = Len(f) + 2
          /\ \A i \in 1..(Len(f) + 2) :
               g[i] = IF i <= Len(f) THEN f[i] ELSE <<Other, h>>[i - Len(f)]
      <4>1. ASSUME NEW x \in Seq(T), x = <<Other, h>>
            PROVE  /\ g \in Seq(T) /\ Len(g) = Len(f) + Len(x)
                   /\ \A i \in 1..(Len(f) + Len(x)) :
                        g[i] = IF i <= Len(f) THEN f[i] ELSE x[i - Len(f)]
        BY <2>8, <4>1, Glued
      <4> QED BY <3>1, <4>1
    <3>3. g[Len(f) + 1] = Other /\ g[Len(f) + 2] = h
      BY <2>3, <3>2
    <3>4. \A i \in 1..(Len(g) - 1) : g[i] = Other \/ (i \in DOMAIN f /\ g[i] = f[i])
      BY <2>3, <3>2, <3>3
    <3>5. g # <<>> /\ g[Len(g)] = h
      BY <2>3, <3>2, <3>3
    <3> QED BY <2>1, <2>5, <3>2, <3>4, <3>5
  <2> QED BY <2>6, <2>7, <2>8
<1> QED BY <1>1, <1>2

-----------------------------------------------------------------------------
(* Load and Update. *)

Wellformed(f) == f = Missing \/ f \in Seq(Line)
Writes(values) == \A k \in DOMAIN values : values[k] \in Value

\* What an option is after an Update.
After(values, drop, k, old) ==
  IF k \in DOMAIN values THEN values[k] ELSE IF k \in drop THEN Empty ELSE old

LEMMA LineTypes ==
  /\ Empty \in Value /\ Other \in Line /\ Header(Main) \in Line
  /\ \A k \in Name, v \in Value : Option(k, v) \in Line
BY CredentialsAssumption DEF Value, Line, Other, Header, Option, Main

\* What one of its four steps gives.
Puts(f, g, values, drop, key) ==
  /\ g \in Seq(Line) /\ HasSection(g, Main)
  /\ Get(g, Main, key) = After(values, drop, key, Get(f, Main, key))
  /\ \A k : k # key => Get(g, Main, k) = Get(f, Main, k)

LEMMA PutGets ==
  ASSUME NEW f \in Seq(Line), HasSection(f, Main), NEW values, Writes(values),
         NEW drop, NEW key \in Name
  PROVE  Puts(f, Put(f, values, drop, key), values, drop, key)
<1>1. CASE key \in DOMAIN values
  <2>1. Option(key, values[key]) \in Line
    BY <1>1, LineTypes DEF Writes
  <2>2. Put(f, values, drop, key) = Set(f, Main, key, values[key])
    BY <1>1 DEF Put
  <2> QED BY <1>1, <2>1, <2>2, SetSets DEF Sets, After, Puts
<1>2. CASE key \notin DOMAIN values /\ key \in drop /\ HasOption(f, Main, key)
  <2>1. Option(key, Empty) \in Line
    BY LineTypes
  <2>2. Put(f, values, drop, key) = Set(f, Main, key, Empty)
    BY <1>2 DEF Put
  <2> QED BY <1>2, <2>1, <2>2, SetSets DEF Sets, After, Puts
<1>3. CASE key \notin DOMAIN values /\ ~(key \in drop /\ HasOption(f, Main, key))
  <2>1. Put(f, values, drop, key) = f
    BY <1>3 DEF Put
  <2>2. After(values, drop, key, Get(f, Main, key)) = Get(f, Main, key)
    BY <1>3 DEF After, Get
  <2> QED BY <2>1, <2>2 DEF Puts
<1> QED BY <1>1, <1>2, <1>3

LEMMA DefaultIsEmpty ==
  DefaultFile \in Seq(Line) /\ Load(DefaultFile) = NoCfg /\ Load(Missing) = NoCfg
<1> DEFINE f == DefaultFile
<1>1. f \in Seq(Line) /\ Len(f) = 10
  <2>1. /\ Option("controller", Empty) \in Line /\ Option("join_token", Empty) \in Line
        /\ Option("agent_id", Empty) \in Line /\ Option("agent_secret", Empty) \in Line
    BY LineTypes, CredentialsAssumption
  <2> QED BY <2>1, LineTypes DEF DefaultFile
<1>2. \A i \in DOMAIN f : f[i].value = Empty
  <2>1. /\ Other.value = Empty /\ Header(Main).value = Empty
        /\ \A k : Option(k, Empty).value = Empty
    BY DEF Other, Header, Option
  <2>2. DOMAIN f = 1..10
    BY <1>1
  <2>3. \A i \in 1..10 : \/ f[i] = Other \/ f[i] = Header(Main)
                        \/ \E k : f[i] = Option(k, Empty)
    BY DEF DefaultFile
  <2> QED BY <2>1, <2>2, <2>3
<1> HIDE DEF f
<1>3. ASSUME NEW k
      PROVE  Get(f, Main, k) = Empty
  <2>1. CASE HasOption(f, Main, k)
    <3>1. PICK i \in DOMAIN f : IsFirst(f, Main, k, i)
      BY <1>1, <2>1, FirstExists
    <3> QED BY <1>1, <1>2, <3>1, GetIs
  <2>2. CASE ~HasOption(f, Main, k)
    BY <2>2 DEF Get
  <2> QED BY <2>1, <2>2
<1>4. Load(f) = NoCfg
  BY <1>3 DEF Load, NoCfg
<1> QED BY <1>1, <1>4 DEF f, Load, NoCfg

\* What an Update gives.
Updated(f, g, values, drop) ==
  /\ g \in Seq(Line)
  /\ Load(g) = [ctl |-> After(values, drop, "controller", Load(f).ctl),
                token |-> After(values, drop, "join_token", Load(f).token),
                id |-> After(values, drop, "agent_id", Load(f).id),
                secret |-> After(values, drop, "agent_secret", Load(f).secret)]

LEMMA UpdateGets ==
  ASSUME NEW f, Wellformed(f), NEW values, Writes(values), NEW drop
  PROVE  Updated(f, Update(f, values, drop), values, drop)
<1> DEFINE f0 == EnsureSection(IF f = Missing THEN DefaultFile ELSE f, Main)
           f1 == Put(f0, values, drop, "agent_id")
           f2 == Put(f1, values, drop, "agent_secret")
           f3 == Put(f2, values, drop, "controller")
           f4 == Put(f3, values, drop, "join_token")
<1>1. /\ f0 \in Seq(Line) /\ HasSection(f0, Main)
      /\ Load(f) = [ctl |-> Get(f0, Main, "controller"),
                    token |-> Get(f0, Main, "join_token"),
                    id |-> Get(f0, Main, "agent_id"),
                    secret |-> Get(f0, Main, "agent_secret")]
  <2>1. CASE f = Missing
    <3>1. f0 = EnsureSection(DefaultFile, Main)
      BY <2>1
    <3>2. /\ f0 \in Seq(Line) /\ HasSection(f0, Main)
          /\ \A k : Get(f0, Main, k) = Get(DefaultFile, Main, k)
      BY <3>1, LineTypes, DefaultIsEmpty, SectionEnsured
    <3>3. DefaultFile # Missing
      BY DefaultIsEmpty, ValuesAssumption
    <3> QED BY <2>1, <3>2, <3>3, DefaultIsEmpty DEF Load
  <2>2. CASE f # Missing
    <3>1. f0 = EnsureSection(f, Main) /\ f \in Seq(Line)
      BY <2>2 DEF Wellformed
    <3>2. /\ f0 \in Seq(Line) /\ HasSection(f0, Main)
          /\ \A k : Get(f0, Main, k) = Get(f, Main, k)
      BY <3>1, LineTypes, SectionEnsured
    <3> QED BY <2>2, <3>2 DEF Load
  <2> QED BY <2>1, <2>2
<1>2. Update(f, values, drop) = f4
  BY DEF Update
<1> HIDE DEF f0
<1>3. Puts(f0, f1, values, drop, "agent_id")
  <2>1. f0 \in Seq(Line) /\ HasSection(f0, Main) /\ "agent_id" \in Name
    BY <1>1, CredentialsAssumption
  <2> QED BY <2>1, PutGets
<1> HIDE DEF f1
<1>4. Puts(f1, f2, values, drop, "agent_secret")
  <2>1. f1 \in Seq(Line) /\ HasSection(f1, Main) /\ "agent_secret" \in Name
    BY <1>3, CredentialsAssumption DEF Puts
  <2> QED BY <2>1, PutGets
<1> HIDE DEF f2
<1>5. Puts(f2, f3, values, drop, "controller")
  <2>1. f2 \in Seq(Line) /\ HasSection(f2, Main) /\ "controller" \in Name
    BY <1>4, CredentialsAssumption DEF Puts
  <2> QED BY <2>1, PutGets
<1> HIDE DEF f3
<1>6. Puts(f3, f4, values, drop, "join_token")
  <2>1. f3 \in Seq(Line) /\ HasSection(f3, Main) /\ "join_token" \in Name
    BY <1>5, CredentialsAssumption DEF Puts
  <2> QED BY <2>1, PutGets
<1> HIDE DEF f4
<1>7. f4 # Missing
  BY <1>6, ValuesAssumption DEF Puts
<1>8. /\ Get(f4, Main, "controller")
           = After(values, drop, "controller", Get(f0, Main, "controller"))
      /\ Get(f4, Main, "join_token")
           = After(values, drop, "join_token", Get(f0, Main, "join_token"))
      /\ Get(f4, Main, "agent_id")
           = After(values, drop, "agent_id", Get(f0, Main, "agent_id"))
      /\ Get(f4, Main, "agent_secret")
           = After(values, drop, "agent_secret", Get(f0, Main, "agent_secret"))
  BY <1>3, <1>4, <1>5, <1>6 DEF Puts
<1>9. Load(f4) = [ctl |-> Get(f4, Main, "controller"),
                  token |-> Get(f4, Main, "join_token"),
                  id |-> Get(f4, Main, "agent_id"),
                  secret |-> Get(f4, Main, "agent_secret")]
  BY <1>7 DEF Load
<1> QED BY <1>1, <1>2, <1>6, <1>8, <1>9 DEF Puts, Updated

-----------------------------------------------------------------------------
(* What the two commands and the daemon write. *)

GoodFile(f) == Wellformed(f) /\ Load(f) \in Cfg

\* What the command writes for controller c with token t, and whether it
\* removes the credentials that are there.
Plan(values, c, t) ==
  /\ Writes(values)
  /\ "controller" \in DOMAIN values /\ values["controller"] = c
  /\ "join_token" \in DOMAIN values <=> t # Empty
  /\ t # Empty => values["join_token"] = t
  /\ "agent_id" \in DOMAIN values <=> "agent_secret" \in DOMAIN values
  /\ "agent_id" \in DOMAIN values =>
       values["agent_id"] = Empty /\ values["agent_secret"] = Empty

Wipes(values) == "agent_id" \in DOMAIN values

LEMMA WantsIs ==
  ASSUME NEW cfg, NEW c \in Ctl, NEW t \in Token \cup {Empty}
  PROVE  /\ Plan(Wants(cfg, c, t), c, t)
         /\ Wipes(Wants(cfg, c, t)) <=> (cfg.ctl # Empty /\ cfg.ctl # c) \/ t # Empty
<1> DEFINE keys == {"controller"} \cup (IF t = Empty THEN {} ELSE {"join_token"})
                   \cup (IF (cfg.ctl # Empty /\ cfg.ctl # c) \/ t # Empty
                         THEN {"agent_id", "agent_secret"} ELSE {})
           val(k) == CASE k = "controller" -> c [] k = "join_token" -> t
                       [] OTHER -> Empty
           w == Wants(cfg, c, t)
<1>1. w = [k \in keys |-> val(k)]
  BY DEF Wants
<1>2. /\ val("controller") = c /\ val("join_token") = t
      /\ val("agent_id") = Empty /\ val("agent_secret") = Empty
  OBVIOUS
<1>3. \A k : val(k) \in Value
  BY DEF Value
<1> HIDE DEF val, w
<1>4. DOMAIN w = keys /\ \A k \in keys : w[k] = val(k)
  BY <1>1
<1>5. /\ "controller" \in keys
      /\ "join_token" \in keys <=> t # Empty
      /\ "agent_id" \in keys <=> (cfg.ctl # Empty /\ cfg.ctl # c) \/ t # Empty
      /\ "agent_secret" \in keys <=> (cfg.ctl # Empty /\ cfg.ctl # c) \/ t # Empty
  OBVIOUS
<1> HIDE DEF keys
<1>6. Plan(w, c, t)
  BY <1>2, <1>3, <1>4, <1>5 DEF Plan, Writes
<1>7. Wipes(w) <=> (cfg.ctl # Empty /\ cfg.ctl # c) \/ t # Empty
  BY <1>4, <1>5 DEF Wipes
<1> QED BY <1>6, <1>7 DEF w

LEMMA UpdatedIs ==
  ASSUME NEW f, GoodFile(f), NEW c \in Ctl, NEW t \in Token \cup {Empty},
         NEW values, Plan(values, c, t)
  PROVE  /\ Update(f, values, {}) \in Seq(Line)
         /\ GoodFile(Update(f, values, {}))
         /\ Load(Update(f, values, {})) =
              [ctl |-> c, token |-> IF t = Empty THEN Load(f).token ELSE t,
               id |-> IF Wipes(values) THEN Empty ELSE Load(f).id,
               secret |-> IF Wipes(values) THEN Empty ELSE Load(f).secret]
<1> DEFINE g == Update(f, values, {})
<1>1. Updated(f, g, values, {})
  <2>1. Wellformed(f) /\ Writes(values)
    BY DEF GoodFile, Plan
  <2> QED BY <2>1, UpdateGets
<1> HIDE DEF g
<1>2. /\ After(values, {}, "controller", Load(f).ctl) = c
      /\ After(values, {}, "join_token", Load(f).token)
           = IF t = Empty THEN Load(f).token ELSE t
      /\ After(values, {}, "agent_id", Load(f).id)
           = IF Wipes(values) THEN Empty ELSE Load(f).id
      /\ After(values, {}, "agent_secret", Load(f).secret)
           = IF Wipes(values) THEN Empty ELSE Load(f).secret
  BY DEF After, Plan, Wipes
<1>3. Load(g) \in Cfg
  <2>1. Load(f) \in Cfg
    BY DEF GoodFile
  <2> QED BY <1>1, <1>2, <2>1 DEF Cfg, Updated
<1> QED BY <1>1, <1>2, <1>3 DEF g, GoodFile, Wellformed, Updated

LEMMA SavedIs ==
  ASSUME NEW f, GoodFile(f), NEW cred \in Cred
  PROVE  /\ Saved(f, cred) \in Seq(Line)
         /\ GoodFile(Saved(f, cred))
         /\ Load(Saved(f, cred)) =
              [ctl |-> Load(f).ctl, token |-> Empty, id |-> cred, secret |-> cred]
<1> DEFINE g == Saved(f, cred)
           values == [k \in {"agent_id", "agent_secret"} |-> cred]
           drop == {"join_token"}
<1>1. Writes(values)
  BY DEF Writes, Value
<1>2. g = Update(f, values, drop)
  BY DEF Saved
<1>3. DOMAIN values = {"agent_id", "agent_secret"}
      /\ values["agent_id"] = cred /\ values["agent_secret"] = cred
  OBVIOUS
<1> HIDE DEF values, g
<1>4. Updated(f, g, values, drop)
  <2>1. Wellformed(f)
    BY DEF GoodFile
  <2> QED BY <1>1, <1>2, <2>1, UpdateGets
<1>5. /\ After(values, drop, "controller", Load(f).ctl) = Load(f).ctl
      /\ After(values, drop, "join_token", Load(f).token) = Empty
      /\ After(values, drop, "agent_id", Load(f).id) = cred
      /\ After(values, drop, "agent_secret", Load(f).secret) = cred
  BY <1>3 DEF After
<1>6. Load(g) \in Cfg
  <2>1. Load(f) \in Cfg
    BY DEF GoodFile
  <2> QED BY <1>4, <1>5, <2>1 DEF Cfg, Updated
<1> QED BY <1>4, <1>5, <1>6 DEF g, GoodFile, Wellformed, Updated

LEMMA CreatedIs ==
  ASSUME NEW f, GoodFile(f), NEW g,
         g = IF f = Missing THEN DefaultFile ELSE f
  PROVE  GoodFile(g) /\ Load(g) = Load(f)
BY DefaultIsEmpty DEF GoodFile, Wellformed, NoCfg, Cfg

-----------------------------------------------------------------------------
(* Types.  Beyond TypeOK: the copies the two processes hold are config     *)
(* files too, the command's changes are a Plan, and every join so far took *)
(* a token.                                                                *)

DaemonTyped ==
  /\ daemon = [pc |-> daemon.pc, cfg |-> daemon.cfg, got |-> daemon.got,
               copy |-> daemon.copy]
  /\ daemon.pc \in {"down", "run", "save", "write", "session"}
  /\ daemon.cfg \in Cfg /\ daemon.got \in Cred \cup {Empty}
  /\ GoodFile(daemon.copy)
  /\ daemon.got # Empty <=> daemon.pc \in {"save", "write"}

CliTyped ==
  /\ cli = [pc |-> cli.pc, ctl |-> cli.ctl, token |-> cli.token, got |-> cli.got,
            copy |-> cli.copy, values |-> cli.values]
  /\ cli.pc \in {"none", "update", "updated", "join", "save", "saved", "stop",
                 "start"}
  /\ cli.ctl \in Ctl \cup {Empty} /\ cli.token \in Token \cup {Empty}
  /\ cli.got \in Cred \cup {Empty} /\ GoodFile(cli.copy)
  /\ cli.got # Empty <=> cli.pc \in {"save", "saved"}
  /\ cli.pc \in {"update", "updated"} =>
       cli.ctl \in Ctl /\ Plan(cli.values, cli.ctl, cli.token)

ControllersTyped ==
  /\ issued \in Nat /\ valid \in [Ctl -> 0..issued] /\ unspent \subseteq Token
  /\ issued + Cardinality(unspent) = MaxJoins

HistoryTyped ==
  /\ service \in BOOLEAN /\ edited \in BOOLEAN /\ causes \subseteq Cause
  /\ calls \in 0..MaxCalls /\ crashes \in 0..MaxCrashes

Typed ==
  /\ GoodFile(file) /\ DaemonTyped /\ CliTyped
  /\ ControllersTyped /\ HistoryTyped

LEMMA Bounds == MaxCalls \in Nat /\ MaxCrashes \in Nat
BY CredentialsAssumption

LEMMA TokensFinite ==
  /\ Cardinality(Token) \in Nat /\ MaxJoins \in Nat /\ MaxJoins >= 1
  /\ \A S \in SUBSET Token : Cardinality(S) \in Nat
  /\ \A S \in SUBSET Token : \A t \in S :
       Cardinality(S \ {t}) = Cardinality(S) - 1 /\ Cardinality(S) >= 1
<1>1. Cardinality(Token) \in Nat
  BY CredentialsAssumption, FS_CardinalityType
<1>2. \A S \in SUBSET Token : IsFiniteSet(S) /\ Cardinality(S) \in Nat
  BY CredentialsAssumption, FS_Subset, FS_CardinalityType
<1>3. ASSUME NEW S \in SUBSET Token, NEW t \in S
      PROVE  Cardinality(S \ {t}) = Cardinality(S) - 1 /\ Cardinality(S) >= 1
  <2>1. IsFiniteSet(S) /\ Cardinality(S) \in Nat
    BY <1>2
  <2>2. Cardinality(S \ {t}) = Cardinality(S) - 1
    BY <2>1, FS_RemoveElement
  <2>3. Cardinality(S \ {t}) \in Nat
    BY <1>2
  <2> QED BY <2>1, <2>2, <2>3
<1> QED BY <1>1, <1>2, <1>3 DEF MaxJoins

\* What a join the controller takes gives.
LEMMA AcceptsTyped ==
  ASSUME ControllersTyped, NEW c, NEW t, Accepts(c, t)
  PROVE  /\ ControllersTyped' /\ NewCred(c) \in Cred /\ NewCred(c) # Empty
         /\ NewCred(c).ctl = c /\ NewCred(c).n = issued + 1
         /\ c \in Ctl /\ t \in unspent /\ t \in Token /\ Issuer[t] = c
         /\ issued' = issued + 1 /\ unspent' = unspent \ {t}
         /\ valid' = [valid EXCEPT ![c] = issued + 1]
<1>1. /\ t \in unspent /\ Issuer[t] = c /\ issued' = issued + 1
      /\ unspent' = unspent \ {t} /\ valid' = [valid EXCEPT ![c] = issued + 1]
  BY DEF Accepts
<1>2. /\ issued \in Nat /\ valid \in [Ctl -> 0..issued] /\ unspent \subseteq Token
      /\ issued + Cardinality(unspent) = MaxJoins
  BY DEF ControllersTyped
<1>3. t \in Token /\ c \in Ctl
  BY <1>1, <1>2, CredentialsAssumption
<1>4. /\ Cardinality(unspent) \in Nat /\ Cardinality(unspent) >= 1
      /\ Cardinality(unspent \ {t}) = Cardinality(unspent) - 1
  BY <1>1, <1>2, TokensFinite
<1>5. issued + 1 \in 1..MaxJoins
  BY <1>2, <1>4, TokensFinite
<1>6. ControllersTyped'
  <2>1. valid' \in [Ctl -> 0..issued']
    BY <1>1, <1>2, <1>3
  <2>2. issued' + Cardinality(unspent') = MaxJoins
    BY <1>1, <1>2, <1>4
  <2> QED BY <1>1, <1>2, <2>1, <2>2 DEF ControllersTyped
<1>7. NewCred(c) \in Cred /\ NewCred(c).ctl = c /\ NewCred(c).n = issued + 1
  BY <1>3, <1>5 DEF NewCred, Cred
<1> QED BY <1>1, <1>3, <1>6, <1>7, ValuesAssumption

LEMMA DownTyped ==
  /\ Down.pc = "down" /\ Down.cfg = NoCfg /\ Down.got = Empty
  /\ Down.copy = Missing /\ NoCfg \in Cfg /\ GoodFile(Missing)
  /\ daemon = Down => DaemonTyped
<1>1. NoCfg \in Cfg
  BY DEF NoCfg, Cfg
<1>2. GoodFile(Missing)
  BY <1>1, DefaultIsEmpty DEF GoodFile, Wellformed
<1> QED BY <1>1, <1>2 DEF Down, DaemonTyped

LEMMA NoCallTyped ==
  /\ NoCall.pc = "none" /\ NoCall.got = Empty /\ NoCall.ctl = Empty
  /\ NoCall.token = Empty /\ NoCall.copy = Missing
  /\ cli = NoCall => CliTyped
BY DownTyped DEF NoCall, CliTyped

THEOREM InitTyped == Init => Typed
<1> SUFFICES ASSUME Init PROVE Typed
  OBVIOUS
<1>1. GoodFile(file)
  BY InitialAssumption DEF Init, GoodFile, Wellformed
<1>2. ControllersTyped
  <2>1. issued = 1 /\ unspent = Token
    BY DEF Init
  <2>2. \A c \in Ctl : valid[c] \in 0..1
    BY DEF Init
  <2>3. valid \in [Ctl -> 0..1]
    <3>1. valid = [c \in Ctl |-> IF HasCredentials(Load(file)) /\ c = Load(file).ctl
                                THEN 1 ELSE 0]
      BY DEF Init
    <3> QED BY <2>2, <3>1
  <2> QED BY <2>1, <2>3, TokensFinite DEF ControllersTyped, MaxJoins
<1>3. HistoryTyped
  <2>1. service = TRUE /\ edited = FALSE /\ causes = {} /\ calls = 0 /\ crashes = 0
    BY DEF Init
  <2>2. service \in BOOLEAN /\ edited \in BOOLEAN
    BY <2>1, Zenon
  <2>3. 0 \in 0..MaxCalls /\ 0 \in 0..MaxCrashes
    BY Bounds
  <2> QED BY <2>1, <2>2, <2>3 DEF HistoryTyped
<1> QED BY <1>1, <1>2, <1>3, DownTyped, NoCallTyped DEF Init, Typed

LEMMA SaveTyped ==
  ASSUME NEW f, GoodFile(f), NEW cred \in Cred
  PROVE  GoodFile(Saved(f, cred))
BY SavedIs

LEMMA FieldsTyped ==
  ASSUME Typed
  PROVE  /\ Load(file) \in Cfg
         /\ \A c : c \in Cfg => [c EXCEPT !.id = Empty, !.secret = Empty] \in Cfg
BY DEF Typed, GoodFile, Cfg

LEMMA TypedNext == Typed /\ [Next]_vars => Typed'
<1> SUFFICES ASSUME Typed, [Next]_vars PROVE Typed'
  OBVIOUS
<1> USE DEF Typed
<1>1. CASE Start
  <2>1. DaemonTyped'
    BY <1>1, DownTyped DEF Start, DaemonTyped, Down, GoodFile
  <2> QED BY <1>1, <2>1 DEF Start, controllers, counters, CliTyped,
          ControllersTyped, HistoryTyped
<1>2. CASE JoinAccepted
  <2>1. Accepts(daemon.cfg.ctl, daemon.cfg.token)
    BY <1>2 DEF JoinAccepted
  <2>2. DaemonTyped'
    BY <1>2, <2>1, AcceptsTyped DEF JoinAccepted, DaemonTyped
  <2>3. ControllersTyped'
    BY <2>1, AcceptsTyped
  <2> QED BY <1>2, <2>2, <2>3 DEF JoinAccepted, counters, CliTyped, HistoryTyped
<1>3. CASE JoinReplyLost
  <2>1. ControllersTyped'
    BY <1>3, AcceptsTyped DEF JoinReplyLost
  <2>2. HistoryTyped'
    BY <1>3 DEF JoinReplyLost, counters, HistoryTyped, Cause
  <2> QED BY <1>3, <2>1, <2>2 DEF JoinReplyLost, DaemonTyped, CliTyped
<1>4. CASE SaveReads
  <2>1. DaemonTyped'
    BY <1>4 DEF SaveReads, DaemonTyped
  <2> QED BY <1>4, <2>1 DEF SaveReads, controllers, counters, CliTyped,
          ControllersTyped, HistoryTyped
<1>5. ASSUME daemon.pc = "write", daemon' = Joined(daemon)
      PROVE  DaemonTyped'
  BY <1>5, DownTyped DEF DaemonTyped, Joined, Cfg
<1>6. CASE SaveWrites
  <2>1. GoodFile(file')
    BY <1>6, SaveTyped DEF SaveWrites, DaemonTyped
  <2>2. HistoryTyped'
    BY <1>6 DEF SaveWrites, Overlaps, counters, HistoryTyped, Cause
  <2> QED BY <1>5, <1>6, <2>1, <2>2 DEF SaveWrites, controllers, CliTyped,
          ControllersTyped
<1>7. CASE SaveFails
  <2>1. HistoryTyped'
    BY <1>7 DEF SaveFails, counters, HistoryTyped, Cause
  <2> QED BY <1>5, <1>7, <2>1 DEF SaveFails, controllers, CliTyped,
          ControllersTyped
<1>8. CASE Dial
  <2>1. DaemonTyped'
    BY <1>8 DEF Dial, DaemonTyped
  <2> QED BY <1>8, <2>1 DEF Dial, controllers, counters, CliTyped,
          ControllersTyped, HistoryTyped
<1>9. CASE Rejected
  <2>1. DaemonTyped'
    BY <1>9, FieldsTyped DEF Rejected, DaemonTyped
  <2> QED BY <1>9, <2>1 DEF Rejected, controllers, counters, CliTyped,
          ControllersTyped, HistoryTyped
<1>10. CASE SessionEnds
  <2>1. DaemonTyped'
    BY <1>10 DEF SessionEnds, DaemonTyped
  <2> QED BY <1>10, <2>1 DEF SessionEnds, controllers, counters, CliTyped,
          ControllersTyped, HistoryTyped
<1>11. ASSUME daemon' = Down
       PROVE  DaemonTyped'
  BY <1>11, DownTyped DEF DaemonTyped, Down
<1>12. ASSUME cli' = NoCall
       PROVE  CliTyped'
  BY <1>12, DownTyped DEF CliTyped, NoCall
<1>13. CASE Crash
  <2>1. HistoryTyped'
    BY <1>13, Bounds DEF Crash, Loses, HistoryTyped, Cause
  <2> QED BY <1>11, <1>13, <2>1 DEF Crash, controllers, CliTyped, ControllersTyped
<1>14. ASSUME NEW c \in Ctl \cup {Empty}, NEW t \in Token \cup {Empty}, Call(c, t)
       PROVE  Typed'
  <2> DEFINE f == IF file = Missing THEN DefaultFile ELSE file
             cfg == IF Load(f).ctl = Broken THEN NoCfg ELSE Load(f)
             ctl == IF c = Empty THEN cfg.ctl ELSE c
  <2>1. GoodFile(f) /\ (cfg.ctl # Empty => cfg.ctl \in Ctl)
    <3>1. GoodFile(f)
      BY CreatedIs
    <3>2. Load(f).ctl \in Ctl \cup {Empty, Broken}
      BY <3>1 DEF GoodFile, Cfg
    <3> HIDE DEF f
    <3> QED BY <3>1, <3>2 DEF NoCfg
  <2>2. /\ file' = f /\ ctl # Empty
        /\ cli' = [NoCall EXCEPT !.pc = "update", !.ctl = ctl, !.token = t,
                                 !.copy = f, !.values = Wants(cfg, ctl, t)]
        /\ UNCHANGED <<daemon, service, controllers, crashes, edited>>
    BY <1>14 DEF Call
  <2>3. ctl \in Ctl
    BY <2>1, <2>2
  <2>4. Plan(Wants(cfg, ctl, t), ctl, t)
    BY <2>3, WantsIs
  <2>5. HistoryTyped'
    BY <1>14, Bounds DEF Call, HistoryTyped, Cause
  <2> HIDE DEF f, cfg, ctl
  <2>6. CliTyped'
    BY <2>1, <2>2, <2>3, <2>4 DEF NoCall, CliTyped
  <2> QED BY <2>1, <2>2, <2>5, <2>6 DEF controllers, DaemonTyped, ControllersTyped
<1>15. CASE CallGivesUp
  <2>1. GoodFile(file')
    BY <1>15, CreatedIs DEF CallGivesUp
  <2> QED BY <1>15, <2>1 DEF CallGivesUp, controllers, counters, DaemonTyped,
          CliTyped, ControllersTyped, HistoryTyped
<1>16. CASE UpdateReads
  <2>1. CliTyped'
    BY <1>16 DEF UpdateReads, CliTyped
  <2>2. HistoryTyped'
    BY <1>16 DEF UpdateReads, Overlaps, counters, HistoryTyped, Cause
  <2> QED BY <1>16, <2>1, <2>2 DEF UpdateReads, controllers, DaemonTyped,
          ControllersTyped
<1>17. CASE UpdateWrites
  <2>1. CliTyped'
    BY <1>17, DownTyped DEF UpdateWrites, CliTyped
  <2>2. HistoryTyped'
    BY <1>17 DEF UpdateWrites, Overlaps, counters, HistoryTyped, Cause
  <2>3. GoodFile(file')
    BY <1>17, UpdatedIs DEF UpdateWrites, CliTyped
  <2> QED BY <1>17, <2>1, <2>2, <2>3 DEF UpdateWrites, controllers, DaemonTyped,
          ControllersTyped
<1>18. CASE CallJoinAccepted
  <2>1. Accepts(cli.ctl, cli.token)
    BY <1>18 DEF CallJoinAccepted
  <2>2. CliTyped'
    BY <1>18, <2>1, AcceptsTyped DEF CallJoinAccepted, CliTyped
  <2>3. ControllersTyped'
    BY <2>1, AcceptsTyped
  <2> QED BY <1>18, <2>2, <2>3 DEF CallJoinAccepted, counters, DaemonTyped, HistoryTyped
<1>19. CASE CallJoinRefused
  BY <1>12, <1>19 DEF CallJoinRefused, controllers, counters, DaemonTyped,
     ControllersTyped, HistoryTyped
<1>20. CASE CallJoinUnreachable
  <2>1. CliTyped'
    BY <1>20 DEF CallJoinUnreachable, CliTyped
  <2> QED BY <1>20, <2>1 DEF CallJoinUnreachable, controllers, counters, DaemonTyped,
          ControllersTyped, HistoryTyped
<1>21. CASE CallJoinReplyLost
  <2>1. CliTyped'
    BY <1>21 DEF CallJoinReplyLost, CliTyped
  <2>2. ControllersTyped'
    BY <1>21, AcceptsTyped DEF CallJoinReplyLost
  <2>3. HistoryTyped'
    BY <1>21 DEF CallJoinReplyLost, counters, HistoryTyped, Cause
  <2> QED BY <1>21, <2>1, <2>2, <2>3 DEF CallJoinReplyLost, DaemonTyped
<1>22. CASE CallSaveReads
  <2>1. CliTyped'
    BY <1>22 DEF CallSaveReads, CliTyped
  <2> QED BY <1>22, <2>1 DEF CallSaveReads, controllers, counters, DaemonTyped,
          ControllersTyped, HistoryTyped
<1>23. CASE CallSaveWrites
  <2>1. CliTyped'
    BY <1>23, DownTyped DEF CallSaveWrites, CliTyped
  <2>2. HistoryTyped'
    BY <1>23 DEF CallSaveWrites, Overlaps, counters, HistoryTyped, Cause
  <2>3. GoodFile(file')
    BY <1>23, SaveTyped DEF CallSaveWrites, CliTyped
  <2> QED BY <1>23, <2>1, <2>2, <2>3 DEF CallSaveWrites, controllers, DaemonTyped,
          ControllersTyped
<1>24. CASE ServiceStops
  <2>1. CliTyped'
    BY <1>24 DEF ServiceStops, CliTyped
  <2>2. HistoryTyped'
    BY <1>24 DEF ServiceStops, Loses, counters, HistoryTyped, Cause
  <2> QED BY <1>11, <1>24, <2>1, <2>2 DEF ServiceStops, controllers, ControllersTyped
<1>25. CASE ServiceStarts
  <2>1. HistoryTyped'
    BY <1>25 DEF ServiceStarts, counters, HistoryTyped
  <2> QED BY <1>12, <1>25, <2>1 DEF ServiceStarts, controllers, DaemonTyped,
          ControllersTyped
<1>26. CASE CallEnds
  <2>1. HistoryTyped'
    BY <1>26 DEF CallEnds, Loses, counters, HistoryTyped, Cause
  <2> QED BY <1>12, <1>26, <2>1 DEF CallEnds, controllers, DaemonTyped,
          ControllersTyped
<1>27. ASSUME NEW c \in Ctl, Forget(c)
       PROVE  Typed'
  <2>1. ControllersTyped'
    BY <1>27 DEF Forget, ControllersTyped
  <2>2. HistoryTyped'
    BY <1>27 DEF Forget, counters, HistoryTyped, Cause
  <2> QED BY <1>27, <2>1, <2>2 DEF Forget, DaemonTyped, CliTyped
<1>28. CASE Reboot
  <2>1. HistoryTyped'
    BY <1>28, Bounds DEF Reboot, Loses, HistoryTyped, Cause
  <2> QED BY <1>11, <1>12, <1>28, <2>1 DEF Reboot, controllers, ControllersTyped
<1>29. CASE UNCHANGED vars
  BY <1>29 DEF vars, DaemonTyped, CliTyped, ControllersTyped, HistoryTyped
<1> QED BY <1>1, <1>2, <1>3, <1>4, <1>6, <1>7, <1>8, <1>9, <1>10, <1>13, <1>14,
        <1>15, <1>16, <1>17, <1>18, <1>19, <1>20, <1>21, <1>22, <1>23, <1>24,
        <1>25, <1>26, <1>27, <1>28, <1>29 DEF Next, DaemonStep, CallStep

\* Every field of the state has its type: no two processes leave a file that
\* does not load as one.
THEOREM TypesHold == Spec => []TypeOK
<1>1. Typed => TypeOK
  <2> SUFFICES ASSUME Typed PROVE TypeOK
    OBVIOUS
  <2>1. issued \in 0..MaxJoins
    BY TokensFinite DEF Typed, ControllersTyped
  <2> QED BY <2>1 DEF Typed, TypeOK, GoodFile, Wellformed, DaemonTyped, CliTyped,
          ControllersTyped, HistoryTyped
<1> QED BY <1>1, InitTyped, TypedNext, PTL DEF Spec

-----------------------------------------------------------------------------
(* The credentials of one controller never stand beside another's address. *)
(* The command decides from the file it has read whether the controller    *)
(* changes, and with it whether the credentials go; without an overlap the *)
(* file is still that one when it writes.  And the daemon keeps what its   *)
(* join gave it beside the controller it joined, which is the file's.      *)

Up == daemon.pc # "down"

\* What the command makes of a file: one that does not load counts as none.
Seen(f) == IF Load(f).ctl = Broken THEN NoCfg ELSE Load(f)
Changes(f, c) == Seen(f).ctl # Empty /\ Seen(f).ctl # c
AtHome(cfg) == HasCredentials(cfg) => cfg.id.ctl = cfg.ctl
Home ==
  /\ AtHome(daemon.cfg) /\ AtHome(Load(file))
  /\ Up /\ ~edited => daemon.cfg.ctl = Load(file).ctl
  /\ daemon.got # Empty => daemon.got.ctl = daemon.cfg.ctl
  /\ cli.got # Empty => cli.got.ctl = cli.ctl
  /\ cli.pc \in {"join", "save", "saved"} => Load(file).ctl = cli.ctl
  /\ cli.pc \in {"update", "updated"} =>
       /\ Changes(cli.copy, cli.ctl) \/ cli.token # Empty => Wipes(cli.values)
       /\ cli.token = Empty => /\ HasCredentials(Seen(cli.copy))
                               /\ ~Changes(cli.copy, cli.ctl) /\ ~Wipes(cli.values)

HomeInv == "overlap" \notin causes => Home

LEMMA CausesGrow == Next => causes \subseteq causes'
BY DEF Next, DaemonStep, CallStep, Start, JoinAccepted, JoinReplyLost, SaveReads,
   SaveWrites, SaveFails, Dial, Rejected, SessionEnds, Crash, Call, CallGivesUp,
   CallEnds, UpdateReads, UpdateWrites, CallJoinAccepted, CallJoinRefused,
   CallJoinUnreachable, CallJoinReplyLost, CallSaveReads, CallSaveWrites,
   ServiceStops, ServiceStarts, Forget, Reboot, Overlaps, Loses, counters

LEMMA NoOverlap ==
  ASSUME NEW copy, NEW stale \in BOOLEAN, Overlaps(copy, stale),
         "overlap" \notin causes'
  PROVE  copy = file /\ ~stale /\ causes' = causes
BY DEF Overlaps

\* A credential is of a controller, and no controller is empty or broken.
LEMMA CredsHaveController ==
  ASSUME NEW cfg \in Cfg, HasCredentials(cfg), AtHome(cfg)
  PROVE  cfg.ctl \in Ctl /\ cfg.ctl # Empty /\ cfg.ctl # Broken
BY CredentialsAssumption, ValuesAssumption DEF Cfg, HasCredentials, AtHome, Cred

LEMMA HomeInit == Init => HomeInv
<1> SUFFICES ASSUME Init PROVE Home
  BY DEF HomeInv
<1>1. AtHome(Load(file))
  <2>1. HasCredentials(Load(file)) => Load(file).id = [ctl |-> Load(file).ctl, n |-> 1]
    BY InitialAssumption DEF Init
  <2> QED BY <2>1 DEF AtHome
<1>2. AtHome(NoCfg)
  BY DEF AtHome, NoCfg, HasCredentials
<1> QED BY <1>1, <1>2, DownTyped, NoCallTyped DEF Init, Home, Up

\* The daemon or the file is as it was, for Home, and so is the command.
LEMMA HomeKept ==
  ASSUME Typed, Home, UNCHANGED <<file, cli, edited>>, AtHome(daemon.cfg'),
         daemon'.pc # "down" /\ ~edited => daemon'.cfg.ctl = Load(file).ctl,
         daemon'.got # Empty => daemon'.got.ctl = daemon'.cfg.ctl
  PROVE  Home'
BY DEF Home, Up, Changes, Seen, AtHome, HasCredentials

LEMMA HomeNext == Typed /\ HomeInv /\ [Next]_vars => HomeInv'
<1> SUFFICES ASSUME Typed, HomeInv, [Next]_vars, "overlap" \notin causes'
             PROVE  Home'
  BY DEF HomeInv
<1>1. Home
  BY CausesGrow DEF HomeInv, vars
<1>2. /\ AtHome(daemon.cfg) /\ AtHome(Load(file))
      /\ Up /\ ~edited => daemon.cfg.ctl = Load(file).ctl
      /\ daemon.got # Empty => daemon.got.ctl = daemon.cfg.ctl
  BY <1>1 DEF Home
<1>3. AtHome(NoCfg)
  BY DEF AtHome, NoCfg, HasCredentials
<1>4. ASSUME daemon' = Down, UNCHANGED <<file, cli, edited>>
      PROVE  Home'
  BY <1>1, <1>3, <1>4, DownTyped, HomeKept
<1>5. ASSUME UNCHANGED <<file, daemon, edited>>, cli'.pc \in {"none", "stop", "start"},
             cli'.got = Empty
      PROVE  Home'
  BY <1>1, <1>5 DEF Home, Up
<1>6. ASSUME UNCHANGED <<file, cli, edited, daemon>>
      PROVE  Home'
  BY <1>1, <1>2, <1>6, HomeKept DEF Up
<1>7. CASE Start
  <2>1. /\ daemon'.pc = "run" /\ daemon'.cfg = Load(file) /\ daemon'.got = Empty
        /\ edited' = FALSE /\ UNCHANGED <<file, cli>>
    BY <1>7 DEF Start, Down
  <2> QED BY <1>1, <1>2, <2>1 DEF Home, Up, Changes, Seen
<1>8. CASE JoinAccepted
  <2>1. Accepts(daemon.cfg.ctl, daemon.cfg.token)
    BY <1>8 DEF JoinAccepted
  <2>2. /\ daemon'.cfg = daemon.cfg /\ daemon'.got = NewCred(daemon.cfg.ctl)
        /\ UNCHANGED <<file, cli, edited>> /\ daemon.pc = "run"
    BY <1>8 DEF JoinAccepted, Typed, DaemonTyped
  <2>3. NewCred(daemon.cfg.ctl).ctl = daemon.cfg.ctl
    BY <2>1, AcceptsTyped DEF Typed
  <2> QED BY <1>1, <1>2, <2>2, <2>3, HomeKept DEF Up
<1>9. CASE JoinReplyLost
  BY <1>6, <1>9 DEF JoinReplyLost
<1>10. CASE SaveReads \/ Dial \/ SessionEnds
  <2>1. /\ daemon'.cfg = daemon.cfg /\ daemon'.got = daemon.got /\ daemon.pc # "down"
        /\ UNCHANGED <<file, cli, edited>>
    BY <1>10 DEF SaveReads, Dial, SessionEnds, Typed, DaemonTyped
  <2> QED BY <1>1, <1>2, <2>1, HomeKept DEF Up
<1>11. ASSUME daemon.pc = "write", daemon' = Joined(daemon)
       PROVE  /\ daemon'.cfg.ctl = daemon.cfg.ctl /\ AtHome(daemon'.cfg)
              /\ daemon'.got = Empty /\ daemon'.pc = "run"
              /\ daemon.got # Empty /\ daemon.got \in Cred
              /\ daemon.got.ctl = daemon.cfg.ctl
  <2>1. /\ daemon.got # Empty /\ daemon.got \in Cred
        /\ daemon.got.ctl = daemon.cfg.ctl
    BY <1>2, <1>11 DEF Typed, DaemonTyped
  <2>2. /\ daemon'.cfg = [ctl |-> daemon.cfg.ctl, token |-> Empty, id |-> daemon.got,
                          secret |-> daemon.got]
        /\ daemon'.got = Empty /\ daemon'.pc = "run"
    BY <1>11 DEF Typed, DaemonTyped, Joined
  <2> QED BY <2>1, <2>2 DEF AtHome
<1>12. CASE SaveWrites
  <2>1. daemon.copy = file /\ ~edited
    BY <1>12, NoOverlap DEF SaveWrites, Typed, HistoryTyped
  <2>2. /\ daemon.pc = "write" /\ daemon' = Joined(daemon)
        /\ file' = Saved(daemon.copy, daemon.got) /\ UNCHANGED <<cli, edited>>
    BY <1>12 DEF SaveWrites
  <2>3. Load(file') = [ctl |-> Load(file).ctl, token |-> Empty, id |-> daemon.got,
                       secret |-> daemon.got]
    BY <1>11, <2>1, <2>2, SavedIs DEF Typed
  <2>4. daemon.cfg.ctl = Load(file).ctl
    BY <1>2, <2>1, <2>2 DEF Up
  <2>5. AtHome(Load(file')) /\ Load(file').ctl = Load(file).ctl
    BY <1>11, <2>2, <2>3, <2>4 DEF AtHome
  <2> QED BY <1>1, <1>11, <2>2, <2>4, <2>5 DEF Home, Up, Changes, Seen
<1>13. CASE SaveFails
  <2>1. /\ daemon.pc = "write" /\ daemon' = Joined(daemon)
        /\ UNCHANGED <<file, cli, edited>>
    BY <1>13 DEF SaveFails
  <2> QED BY <1>1, <1>2, <1>11, <2>1, HomeKept DEF Up
<1>14. CASE Rejected
  <2>1. /\ daemon'.cfg.ctl = daemon.cfg.ctl /\ daemon'.got = daemon.got
        /\ daemon'.cfg.id \in {daemon.cfg.id, Empty} /\ daemon.pc # "down"
        /\ daemon'.cfg.secret \in {daemon.cfg.secret, Empty}
        /\ UNCHANGED <<file, cli, edited>>
    BY <1>14 DEF Rejected, Typed, DaemonTyped, Cfg
  <2>2. AtHome(daemon'.cfg)
    BY <1>2, <2>1 DEF AtHome, HasCredentials
  <2> QED BY <1>1, <1>2, <2>1, <2>2, HomeKept DEF Up
<1>15. CASE Crash
  BY <1>4, <1>15 DEF Crash
<1>16. ASSUME NEW c \in Ctl \cup {Empty}, NEW t \in Token \cup {Empty}, Call(c, t)
       PROVE  Home'
  <2> DEFINE f == IF file = Missing THEN DefaultFile ELSE file
             cfg == IF Load(f).ctl = Broken THEN NoCfg ELSE Load(f)
             ctl == IF c = Empty THEN cfg.ctl ELSE c
  <2>1. GoodFile(f) /\ Load(f) = Load(file)
    BY CreatedIs DEF Typed
  <2>2. /\ file' = f /\ ctl # Empty
        /\ t # Empty \/ (HasCredentials(cfg) /\ ~(cfg.ctl # Empty /\ cfg.ctl # ctl))
        /\ cli' = [NoCall EXCEPT !.pc = "update", !.ctl = ctl, !.token = t,
                                 !.copy = f, !.values = Wants(cfg, ctl, t)]
        /\ UNCHANGED <<daemon, edited>>
    BY <1>16 DEF Call
  <2>3. cfg = Seen(f)
    BY DEF Seen
  <2>4. ctl \in Ctl
    <3>1. Load(f).ctl \in Ctl \cup {Empty, Broken}
      BY <2>1 DEF GoodFile, Cfg
    <3> HIDE DEF f
    <3> QED BY <2>2, <3>1 DEF NoCfg
  <2> HIDE DEF f, cfg, ctl
  <2>5. Wipes(Wants(cfg, ctl, t)) <=> (cfg.ctl # Empty /\ cfg.ctl # ctl) \/ t # Empty
    BY <2>4, WantsIs
  <2>6. /\ cli'.pc = "update" /\ cli'.ctl = ctl /\ cli'.token = t /\ cli'.copy = f
        /\ cli'.values = Wants(cfg, ctl, t) /\ cli'.got = Empty
    BY <2>2 DEF NoCall
  <2>7. /\ Changes(cli'.copy, cli'.ctl) \/ cli'.token # Empty => Wipes(cli'.values)
        /\ cli'.token = Empty => /\ HasCredentials(Seen(cli'.copy))
                                 /\ ~Changes(cli'.copy, cli'.ctl) /\ ~Wipes(cli'.values)
    BY <2>2, <2>3, <2>5, <2>6 DEF Changes
  <2> QED BY <1>1, <2>1, <2>2, <2>6, <2>7 DEF Home, Up
<1>17. CASE CallGivesUp
  <2>1. Load(file') = Load(file) /\ UNCHANGED <<daemon, cli, edited>>
    BY <1>17, CreatedIs DEF CallGivesUp, Typed
  <2> QED BY <1>1, <2>1 DEF Home, Up, Changes
<1>18. CASE UpdateReads
  <2>1. cli.copy = file
    BY <1>18, NoOverlap DEF UpdateReads
  <2>2. /\ cli'.pc = "updated" /\ cli'.copy = cli.copy /\ cli'.values = cli.values
        /\ cli'.ctl = cli.ctl /\ cli'.token = cli.token /\ cli'.got = cli.got
        /\ cli.pc = "update" /\ UNCHANGED <<file, daemon, edited>>
    BY <1>18, <2>1 DEF UpdateReads, Typed, CliTyped
  <2> QED BY <1>1, <2>2 DEF Home, Up, Changes
<1>19. CASE UpdateWrites
  <2>1. cli.copy = file
    BY <1>19, NoOverlap DEF UpdateWrites
  <2>2. /\ cli.pc = "updated" /\ cli'.pc \in {"join", "stop"} /\ cli'.ctl = cli.ctl
        /\ cli'.got = cli.got /\ cli.got = Empty
        /\ edited' = TRUE /\ daemon' = daemon
        /\ file' = Update(cli.copy, cli.values, {})
    BY <1>19 DEF UpdateWrites, Typed, CliTyped
  <2>3. /\ cli.ctl \in Ctl /\ cli.token \in Token \cup {Empty}
        /\ Plan(cli.values, cli.ctl, cli.token) /\ GoodFile(file)
    BY <2>2 DEF Typed, CliTyped
  <2>4. Load(file') =
          [ctl |-> cli.ctl,
           token |-> IF cli.token = Empty THEN Load(file).token ELSE cli.token,
           id |-> IF Wipes(cli.values) THEN Empty ELSE Load(file).id,
           secret |-> IF Wipes(cli.values) THEN Empty ELSE Load(file).secret]
    BY <2>1, <2>2, <2>3, UpdatedIs
  <2>5. AtHome(Load(file'))
    <3>1. CASE Wipes(cli.values)
      BY <2>4, <3>1 DEF AtHome, HasCredentials
    <3>2. CASE ~Wipes(cli.values) /\ HasCredentials(Load(file))
      <4>1. Load(file).ctl \in Ctl /\ Load(file).ctl # Empty /\ Load(file).ctl # Broken
        BY <1>2, <2>3, <3>2, CredsHaveController DEF GoodFile
      <4>2. ~Changes(file, cli.ctl)
        BY <1>1, <2>1, <2>2, <3>2 DEF Home
      <4>3. Load(file).ctl = cli.ctl
        BY <4>1, <4>2 DEF Changes, Seen
      <4> QED BY <1>2, <2>4, <3>2, <4>3 DEF AtHome, HasCredentials
    <3>3. CASE ~Wipes(cli.values) /\ ~HasCredentials(Load(file))
      BY <2>4, <3>3 DEF AtHome, HasCredentials
    <3> QED BY <3>1, <3>2, <3>3
  <2>6. Load(file').ctl = cli.ctl
    BY <2>4
  <2> QED BY <1>1, <2>2, <2>5, <2>6 DEF Home
<1>20. CASE CallJoinAccepted
  <2>1. Accepts(cli.ctl, cli.token)
    BY <1>20 DEF CallJoinAccepted
  <2>2. NewCred(cli.ctl).ctl = cli.ctl
    BY <2>1, AcceptsTyped DEF Typed
  <2>3. /\ cli.pc = "join" /\ cli'.pc = "save" /\ cli'.got = NewCred(cli.ctl)
        /\ cli'.ctl = cli.ctl /\ UNCHANGED <<file, daemon, edited>>
    BY <1>20 DEF CallJoinAccepted, Typed, CliTyped
  <2> QED BY <1>1, <2>2, <2>3 DEF Home, Up
<1>21. CASE CallJoinUnreachable \/ CallJoinReplyLost
  <2>1. cli'.pc = "stop" /\ cli'.got = Empty /\ UNCHANGED <<file, daemon, edited>>
    BY <1>21 DEF CallJoinUnreachable, CallJoinReplyLost, Typed, CliTyped
  <2> QED BY <1>5, <2>1
<1>22. CASE CallSaveReads
  <2>1. /\ cli.pc = "save" /\ cli'.pc = "saved" /\ cli'.got = cli.got
        /\ cli'.ctl = cli.ctl /\ UNCHANGED <<file, daemon, edited>>
    BY <1>22 DEF CallSaveReads, Typed, CliTyped
  <2> QED BY <1>1, <2>1 DEF Home, Up
<1>23. CASE CallSaveWrites
  <2>1. cli.copy = file
    BY <1>23, NoOverlap DEF CallSaveWrites
  <2>2. /\ cli.pc = "saved" /\ cli'.pc = "stop" /\ cli'.got = Empty
        /\ edited' = TRUE /\ daemon' = daemon /\ cli.got \in Cred /\ cli.got # Empty
        /\ file' = Saved(cli.copy, cli.got)
    BY <1>23 DEF CallSaveWrites, Typed, CliTyped
  <2>3. Load(file') = [ctl |-> Load(file).ctl, token |-> Empty, id |-> cli.got,
                       secret |-> cli.got]
    BY <2>1, <2>2, SavedIs DEF Typed
  <2>4. cli.got.ctl = Load(file).ctl
    BY <1>1, <2>2 DEF Home
  <2>5. AtHome(Load(file'))
    BY <2>3, <2>4 DEF AtHome
  <2> QED BY <1>1, <2>2, <2>5 DEF Home
<1>24. CASE ServiceStops
  <2>1. /\ cli'.pc = "start" /\ cli'.got = Empty /\ daemon' = Down
        /\ UNCHANGED <<file, edited>>
    BY <1>24 DEF ServiceStops, Typed, CliTyped
  <2> QED BY <1>1, <1>3, <2>1, DownTyped DEF Home, Up
<1>25. CASE CallJoinRefused \/ ServiceStarts \/ CallEnds
  <2>1. cli' = NoCall /\ UNCHANGED <<file, daemon, edited>>
    BY <1>25 DEF CallJoinRefused, ServiceStarts, CallEnds
  <2> QED BY <1>5, <2>1, NoCallTyped
<1>26. ASSUME NEW c \in Ctl, Forget(c)
       PROVE  Home'
  BY <1>6, <1>26 DEF Forget
<1>27. CASE Reboot
  <2>1. daemon' = Down /\ cli' = NoCall /\ UNCHANGED <<file, edited>>
    BY <1>27 DEF Reboot
  <2> QED BY <1>1, <1>3, <2>1, DownTyped, NoCallTyped DEF Home, Up
<1>28. CASE UNCHANGED vars
  BY <1>6, <1>28 DEF vars
<1> QED BY <1>7, <1>8, <1>9, <1>10, <1>12, <1>13, <1>14, <1>15, <1>16, <1>17,
        <1>18, <1>19, <1>20, <1>21, <1>22, <1>23, <1>24, <1>25, <1>26, <1>27,
        <1>28 DEF Next, DaemonStep, CallStep

\* No controller is ever sent the secret another one gave: the credentials
\* beside an address, in the file and in the daemon, are of that controller,
\* unless two processes edited the file at once.
THEOREM SecretsStay == Spec => []SecretStaysHome
<1>1. HomeInv => SecretStaysHome
  BY DEF HomeInv, Home, AtHome, SecretStaysHome
<1> QED BY <1>1, InitTyped, TypedNext, HomeInit, HomeNext, PTL DEF Spec

-----------------------------------------------------------------------------
(* An access point can come back.  While nothing went wrong: credentials   *)
(* that a process has and the file does not are the newest of their        *)
(* controller, and the token they were bought with is spent, in the file   *)
(* too, so no one else can join with it; the daemon and the command never  *)
(* both have some, unless the command edited the file since and the        *)
(* daemon's write, if it still comes, will count as an overlap (Doomed).   *)

Age(x) == IF x = Empty THEN 0 ELSE x.n

Aged ==
  /\ Age(Load(file).id) <= issued
  /\ Age(daemon.got) <= issued /\ Age(cli.got) <= issued

Doomed == daemon.got # Empty /\ edited

DaemonFine ==
  /\ Up /\ ~edited => daemon.cfg.token = Load(file).token
  /\ daemon.got # Empty => /\ valid[daemon.got.ctl] = daemon.got.n
                           /\ daemon.cfg.token \notin unspent
                           /\ Age(Load(file).id) < daemon.got.n

CliFine ==
  /\ cli.pc \in {"join", "save", "saved"} => cli.token # Empty
  /\ cli.pc = "join" => Load(file).token = cli.token \/ cli.token \notin unspent
  /\ cli.got # Empty => /\ valid[cli.got.ctl] = cli.got.n
                        /\ Load(file).token = cli.token /\ cli.token \notin unspent
                        /\ daemon.got = Empty

UpdateFine ==
  cli.pc \in {"update", "updated"} =>
    \/ Age(Load(file).id) > Age(Load(cli.copy).id)
    \/ /\ cli.copy = file
       /\ cli.token # Empty =>
            daemon.got # Empty \/ (cli.token \in unspent /\ Issuer[cli.token] = cli.ctl)

FileFine ==
  /\ Load(file).ctl \in Ctl
  /\ daemon.got = Empty /\ cli.got = Empty
  => Usable(Load(file)) \/ Redeemable(Load(file))

Fine == DaemonFine /\ CliFine /\ UpdateFine /\ FileFine

FineInv == causes = {} => Aged /\ (Doomed \/ Fine)
LEMMA FineInit == Init => FineInv
<1> SUFFICES ASSUME Init PROVE Aged /\ Fine
  BY DEF FineInv
<1> DEFINE f == Load(file)
<1>1. /\ f \in Cfg /\ f.id = f.secret
      /\ HasCredentials(f) => f.id = [ctl |-> f.ctl, n |-> 1]
      /\ f.ctl \in Ctl /\ ~HasCredentials(f) =>
           f.token \in Token /\ Issuer[f.token] = f.ctl
  BY InitialAssumption DEF Init
<1>2. /\ daemon.pc = "down" /\ daemon.got = Empty /\ cli.pc = "none"
      /\ cli.got = Empty /\ issued = 1 /\ unspent = Token
  BY DownTyped, NoCallTyped DEF Init
<1>3. \A c \in Ctl : valid[c] = IF HasCredentials(f) /\ c = f.ctl THEN 1 ELSE 0
  BY DEF Init
<1> HIDE DEF f
<1>4. Age(f.id) <= 1
  BY <1>1 DEF Age, HasCredentials
<1>5. Aged
  BY <1>2, <1>4 DEF Aged, Age, f
<1>6. FileFine
  <2> SUFFICES ASSUME f.ctl \in Ctl
               PROVE  Usable(f) \/ Redeemable(f)
    BY DEF FileFine, f
  <2>1. CASE HasCredentials(f)
    BY <1>1, <1>3, <2>1 DEF Usable
  <2>2. CASE ~HasCredentials(f)
    BY <1>1, <1>2, <2>2 DEF Redeemable
  <2> QED BY <2>1, <2>2
<1> QED BY <1>2, <1>5, <1>6 DEF Fine, DaemonFine, CliFine, UpdateFine, Up

\* Nothing that went wrong is forgotten, and an overlap is one of them.
LEMMA NoCause ==
  ASSUME NEW copy, NEW stale \in BOOLEAN, Overlaps(copy, stale), causes' = {}
  PROVE  copy = file /\ ~stale
BY DEF Overlaps

LEMMA FineNext ==
  Typed /\ HomeInv /\ FineInv /\ [Next]_vars => FineInv'
<1> SUFFICES ASSUME Typed, HomeInv, FineInv, [Next]_vars, causes' = {}
             PROVE  Aged' /\ (Doomed' \/ Fine')
  BY DEF FineInv
<1>1. causes = {}
  BY CausesGrow DEF vars
<1>2. Home /\ Aged /\ (Doomed \/ Fine)
  BY <1>1 DEF HomeInv, FineInv
<1>3. /\ issued \in Nat /\ valid \in [Ctl -> 0..issued] /\ unspent \subseteq Token
      /\ daemon.got \in Cred \cup {Empty} /\ cli.got \in Cred \cup {Empty}
      /\ edited \in BOOLEAN
      /\ daemon.got # Empty <=> daemon.pc \in {"save", "write"}
      /\ cli.got # Empty <=> cli.pc \in {"save", "saved"}
      /\ GoodFile(file) /\ Load(file) \in Cfg
      /\ GoodFile(cli.copy) /\ Load(cli.copy) \in Cfg
  BY DEF Typed, DaemonTyped, CliTyped, ControllersTyped, HistoryTyped, GoodFile
<1>4. /\ \A x \in Cred \cup {Empty} : Age(x) \in Nat
      /\ \A x \in Cred : Age(x) = x.n /\ x # Empty
      /\ Age(Empty) = 0 /\ 0 <= issued
  BY <1>3, ValuesAssumption DEF Age, Cred
<1>5. ASSUME UNCHANGED <<file, controllers, edited, cli>>,
             daemon'.cfg.token = daemon.cfg.token, daemon'.got = daemon.got,
             daemon'.pc # "down" => daemon.pc # "down"
      PROVE  Aged' /\ (Doomed' \/ Fine')
  BY <1>2, <1>5 DEF Aged, Doomed, Fine, DaemonFine, CliFine, UpdateFine, FileFine,
     Up, Usable, Redeemable, controllers
<1>6. ASSUME UNCHANGED <<file, controllers, edited>>, daemon' = Down,
             daemon.got = Empty,
             \/ cli' = cli
             \/ cli.got = Empty /\ cli'.got = Empty /\ cli'.pc \in {"none", "start"}
      PROVE  Aged' /\ (Doomed' \/ Fine')
  <2>1. Fine
    BY <1>2, <1>6 DEF Doomed
  <2>2. daemon'.pc = "down" /\ daemon'.got = Empty
    BY <1>6, DownTyped
  <2>3. Aged'
    BY <1>2, <1>4, <1>6, <2>2 DEF Aged, controllers
  <2>4. DaemonFine'
    BY <2>2 DEF DaemonFine, Up
  <2>5. CASE cli' = cli
    BY <1>6, <2>1, <2>2, <2>3, <2>4, <2>5 DEF Fine, CliFine, UpdateFine, FileFine,
       Usable, Redeemable, controllers
  <2>6. CASE cli.got = Empty /\ cli'.got = Empty /\ cli'.pc \in {"none", "start"}
    BY <1>6, <2>1, <2>2, <2>3, <2>4, <2>6 DEF Fine, CliFine, UpdateFine, FileFine,
       Usable, Redeemable, controllers
  <2> QED BY <1>6, <2>5, <2>6
<1>7. ASSUME UNCHANGED <<file, controllers, edited, daemon>>, cli.got = Empty,
             cli'.pc \in {"none", "stop", "start"}, cli'.got = Empty
      PROVE  Aged' /\ (Doomed' \/ Fine')
  BY <1>2, <1>7 DEF Aged, Doomed, Fine, DaemonFine, CliFine, UpdateFine, FileFine,
     Up, Usable, Redeemable, controllers
<1>8. CASE Start
  <2>1. /\ daemon.pc = "down" /\ daemon'.got = Empty /\ daemon'.cfg = Load(file)
        /\ UNCHANGED <<file, cli, controllers>> /\ edited' = FALSE
    BY <1>8 DEF Start, Down
  <2>2. daemon.got = Empty /\ Fine
    BY <1>2, <1>3, <2>1 DEF Doomed
  <2> QED BY <1>2, <2>1, <2>2 DEF Aged, Fine, DaemonFine, CliFine, UpdateFine,
          FileFine, Up, Usable, Redeemable, controllers
<1>9. CASE JoinAccepted
  <2> DEFINE c == daemon.cfg.ctl
             t == daemon.cfg.token
  <2>1. Accepts(c, t)
    BY <1>9 DEF JoinAccepted
  <2>2. /\ daemon.pc = "run" /\ daemon'.pc = "save" /\ daemon'.cfg = daemon.cfg
        /\ daemon'.got = NewCred(c) /\ UNCHANGED <<file, cli, edited>>
    BY <1>9 DEF JoinAccepted, Typed, DaemonTyped
  <2>3. /\ NewCred(c) # Empty /\ NewCred(c).ctl = c /\ NewCred(c).n = issued + 1
        /\ c \in Ctl /\ t \in unspent
        /\ issued' = issued + 1 /\ unspent' = unspent \ {t}
        /\ valid' = [valid EXCEPT ![c] = issued + 1]
    BY <2>1, AcceptsTyped DEF Typed
  <2>4. Fine /\ Aged
    BY <1>2, <1>3, <2>2 DEF Doomed
  <2>5. Aged'
    <3>1. NewCred(c) \in Cred
      BY <2>1, AcceptsTyped DEF Typed
    <3>2. Age(NewCred(c)) = issued'
      BY <1>4, <2>3, <3>1
    <3>3. /\ Age(Load(file).id) \in Nat /\ Age(Load(file).id) <= issued
          /\ Age(cli.got) \in Nat /\ Age(cli.got) <= issued
      BY <1>3, <1>4, <2>4 DEF Aged, Cfg
    <3> QED BY <1>3, <2>2, <2>3, <3>2, <3>3 DEF Aged
  <2>6. CASE edited
    BY <2>2, <2>3, <2>5, <2>6 DEF Doomed
  <2>7. CASE ~edited
    <3>1. Load(file).token = t
      BY <2>2, <2>4, <2>7 DEF Fine, DaemonFine, Up
    <3>2. cli.got = Empty
      BY <2>3, <2>4, <3>1 DEF Fine, CliFine
    <3>3. DaemonFine'
      <4>1. valid'[c] = issued + 1
        BY <1>3, <2>3
      <4>2. Age(Load(file).id) < issued + 1
        BY <1>3, <1>4, <2>4 DEF Aged, Cfg
      <4> QED BY <2>2, <2>3, <3>1, <4>1, <4>2 DEF DaemonFine
    <3>4. CliFine' /\ UpdateFine' /\ FileFine'
      BY <2>2, <2>3, <2>4, <3>2 DEF Fine, CliFine, UpdateFine, FileFine
    <3> QED BY <2>5, <3>3, <3>4 DEF Fine
  <2> QED BY <1>3, <2>6, <2>7
<1>10. CASE JoinReplyLost \/ SaveFails \/ CallJoinReplyLost
  BY <1>10 DEF JoinReplyLost, SaveFails, CallJoinReplyLost
<1>11. CASE SaveReads \/ Dial \/ SessionEnds
  <2>1. /\ daemon'.cfg = daemon.cfg /\ daemon'.got = daemon.got /\ daemon.pc # "down"
        /\ UNCHANGED <<file, controllers, edited, cli>>
    BY <1>11 DEF SaveReads, Dial, SessionEnds, Typed, DaemonTyped
  <2> QED BY <1>5, <2>1
<1>12. CASE Rejected
  <2>1. /\ daemon'.cfg.token = daemon.cfg.token /\ daemon'.got = daemon.got
        /\ daemon.pc # "down" /\ UNCHANGED <<file, controllers, edited, cli>>
    BY <1>12 DEF Rejected, Typed, DaemonTyped, Cfg
  <2> QED BY <1>5, <2>1
<1>13. CASE SaveWrites
  <2>1. daemon.copy = file /\ ~edited
    BY <1>13, NoCause DEF SaveWrites, Typed, HistoryTyped
  <2>2. /\ daemon.pc = "write" /\ daemon'.pc = "run" /\ daemon'.got = Empty
        /\ daemon'.cfg.token = Empty
        /\ file' = Saved(daemon.copy, daemon.got)
        /\ UNCHANGED <<cli, edited, controllers>>
    BY <1>13 DEF SaveWrites, Joined, Typed, DaemonTyped
  <2>3. /\ daemon.got \in Cred /\ daemon.got # Empty /\ daemon.got.n \in Nat
    BY <1>3, <2>2 DEF Cred
  <2>4. Load(file') = [ctl |-> Load(file).ctl, token |-> Empty, id |-> daemon.got,
                       secret |-> daemon.got]
    BY <1>3, <2>1, <2>2, <2>3, SavedIs
  <2>5. daemon.cfg.ctl = Load(file).ctl /\ daemon.got.ctl = Load(file).ctl
    BY <1>2, <2>1, <2>2, <2>3 DEF Home, Up
  <2>6. Fine /\ Aged
    BY <1>2, <2>1 DEF Doomed
  <2>7. /\ valid[daemon.got.ctl] = daemon.got.n
        /\ daemon.cfg.token \notin unspent
        /\ Age(Load(file).id) < daemon.got.n
        /\ daemon.cfg.token = Load(file).token
        /\ cli.got = Empty
    BY <2>1, <2>2, <2>3, <2>6 DEF Fine, DaemonFine, CliFine, Up
  <2>8. Age(Load(file').id) = daemon.got.n /\ Age(daemon.got) = daemon.got.n
    BY <2>3, <2>4 DEF Age
  <2>9. Aged'
    <3>1. Age(Load(file').id) <= issued
      BY <2>6, <2>8 DEF Aged
    <3> QED BY <1>4, <2>2, <2>6, <3>1 DEF Aged, controllers
  <2>10. DaemonFine'
    BY <2>2, <2>4 DEF DaemonFine
  <2>11. CliFine'
    BY <2>2, <2>6, <2>7 DEF Fine, CliFine, controllers
  <2>12. UpdateFine'
    <3>1. cli.pc \in {"update", "updated"} =>
            Age(Load(file).id) >= Age(Load(cli.copy).id)
      <4>1. Age(Load(file).id) \in Nat /\ Age(Load(cli.copy).id) \in Nat
        BY <1>3, <1>4 DEF Cfg
      <4> QED BY <2>6, <4>1 DEF Fine, UpdateFine
    <3>2. Age(Load(file).id) \in Nat /\ Age(Load(cli.copy).id) \in Nat
      BY <1>3, <1>4 DEF Cfg
    <3>3. cli.pc \in {"update", "updated"} =>
            Age(Load(file').id) > Age(Load(cli.copy).id)
      BY <2>3, <2>7, <2>8, <3>1, <3>2
    <3> QED BY <2>2, <3>3 DEF UpdateFine
  <2>13. Usable(Load(file))'
    BY <2>2, <2>3, <2>4, <2>5, <2>7 DEF Usable, HasCredentials, controllers
  <2>14. FileFine'
    BY <2>13 DEF FileFine
  <2> QED BY <2>9, <2>10, <2>11, <2>12, <2>14 DEF Fine
<1>14. CASE Crash
  <2>1. daemon.got = Empty /\ daemon' = Down
        /\ UNCHANGED <<file, controllers, edited, cli>>
    BY <1>14 DEF Crash, Loses
  <2> QED BY <1>6, <2>1
<1>15. ASSUME NEW c \in Ctl \cup {Empty}, NEW t \in Token \cup {Empty}, Call(c, t)
       PROVE  Aged' /\ (Doomed' \/ Fine')
  <2> DEFINE f == IF file = Missing THEN DefaultFile ELSE file
             cfg == IF Load(f).ctl = Broken THEN NoCfg ELSE Load(f)
             ctl == IF c = Empty THEN cfg.ctl ELSE c
  <2>1. Load(f) = Load(file)
    BY <1>3, CreatedIs
  <2>2. /\ file' = f /\ cli.pc = "none"
        /\ cli' = [NoCall EXCEPT !.pc = "update", !.ctl = ctl, !.token = t,
                                 !.copy = f, !.values = Wants(cfg, ctl, t)]
        /\ UNCHANGED <<daemon, controllers, edited>>
        /\ causes' = IF t # Empty /\ ~(t \in unspent /\ Issuer[t] = ctl)
                     THEN causes \cup {"bad_token"} ELSE causes
    BY <1>15 DEF Call
  <2> HIDE DEF f, cfg, ctl
  <2>3. t # Empty => t \in unspent /\ Issuer[t] = ctl
    BY <2>2
  <2>4. /\ cli'.pc = "update" /\ cli'.ctl = ctl /\ cli'.token = t /\ cli'.copy = f
        /\ cli'.got = Empty /\ cli.got = Empty
    BY <1>3, <2>2 DEF NoCall
  <2>5. UpdateFine'
    BY <2>2, <2>3, <2>4 DEF UpdateFine, controllers
  <2> QED BY <1>2, <2>1, <2>2, <2>4, <2>5 DEF Aged, Doomed, Fine, DaemonFine, CliFine,
          FileFine, Up, Usable, Redeemable, controllers
<1>16. CASE CallGivesUp
  <2>1. /\ cli.pc = "none" /\ Load(file') = Load(file)
        /\ UNCHANGED <<daemon, cli, controllers, edited>>
    BY <1>3, <1>16, CreatedIs DEF CallGivesUp
  <2> QED BY <1>2, <2>1 DEF Aged, Doomed, Fine, DaemonFine, CliFine, UpdateFine,
          FileFine, Up, Usable, Redeemable, controllers
<1>17. CASE UpdateReads
  <2>1. cli.copy = file
    BY <1>17, NoCause DEF UpdateReads
  <2>2. /\ cli'.pc = "updated" /\ cli'.copy = cli.copy /\ cli'.ctl = cli.ctl
        /\ cli'.token = cli.token /\ cli'.got = cli.got /\ cli.pc = "update"
        /\ UNCHANGED <<file, daemon, controllers, edited>>
    BY <1>17, <2>1 DEF UpdateReads, Typed, CliTyped
  <2> QED BY <1>2, <2>2 DEF Aged, Doomed, Fine, DaemonFine, CliFine, UpdateFine,
          FileFine, Up, Usable, Redeemable, controllers
<1>18. CASE UpdateWrites
  <2>1. cli.copy = file
    BY <1>18, NoCause DEF UpdateWrites
  <2>2. /\ cli.pc = "updated" /\ cli'.ctl = cli.ctl /\ cli'.token = cli.token
        /\ cli'.pc = (IF cli.token # Empty THEN "join" ELSE "stop")
        /\ cli'.got = Empty /\ cli.got = Empty
        /\ edited' = TRUE /\ UNCHANGED <<daemon, controllers>>
        /\ file' = Update(cli.copy, cli.values, {})
    BY <1>18 DEF UpdateWrites, Typed, CliTyped
  <2>3. /\ cli.ctl \in Ctl /\ cli.token \in Token \cup {Empty}
        /\ Plan(cli.values, cli.ctl, cli.token) /\ GoodFile(file)
    BY <2>2 DEF Typed, CliTyped
  <2>4. Load(file') =
          [ctl |-> cli.ctl,
           token |-> IF cli.token = Empty THEN Load(file).token ELSE cli.token,
           id |-> IF Wipes(cli.values) THEN Empty ELSE Load(file).id,
           secret |-> IF Wipes(cli.values) THEN Empty ELSE Load(file).secret]
    BY <2>1, <2>2, <2>3, UpdatedIs
  <2>5. Aged'
    <3>1. Age(Load(file').id) <= issued
      BY <1>2, <1>3, <2>4 DEF Aged, Age
    <3> QED BY <1>2, <2>2, <3>1 DEF Aged, controllers
  <2>6. CASE daemon.got # Empty
    BY <2>2, <2>5, <2>6 DEF Doomed
  <2>7. CASE daemon.got = Empty
    <3>1. Fine
      BY <1>2, <2>7 DEF Doomed
    <3>2. cli.token # Empty => cli.token \in unspent /\ Issuer[cli.token] = cli.ctl
      <4>1. ~(Age(Load(file).id) > Age(Load(cli.copy).id))
        BY <1>3, <1>4, <2>1 DEF Cfg
      <4> QED BY <2>2, <2>7, <3>1, <4>1 DEF Fine, UpdateFine
    <3>3. Usable(Load(file))' \/ Redeemable(Load(file))'
      <4>1. CASE cli.token # Empty
        BY <2>2, <2>4, <3>2, <4>1 DEF Redeemable, controllers
      <4>2. CASE cli.token = Empty
        <5>1. /\ HasCredentials(Seen(file)) /\ ~Changes(file, cli.ctl)
              /\ ~Wipes(cli.values)
          BY <1>2, <2>1, <2>2, <4>2 DEF Home
        <5>2. Seen(file) = Load(file)
          BY <5>1 DEF Seen, NoCfg, HasCredentials
        <5>3. Load(file).ctl \in Ctl /\ Load(file).ctl # Empty
          BY <1>2, <1>3, <5>1, <5>2, CredsHaveController DEF Home
        <5>4. Load(file).ctl = cli.ctl
          BY <5>1, <5>2, <5>3 DEF Changes
        <5>5. Load(file') = [ctl |-> Load(file).ctl, token |-> Load(file).token,
                             id |-> Load(file).id, secret |-> Load(file).secret]
          BY <2>4, <4>2, <5>1, <5>4
        <5>6. Usable(Load(file)) \/ Redeemable(Load(file))
          BY <2>2, <2>7, <3>1, <5>3 DEF Fine, FileFine
        <5> QED BY <2>2, <5>5, <5>6 DEF Usable, Redeemable, HasCredentials, controllers
      <4> QED BY <4>1, <4>2
    <3>4. DaemonFine' /\ UpdateFine' /\ FileFine'
      BY <2>2, <2>7, <3>3 DEF DaemonFine, UpdateFine, FileFine
    <3>5. CliFine'
      BY <2>2, <2>4 DEF CliFine
    <3> QED BY <2>5, <3>4, <3>5 DEF Fine
  <2> QED BY <2>6, <2>7
<1>19. CASE CallJoinAccepted
  <2> DEFINE c == cli.ctl
             t == cli.token
  <2>1. Accepts(c, t)
    BY <1>19 DEF CallJoinAccepted
  <2>2. /\ cli.pc = "join" /\ cli'.pc = "save" /\ cli'.got = NewCred(c)
        /\ cli'.ctl = c /\ cli'.token = t /\ UNCHANGED <<file, daemon, edited>>
    BY <1>19 DEF CallJoinAccepted, Typed, CliTyped
  <2>3. /\ NewCred(c) # Empty /\ NewCred(c).ctl = c /\ NewCred(c).n = issued + 1
        /\ c \in Ctl /\ t \in unspent
        /\ issued' = issued + 1 /\ unspent' = unspent \ {t}
        /\ valid' = [valid EXCEPT ![c] = issued + 1]
    BY <2>1, AcceptsTyped DEF Typed
  <2>4. Aged'
    <3>1. NewCred(c) \in Cred
      BY <2>1, AcceptsTyped DEF Typed
    <3>2. Age(NewCred(c)) = issued'
      BY <1>4, <2>3, <3>1
    <3>3. /\ Age(Load(file).id) \in Nat /\ Age(Load(file).id) <= issued
          /\ Age(daemon.got) \in Nat /\ Age(daemon.got) <= issued
      BY <1>2, <1>3, <1>4 DEF Aged, Cfg
    <3> QED BY <1>3, <2>2, <2>3, <3>2, <3>3 DEF Aged
  <2>5. CASE Doomed
    BY <2>2, <2>4, <2>5 DEF Doomed
  <2>6. CASE Fine /\ ~Doomed
    <3>1. Load(file).token = t
      BY <2>2, <2>3, <2>6 DEF Fine, CliFine
    <3>2. daemon.got = Empty
      BY <1>3, <2>3, <2>6, <3>1 DEF Fine, DaemonFine, Doomed, Up
    <3>3. valid'[c] = issued + 1 /\ t \notin unspent'
      BY <1>3, <2>3
    <3>4. CliFine'
      BY <2>2, <2>3, <2>6, <3>1, <3>2, <3>3 DEF Fine, CliFine
    <3>5. DaemonFine' /\ UpdateFine' /\ FileFine'
      BY <2>2, <2>3, <2>6, <3>2 DEF Fine, DaemonFine, UpdateFine, FileFine, Up
    <3> QED BY <2>4, <3>4, <3>5 DEF Fine
  <2> QED BY <1>2, <2>5, <2>6
<1>20. CASE CallJoinRefused \/ CallJoinUnreachable
  <2>1. /\ cli.got = Empty /\ cli'.got = Empty /\ cli'.pc \in {"none", "stop"}
        /\ UNCHANGED <<file, controllers, edited, daemon>>
    BY <1>20, NoCallTyped DEF CallJoinRefused, CallJoinUnreachable, Typed, CliTyped
  <2> QED BY <1>7, <2>1
<1>21. CASE CallSaveReads
  <2>1. /\ cli.pc = "save" /\ cli'.pc = "saved" /\ cli'.got = cli.got
        /\ cli'.ctl = cli.ctl /\ cli'.token = cli.token
        /\ UNCHANGED <<file, daemon, controllers, edited>>
    BY <1>21 DEF CallSaveReads, Typed, CliTyped
  <2> QED BY <1>2, <2>1 DEF Aged, Doomed, Fine, DaemonFine, CliFine, UpdateFine,
          FileFine, Up, Usable, Redeemable, controllers
<1>22. CASE CallSaveWrites
  <2>1. cli.copy = file
    BY <1>22, NoCause DEF CallSaveWrites
  <2>2. /\ cli.pc = "saved" /\ cli'.pc = "stop" /\ cli'.got = Empty
        /\ cli.got \in Cred /\ cli.got # Empty
        /\ edited' = TRUE /\ UNCHANGED <<daemon, controllers>>
        /\ file' = Saved(cli.copy, cli.got)
    BY <1>22 DEF CallSaveWrites, Typed, CliTyped
  <2>3. Load(file') = [ctl |-> Load(file).ctl, token |-> Empty, id |-> cli.got,
                       secret |-> cli.got]
    BY <1>3, <2>1, <2>2, SavedIs
  <2>4. cli.got.ctl = Load(file).ctl
    BY <1>2, <2>2 DEF Home
  <2>5. Aged'
    BY <1>2, <1>4, <2>2, <2>3 DEF Aged, controllers
  <2>6. CASE Doomed
    BY <2>2, <2>5, <2>6 DEF Doomed
  <2>7. CASE Fine
    <3>1. valid[cli.got.ctl] = cli.got.n /\ daemon.got = Empty
      BY <2>2, <2>7 DEF Fine, CliFine
    <3>2. Usable(Load(file))'
      BY <2>2, <2>3, <2>4, <3>1 DEF Usable, HasCredentials, controllers
    <3> QED BY <2>2, <2>5, <3>1, <3>2 DEF Fine, DaemonFine, CliFine, UpdateFine, FileFine
  <2> QED BY <1>2, <2>6, <2>7
<1>23. CASE ServiceStops
  <2>1. /\ daemon.got = Empty /\ daemon' = Down /\ cli'.pc = "start"
        /\ cli.got = Empty /\ cli'.got = Empty
        /\ UNCHANGED <<file, controllers, edited>>
    BY <1>23 DEF ServiceStops, Loses, Typed, CliTyped
  <2> QED BY <1>6, <2>1
<1>24. CASE ServiceStarts
  <2>1. /\ cli.got = Empty /\ cli' = NoCall
        /\ UNCHANGED <<file, controllers, edited, daemon>>
    BY <1>3, <1>24 DEF ServiceStarts
  <2> QED BY <1>7, <2>1, NoCallTyped
<1>25. CASE CallEnds
  <2>1. /\ cli.got = Empty /\ cli' = NoCall
        /\ UNCHANGED <<file, controllers, edited, daemon>>
    BY <1>25 DEF CallEnds, Loses
  <2> QED BY <1>7, <2>1, NoCallTyped
<1>26. ASSUME NEW c \in Ctl, Forget(c)
       PROVE  Aged' /\ (Doomed' \/ Fine')
  BY <1>26 DEF Forget
<1>27. CASE Reboot
  <2>1. /\ daemon.got = Empty /\ cli.got = Empty /\ daemon' = Down /\ cli' = NoCall
        /\ UNCHANGED <<file, controllers, edited>>
    BY <1>27 DEF Reboot, Loses
  <2> QED BY <1>6, <2>1, NoCallTyped
<1>28. CASE UNCHANGED vars
  BY <1>5, <1>28 DEF vars, controllers
<1> QED BY <1>8, <1>9, <1>10, <1>11, <1>12, <1>13, <1>14, <1>15, <1>16, <1>17,
        <1>18, <1>19, <1>20, <1>21, <1>22, <1>23, <1>24, <1>25, <1>26, <1>27,
        <1>28 DEF Next, DaemonStep, CallStep

\* While no answer of a join was lost, no agent forgotten, no bad token given
\* and no file edited by two at once, the file of an access point that has a
\* controller always holds credentials in force or a token to join with.
THEOREM CanComeBack == Spec => []ComesBack
<1>1. FineInv => ComesBack
  BY DEF FineInv, Doomed, Fine, FileFine, ComesBack
<1> QED BY <1>1, InitTyped, TypedNext, HomeInit, HomeNext, FineInit, FineNext, PTL
        DEF Spec
=============================================================================
