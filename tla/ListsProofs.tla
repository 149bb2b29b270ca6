---------------------------- MODULE ListsProofs ----------------------------
(* What filtering a list does, for lists of any length.                       *)
EXTENDS Lists, FiniteSetTheorems, SequenceTheorems, TLAPS

\* Induction over the numbers that are in a set. A gap in S would start a set of
\* numbers up to N that going down by one maps into itself, one to one but, as
\* nothing is mapped to N, not onto; no finite set is mapped so.
LEMMA Induction ==
    ASSUME NEW S, 0 \in S, \A n \in Nat : n \in S => n + 1 \in S
    PROVE  \A n \in Nat : n \in S
<1> SUFFICES ASSUME NEW N \in Nat, N \notin S PROVE FALSE
  OBVIOUS
<1> DEFINE T == (0 .. N) \ S
           f == [n \in T |-> n - 1]
<1>1. IsFiniteSet(T)
  <2>1. T \in SUBSET (0 .. N) /\ IsFiniteSet(0 .. N)
    BY FS_Interval
  <2> HIDE DEF T
  <2>2. QED
    BY <2>1, FS_Subset
<1>2. \A n \in T : n - 1 \in T
  <2> SUFFICES ASSUME NEW n \in T PROVE n - 1 \in T
    OBVIOUS
  <2>1. n \in Nat /\ n # 0 /\ n <= N /\ n \notin S
    OBVIOUS
  <2>2. n - 1 \in Nat /\ (n - 1) + 1 = n
    BY <2>1
  <2>3. QED
    BY <2>1, <2>2
<1>3. f \in Injection(T, T)
  BY <1>2 DEF Injection, IsInjective
<1>4. f \in Surjection(T, T)
  <2> HIDE DEF T, f
  <2>1. QED
    BY <1>1, <1>3, FS_Injection
<1>5. \E n \in T : f[n] = N
  <2>1. N \in T
    OBVIOUS
  <2> HIDE DEF T, f
  <2>2. QED
    BY <2>1, <1>4 DEF Surjection
<1>6. QED
  BY <1>5

\* A function may be defined from its value for 0 and from each to the next.
IsRecursive(f, n, first, step) ==
    /\ DOMAIN f = 0 .. n
    /\ f[0] = first
    /\ \A i \in 1 .. n : f[i] = step[<<i, f[i - 1]>>]

LEMMA RecursiveFunctions ==
    ASSUME NEW A, NEW first \in A, NEW N \in Nat, NEW step \in [(1 .. N) \X A -> A]
    PROVE  \E f \in [0 .. N -> A] : IsRecursive(f, N, first, step)
<1> DEFINE S == {n \in Nat : n <= N => \E f \in [0 .. n -> A] : IsRecursive(f, n, first, step)}
<1>1. 0 \in S
  <2>1. [i \in 0 .. 0 |-> first] \in [0 .. 0 -> A]
    OBVIOUS
  <2>2. IsRecursive([i \in 0 .. 0 |-> first], 0, first, step)
    BY DEF IsRecursive
  <2>3. QED
    BY <2>1, <2>2
<1>2. ASSUME NEW n \in Nat, n \in S PROVE n + 1 \in S
  <2> SUFFICES ASSUME n + 1 <= N
               PROVE  \E f \in [0 .. n + 1 -> A] : IsRecursive(f, n + 1, first, step)
    OBVIOUS
  <2>1. PICK f \in [0 .. n -> A] : IsRecursive(f, n, first, step)
    BY <1>2
  <2> DEFINE g == [i \in 0 .. n + 1 |-> IF i = n + 1 THEN step[<<n + 1, f[n]>>] ELSE f[i]]
  <2>2. step[<<n + 1, f[n]>>] \in A
    OBVIOUS
  <2>3. g \in [0 .. n + 1 -> A]
    BY <2>2
  <2>4. ASSUME NEW i \in 1 .. n + 1 PROVE g[i] = step[<<i, g[i - 1]>>]
    <3>1. CASE i = n + 1
      <4>1. g[n + 1] = step[<<n + 1, f[n]>>] /\ g[n] = f[n] /\ (n + 1) - 1 = n
        BY <1>2
      <4>2. QED
        BY ONLY <3>1, <4>1
    <3>2. CASE i # n + 1
      <4>1. i \in 1 .. n /\ i - 1 \in 0 .. n
        BY <3>2
      <4>2. QED
        BY <2>1, <4>1 DEF IsRecursive
    <3>3. QED
      BY <3>1, <3>2
  <2>5. g[0] = first
    BY <2>1 DEF IsRecursive
  <2>6. QED
    BY <2>3, <2>4, <2>5 DEF IsRecursive
<1>3. N \in S
  <2> HIDE DEF S
  <2>1. QED
    BY <1>1, <1>2, Induction
<1>4. QED
  BY <1>3

\* What is kept of the first elements of a list.
IsKept(kept, list, S) ==
    kept = [i \in 0 .. Len(list) |->
               IF i = 0 THEN <<>>
               ELSE IF list[i] \in S THEN Append(kept[i - 1], list[i]) ELSE kept[i - 1]]

LEMMA KeptExists ==
    ASSUME NEW E, NEW list \in Seq(E), NEW S
    PROVE  \E kept \in [0 .. Len(list) -> Seq(E)] : IsKept(kept, list, S)
<1> DEFINE N == Len(list)
           Next(i, s) == IF list[i] \in S THEN Append(s, list[i]) ELSE s
           step == [p \in (1 .. N) \X Seq(E) |-> Next(p[1], p[2])]
<1>1. N \in Nat /\ \A i \in 1 .. N : list[i] \in E
  OBVIOUS
<1>2. step \in [(1 .. N) \X Seq(E) -> Seq(E)]
  BY <1>1
<1>3. <<>> \in Seq(E)
  OBVIOUS
<1>4. \A i \in 1 .. N, s \in Seq(E) : step[<<i, s>>] = Next(i, s)
  OBVIOUS
<1> HIDE DEF step
<1>5. PICK kept \in [0 .. N -> Seq(E)] : IsRecursive(kept, N, <<>>, step)
  <2> HIDE DEF N
  <2>1. QED
    BY <1>1, <1>2, <1>3, RecursiveFunctions
<1>6. ASSUME NEW i \in 1 .. N PROVE i - 1 \in 0 .. N /\ kept[i] = Next(i, kept[i - 1])
  <2>1. i - 1 \in 0 .. N
    BY <1>1
  <2>2. kept[i] = step[<<i, kept[i - 1]>>] /\ kept[i - 1] \in Seq(E)
    BY <1>5, <2>1 DEF IsRecursive
  <2>3. QED
    BY <1>4, <2>1, <2>2
<1>7. IsKept(kept, list, S)
  <2>1. kept[0] = <<>>
    BY <1>5 DEF IsRecursive
  <2>2. \A i \in 0 .. N : i = 0 \/ i \in 1 .. N
    BY <1>1
  <2>3. \A i \in 0 .. N :
           kept[i] = IF i = 0 THEN <<>>
                     ELSE IF list[i] \in S THEN Append(kept[i - 1], list[i]) ELSE kept[i - 1]
    BY <1>6, <2>1, <2>2
  <2>4. QED
    BY <2>3 DEF IsKept
<1>8. QED
  BY <1>7

\* The elements of the filtered list are those of the list that are in the set.
LEMMA OnlyDoes ==
    ASSUME NEW E, NEW list \in Seq(E), NEW S
    PROVE  /\ Only(list, S) \in Seq(E)
           /\ Range(Only(list, S)) = Range(list) \cap S
<1> DEFINE N == Len(list)
           kept == CHOOSE k : IsKept(k, list, S)
           First(n) == {list[i] : i \in 1 .. n} \cap S
           Done == {n \in Nat : n <= N => kept[n] \in Seq(E) /\ Range(kept[n]) = First(n)}
<1>1. Only(list, S) = kept[N]
  BY DEF Only, IsKept
<1>2. IsKept(kept, list, S)
  BY KeptExists
<1>3. N \in Nat /\ DOMAIN list = 1 .. N /\ \A i \in 1 .. N : list[i] \in E
  OBVIOUS
<1> HIDE DEF kept
<1>4. ASSUME NEW i \in 0 .. Len(list)
      PROVE  kept[i] = IF i = 0 THEN <<>>
                       ELSE IF list[i] \in S THEN Append(kept[i - 1], list[i]) ELSE kept[i - 1]
  <2> DEFINE f == [j \in 0 .. Len(list) |->
                     IF j = 0 THEN <<>>
                     ELSE IF list[j] \in S THEN Append(kept[j - 1], list[j]) ELSE kept[j - 1]]
  <2>1. kept = f
    BY <1>2 DEF IsKept
  <2>2. f[i] = IF i = 0 THEN <<>>
               ELSE IF list[i] \in S THEN Append(kept[i - 1], list[i]) ELSE kept[i - 1]
    OBVIOUS
  <2> HIDE DEF f
  <2>3. QED
    BY <2>1, <2>2
<1>5. /\ kept[0] = <<>>
      /\ \A i \in 1 .. N :
            kept[i] = IF list[i] \in S THEN Append(kept[i - 1], list[i]) ELSE kept[i - 1]
  BY <1>3, <1>4
<1>6. 0 \in Done
  <2>1. <<>> \in Seq(E) /\ Range(<<>>) = {} /\ First(0) = {}
    BY DEF Range
  <2>2. QED
    BY <1>5, <2>1
<1>7. ASSUME NEW n \in Nat, n \in Done PROVE n + 1 \in Done
  <2> SUFFICES ASSUME n + 1 <= N
               PROVE  kept[n + 1] \in Seq(E) /\ Range(kept[n + 1]) = First(n + 1)
    OBVIOUS
  <2> DEFINE x == list[n + 1]
             s == kept[n]
  <2>1. s \in Seq(E) /\ Range(s) = First(n)
    BY <1>7
  <2>2. n + 1 \in 1 .. N /\ x \in E /\ (n + 1) - 1 = n
    BY <1>3
  <2>3. kept[n + 1] = IF x \in S THEN Append(s, x) ELSE s
    BY <1>5, <2>2
  <2>4. First(n + 1) = First(n) \cup ({x} \cap S)
    BY <1>3
  <2> HIDE DEF x, s, First, Done
  <2>5. CASE x \in S
    <3>1. kept[n + 1] = Append(s, x)
      BY <2>3, <2>5
    <3>2. Append(s, x) \in Seq(E) /\ Range(Append(s, x)) = Range(s) \cup {x}
      <4>1. /\ Append(s, x) \in Seq(E) /\ DOMAIN Append(s, x) = 1 .. Len(s) + 1
            /\ DOMAIN s = 1 .. Len(s) /\ Len(s) \in Nat
            /\ \A i \in 1 .. Len(s) : Append(s, x)[i] = s[i]
            /\ Append(s, x)[Len(s) + 1] = x
        BY <2>1, <2>2
      <4>2. QED
        BY <4>1 DEF Range
    <3>3. QED
      BY <2>1, <2>4, <2>5, <3>1, <3>2
  <2>6. CASE x \notin S
    BY <2>1, <2>3, <2>4, <2>6
  <2>7. QED
    BY <2>5, <2>6
<1>8. N \in Done
  <2> HIDE DEF Done
  <2>1. QED
    BY <1>3, <1>6, <1>7, Induction
<1>9. First(N) = Range(list) \cap S
  BY <1>3 DEF Range
<1>10. QED
  BY <1>1, <1>3, <1>8, <1>9

-----------------------------------------------------------------------------
(* The elements of other lists.                                               *)

LEMMA RangeOfList ==
    ASSUME NEW E, NEW list \in Seq(E)
    PROVE  /\ Range(list) \subseteq E
           /\ list = <<>> <=> Range(list) = {}
<1>1. /\ DOMAIN list = 1 .. Len(list) /\ Len(list) \in Nat
      /\ \A i \in 1 .. Len(list) : list[i] \in E
      /\ list = <<>> <=> Len(list) = 0
  OBVIOUS
<1>2. Range(list) \subseteq E
  BY <1>1 DEF Range
<1>3. list = <<>> => Range(list) = {}
  BY <1>1 DEF Range
<1>4. list # <<>> => list[1] \in Range(list)
  BY <1>1 DEF Range
<1>5. QED
  BY <1>2, <1>3, <1>4

LEMMA AppendDoes ==
    ASSUME NEW E, NEW list \in Seq(E), NEW x \in E
    PROVE  /\ Append(list, x) \in Seq(E)
           /\ Range(Append(list, x)) = Range(list) \cup {x}
<1>1. /\ Append(list, x) \in Seq(E) /\ DOMAIN Append(list, x) = 1 .. Len(list) + 1
      /\ DOMAIN list = 1 .. Len(list) /\ Len(list) \in Nat
      /\ \A i \in 1 .. Len(list) : Append(list, x)[i] = list[i]
      /\ Append(list, x)[Len(list) + 1] = x
  OBVIOUS
<1>2. QED
  BY <1>1 DEF Range

LEMMA HeadAndTail ==
    ASSUME NEW E, NEW list \in Seq(E), list # <<>>
    PROVE  /\ Head(list) \in E /\ Tail(list) \in Seq(E)
           /\ Range(list) = {Head(list)} \cup Range(Tail(list))
<1>1. /\ Head(list) \in E /\ Tail(list) \in Seq(E) /\ Head(list) = list[1]
      /\ Len(list) \in Nat /\ 1 <= Len(list) /\ DOMAIN list = 1 .. Len(list)
      /\ DOMAIN Tail(list) = 1 .. Len(list) - 1
      /\ \A i \in 1 .. Len(list) - 1 : Tail(list)[i] = list[i + 1]
  OBVIOUS
<1>2. Range(Tail(list)) = {list[i] : i \in 2 .. Len(list)}
  <2>1. ASSUME NEW i \in 2 .. Len(list) PROVE list[i] \in Range(Tail(list))
    <3>1. i - 1 \in 1 .. Len(list) - 1 /\ (i - 1) + 1 = i
      BY <1>1
    <3>2. QED
      BY <1>1, <3>1 DEF Range
  <2>2. ASSUME NEW i \in 1 .. Len(list) - 1
        PROVE  \E j \in 2 .. Len(list) : Tail(list)[i] = list[j]
    <3>1. i + 1 \in 2 .. Len(list)
      BY <1>1
    <3>2. QED
      BY <1>1, <3>1
  <2>3. QED
    BY <1>1, <2>1, <2>2 DEF Range
<1>3. \A i \in 1 .. Len(list) : i = 1 \/ i \in 2 .. Len(list)
  BY <1>1
<1>4. Range(list) = {Head(list)} \cup {list[i] : i \in 2 .. Len(list)}
  BY <1>1, <1>3 DEF Range
<1>5. QED
  BY <1>1, <1>2, <1>4

LEMMA ConcatDoes ==
    ASSUME NEW E, NEW s \in Seq(E), NEW t \in Seq(E)
    PROVE  /\ s \o t \in Seq(E)
           /\ Len(s \o t) = Len(s) + Len(t)
           /\ \A i \in 1 .. Len(s) : (s \o t)[i] = s[i]
           /\ \A i \in 1 .. Len(t) : (s \o t)[Len(s) + i] = t[i]
           /\ Range(s \o t) = Range(s) \cup Range(t)
<1>1. /\ s \o t \in Seq(E) /\ Len(s) \in Nat /\ Len(t) \in Nat
      /\ Len(s \o t) = Len(s) + Len(t)
      /\ DOMAIN s = 1 .. Len(s) /\ DOMAIN t = 1 .. Len(t)
      /\ DOMAIN (s \o t) = 1 .. Len(s) + Len(t)
  OBVIOUS
<1>2. \A i \in 1 .. Len(s) : i \in 1 .. Len(s) + Len(t) /\ (s \o t)[i] = s[i]
  BY <1>1, ConcatProperties
<1>3. ASSUME NEW i \in 1 .. Len(t)
      PROVE  Len(s) + i \in 1 .. Len(s) + Len(t) /\ (s \o t)[Len(s) + i] = t[i]
  <2>1. Len(s) + i \in 1 .. Len(s) + Len(t) /\ ~ (Len(s) + i <= Len(s)) /\ (Len(s) + i) - Len(s) = i
    BY <1>1
  <2>2. QED
    BY <2>1, ConcatProperties
<1>4. ASSUME NEW i \in 1 .. Len(s) + Len(t)
      PROVE  i \in 1 .. Len(s) \/ (i - Len(s) \in 1 .. Len(t) /\ Len(s) + (i - Len(s)) = i)
  BY <1>1
<1>5. Range(s \o t) \subseteq Range(s) \cup Range(t)
  BY <1>1, <1>2, <1>3, <1>4 DEF Range
<1>6. Range(s) \cup Range(t) \subseteq Range(s \o t)
  BY <1>1, <1>2, <1>3 DEF Range
<1>7. QED
  BY <1>1, <1>2, <1>3, <1>5, <1>6
-----------------------------------------------------------------------------
(* Filters of parts and of wholes.                                            *)

\* The filtered beginnings of a list.
Filters(kept, E, list, S) ==
    /\ kept \in [0 .. Len(list) -> Seq(E)]
    /\ kept[0] = <<>>
    /\ \A i \in 0 .. Len(list) - 1 :
          kept[i + 1] = IF list[i + 1] \in S THEN Append(kept[i], list[i + 1]) ELSE kept[i]
    /\ kept[Len(list)] = Only(list, S)

LEMMA OnlySteps ==
    ASSUME NEW E, NEW list \in Seq(E), NEW S
    PROVE  \E kept : Filters(kept, E, list, S)
<1> DEFINE N == Len(list)
           Next(i, s) == IF list[i] \in S THEN Append(s, list[i]) ELSE s
<1>1. N \in Nat /\ \A i \in 1 .. N : list[i] \in E
  OBVIOUS
<1> DEFINE k == CHOOSE k : IsKept(k, list, S)
<1>2. Only(list, S) = k[N]
  BY DEF Only, IsKept
<1>3. IsKept(k, list, S)
  BY KeptExists
<1> HIDE DEF k
<1>4. k[0] = <<>> /\ \A i \in 1 .. N : k[i] = Next(i, k[i - 1])
  <2> DEFINE f == [i \in 0 .. Len(list) |->
                     IF i = 0 THEN <<>>
                     ELSE IF list[i] \in S THEN Append(k[i - 1], list[i]) ELSE k[i - 1]]
  <2>1. k = f
    BY <1>3 DEF IsKept
  <2>2. f[0] = <<>> /\ \A i \in 1 .. N : f[i] = Next(i, k[i - 1])
    BY <1>1
  <2> HIDE DEF f
  <2>3. QED
    BY <2>1, <2>2
<1>5. \A n \in 0 .. N - 1 : k[n + 1] = Next(n + 1, k[n])
  <2> SUFFICES ASSUME NEW n \in 0 .. N - 1 PROVE k[n + 1] = Next(n + 1, k[n])
    OBVIOUS
  <2>1. n + 1 \in 1 .. N /\ (n + 1) - 1 = n
    BY <1>1
  <2>2. QED
    BY <1>4, <2>1
<1>6. k \in [0 .. N -> Seq(E)]
  <2> DEFINE Done == {n \in Nat : n <= N => k[n] \in Seq(E)}
  <2>1. 0 \in Done
    <3>1. <<>> \in Seq(E)
      OBVIOUS
    <3>2. QED
      BY <1>4, <3>1
  <2>2. ASSUME NEW n \in Nat, n \in Done PROVE n + 1 \in Done
    <3> SUFFICES ASSUME n + 1 <= N PROVE k[n + 1] \in Seq(E)
      OBVIOUS
    <3>1. n \in 0 .. N - 1 /\ n + 1 \in 1 .. N /\ k[n] \in Seq(E)
      BY <1>1, <2>2
    <3>2. list[n + 1] \in E
      BY <1>1, <3>1
    <3>3. Append(k[n], list[n + 1]) \in Seq(E)
      BY <3>1, <3>2
    <3>4. k[n + 1] = Next(n + 1, k[n])
      BY <1>5, <3>1
    <3>5. QED
      BY <3>1, <3>3, <3>4
  <2> HIDE DEF Done
  <2>3. \A n \in Nat : n \in Done
    BY <2>1, <2>2, Induction
  <2> USE DEF Done
  <2>4. \A n \in 0 .. N : k[n] \in Seq(E)
    BY <1>1, <2>3
  <2>5. k = [i \in 0 .. N |-> k[i]]
    BY <1>3 DEF IsKept
  <2>6. QED
    BY <2>4, <2>5
<1>7. QED
  BY <1>2, <1>4, <1>5, <1>6 DEF Filters

Glued(s, t, x) == Append(s \o t, x) = s \o Append(t, x)

LEMMA AppendToConcat ==
    ASSUME NEW E, NEW s \in Seq(E), NEW t \in Seq(E), NEW x \in E
    PROVE  Glued(s, t, x)
  BY DEF Glued

\* What the beginnings of a concatenation are filtered to.
LEMMA OnlyConcat ==
    ASSUME NEW E, NEW s \in Seq(E), NEW t \in Seq(E), NEW S
    PROVE  Only(s \o t, S) = Only(s, S) \o Only(t, S)
<1> DEFINE M == Len(s)
           N == Len(t)
           u == s \o t
<1>1. /\ M \in Nat /\ N \in Nat /\ u \in Seq(E) /\ Len(u) = M + N
      /\ \A i \in 1 .. M : u[i] = s[i]
      /\ \A i \in 1 .. N : u[M + i] = t[i] /\ t[i] \in E
  BY ConcatDoes
<1>2. PICK f : Filters(f, E, s, S)
  BY OnlySteps
<1>3. PICK g : Filters(g, E, t, S)
  BY OnlySteps
<1>4. PICK h : Filters(h, E, u, S)
  BY <1>1, OnlySteps
<1>5. /\ f \in [0 .. M -> Seq(E)] /\ f[0] = <<>> /\ f[M] = Only(s, S)
      /\ \A i \in 0 .. M - 1 :
            f[i + 1] = IF s[i + 1] \in S THEN Append(f[i], s[i + 1]) ELSE f[i]
  BY <1>2 DEF Filters
<1>6. /\ g \in [0 .. N -> Seq(E)] /\ g[0] = <<>> /\ g[N] = Only(t, S)
      /\ \A i \in 0 .. N - 1 :
            g[i + 1] = IF t[i + 1] \in S THEN Append(g[i], t[i + 1]) ELSE g[i]
  BY <1>3 DEF Filters
<1> HIDE DEF M, N, u
<1>7. /\ h[0] = <<>> /\ h[M + N] = Only(u, S)
      /\ \A i \in 0 .. (M + N) - 1 :
            h[i + 1] = IF u[i + 1] \in S THEN Append(h[i], u[i + 1]) ELSE h[i]
  BY <1>1, <1>4 DEF Filters
<1>8. \A n \in Nat : n <= M => h[n] = f[n]
  <2> DEFINE Done == {n \in Nat : n <= M => h[n] = f[n]}
  <2>1. 0 \in Done
    BY <1>5, <1>7
  <2>2. ASSUME NEW n \in Nat, n \in Done PROVE n + 1 \in Done
    <3> SUFFICES ASSUME n + 1 <= M PROVE h[n + 1] = f[n + 1]
      OBVIOUS
    <3>1. n \in 0 .. M - 1 /\ n \in 0 .. (M + N) - 1 /\ n + 1 \in 1 .. M /\ n <= M
      BY <1>1
    <3>2. h[n] = f[n] /\ u[n + 1] = s[n + 1]
      BY <1>1, <2>2, <3>1
    <3>3. f[n + 1] = IF s[n + 1] \in S THEN Append(f[n], s[n + 1]) ELSE f[n]
      BY <1>5, <3>1
    <3>4. h[n + 1] = IF u[n + 1] \in S THEN Append(h[n], u[n + 1]) ELSE h[n]
      BY <1>7, <3>1
    <3>5. QED
      BY <3>2, <3>3, <3>4
  <2> HIDE DEF Done
  <2>3. \A n \in Nat : n \in Done
    BY <2>1, <2>2, Induction
  <2>4. QED
    BY <2>3 DEF Done
<1>9. f[M] \in Seq(E) /\ h[M] = f[M]
  BY <1>1, <1>5, <1>8
<1>10. \A n \in Nat : n <= N => h[M + n] = f[M] \o g[n]
  <2> DEFINE Done == {n \in Nat : n <= N => h[M + n] = f[M] \o g[n]}
  <2>1. 0 \in Done
    <3>1. f[M] \o <<>> = f[M] /\ M + 0 = M
      BY <1>1, <1>9
    <3>2. QED
      BY <1>6, <1>9, <3>1
  <2>2. ASSUME NEW n \in Nat, n \in Done PROVE n + 1 \in Done
    <3>1. ASSUME n + 1 <= N PROVE h[M + (n + 1)] = f[M] \o g[n + 1]
      <4>1. /\ n \in 0 .. N - 1 /\ M + n \in 0 .. (M + N) - 1 /\ n + 1 \in 1 .. N
            /\ n \in 0 .. N /\ (M + n) + 1 = M + (n + 1) /\ n <= N
        BY <1>1, <3>1
      <4>2. h[M + n] = f[M] \o g[n]
        BY <2>2, <4>1
      <4>3. u[M + (n + 1)] = t[n + 1] /\ t[n + 1] \in E
        BY <1>1, <4>1
      <4>4. g[n] \in Seq(E)
        BY <1>6, <4>1
      <4>5. h[(M + n) + 1] = IF u[(M + n) + 1] \in S THEN Append(h[M + n], u[(M + n) + 1]) ELSE h[M + n]
        BY <1>7, <4>1
      <4>6. g[n + 1] = IF t[n + 1] \in S THEN Append(g[n], t[n + 1]) ELSE g[n]
        BY <1>6, <4>1
      <4>7. Append(f[M] \o g[n], t[n + 1]) = f[M] \o Append(g[n], t[n + 1])
        <5>1. Glued(f[M], g[n], t[n + 1])
          BY <1>9, <4>3, <4>4, AppendToConcat
        <5>2. QED
          BY <5>1, Zenon DEF Glued
      <4>8. QED
        BY <4>1, <4>2, <4>3, <4>5, <4>6, <4>7
    <3>2. n + 1 \in Nat
      OBVIOUS
    <3>3. QED
      BY <3>1, <3>2, Zenon DEF Done
  <2> HIDE DEF Done
  <2>3. \A n \in Nat : n \in Done
    BY <2>1, <2>2, Induction
  <2>4. QED
    BY <2>3 DEF Done
<1>11. h[M + N] = f[M] \o g[N]
  <2>1. N \in Nat /\ N <= N
    BY <1>1
  <2>2. QED
    BY <1>10, <2>1, Zenon
<1>12. QED
  BY <1>5, <1>6, <1>7, <1>11 DEF u

\* A filter that takes the whole list, or nothing.
LEMMA OnlyAll ==
    ASSUME NEW E, NEW list \in Seq(E), NEW S, Range(list) \subseteq S
    PROVE  Only(list, S) = list
<1> DEFINE N == Len(list)
           First(n) == [i \in 1 .. n |-> list[i]]
<1>1. /\ N \in Nat /\ \A i \in 1 .. N : list[i] \in S /\ list[i] \in E
  BY DEF Range
<1>6. PICK f : Filters(f, E, list, S)
  BY OnlySteps
<1>2. /\ f[0] = <<>> /\ f[N] = Only(list, S)
      /\ \A i \in 0 .. N - 1 :
            f[i + 1] = IF list[i + 1] \in S THEN Append(f[i], list[i + 1]) ELSE f[i]
  BY <1>6 DEF Filters
<1>3. \A n \in Nat : n <= N => f[n] = First(n)
  <2> DEFINE Done == {n \in Nat : n <= N => f[n] = First(n)}
  <2>1. 0 \in Done
    BY <1>2
  <2>2. ASSUME NEW n \in Nat, n \in Done PROVE n + 1 \in Done
    <3> SUFFICES ASSUME n + 1 <= N PROVE f[n + 1] = First(n + 1)
      OBVIOUS
    <3>1. n \in 0 .. N - 1 /\ n + 1 \in 1 .. N /\ f[n] = First(n)
      BY <1>1, <2>2
    <3>2. list[n + 1] \in S /\ list[n + 1] \in E
      BY <1>1, <3>1
    <3>3. f[n + 1] = Append(First(n), list[n + 1])
      BY <1>2, <3>1, <3>2
    <3>4. First(n) \in Seq(E) /\ Len(First(n)) = n
      BY <1>1, <3>1
    <3>5. /\ DOMAIN Append(First(n), list[n + 1]) = 1 .. n + 1
          /\ \A i \in 1 .. n + 1 : Append(First(n), list[n + 1])[i] = list[i]
          /\ Append(First(n), list[n + 1]) \in Seq(E)
      BY <3>2, <3>4
    <3>6. QED
      BY <3>3, <3>5
  <2> HIDE DEF Done
  <2>3. \A n \in Nat : n \in Done
    BY <2>1, <2>2, Induction
  <2>4. QED
    BY <2>3 DEF Done
<1>4. First(N) = list
  OBVIOUS
<1>5. QED
  BY <1>1, <1>2, <1>3, <1>4

LEMMA OnlyNone ==
    ASSUME NEW E, NEW list \in Seq(E), NEW S, Range(list) \cap S = {}
    PROVE  Only(list, S) = <<>>
  BY OnlyDoes, RangeOfList

\* Only the elements of the list matter to a filter.
LEMMA OnlySame ==
    ASSUME NEW E, NEW list \in Seq(E), NEW S, NEW T, Range(list) \cap S = Range(list) \cap T
    PROVE  Only(list, S) = Only(list, T)
<1> DEFINE N == Len(list)
<1>1. N \in Nat /\ \A i \in 1 .. N : list[i] \in S <=> list[i] \in T
  BY DEF Range
<1>7. PICK f : Filters(f, E, list, S)
  BY OnlySteps
<1>8. PICK g : Filters(g, E, list, T)
  BY OnlySteps
<1>2. /\ f[0] = <<>> /\ f[N] = Only(list, S)
      /\ \A i \in 0 .. N - 1 :
            f[i + 1] = IF list[i + 1] \in S THEN Append(f[i], list[i + 1]) ELSE f[i]
  BY <1>7 DEF Filters
<1>3. /\ g[0] = <<>> /\ g[N] = Only(list, T)
      /\ \A i \in 0 .. N - 1 :
            g[i + 1] = IF list[i + 1] \in T THEN Append(g[i], list[i + 1]) ELSE g[i]
  BY <1>8 DEF Filters
<1>4. \A n \in Nat : n <= N => f[n] = g[n]
  <2> DEFINE Done == {n \in Nat : n <= N => f[n] = g[n]}
  <2>1. 0 \in Done
    BY <1>2, <1>3
  <2>2. ASSUME NEW n \in Nat, n \in Done PROVE n + 1 \in Done
    <3> SUFFICES ASSUME n + 1 <= N PROVE f[n + 1] = g[n + 1]
      OBVIOUS
    <3>1. n \in 0 .. N - 1 /\ n + 1 \in 1 .. N /\ f[n] = g[n]
      BY <1>1, <2>2
    <3>2. list[n + 1] \in S <=> list[n + 1] \in T
      BY <1>1, <3>1
    <3>3. QED
      BY <1>2, <1>3, <3>1, <3>2
  <2> HIDE DEF Done
  <2>3. \A n \in Nat : n \in Done
    BY <2>1, <2>2, Induction
  <2>4. QED
    BY <2>3 DEF Done
<1>5. f[N] = g[N]
  BY <1>1, <1>4
<1>6. QED
  BY <1>2, <1>3, <1>5

-----------------------------------------------------------------------------
(* Lists of whatever elements.                                                *)

IsList(s) == s \in Seq(Range(s))

LEMMA ListOf ==
    ASSUME NEW E, NEW s, IsList(s), Range(s) \subseteq E
    PROVE  s \in Seq(E)
<1>1. Len(s) \in Nat /\ DOMAIN s = 1 .. Len(s) /\ s = [i \in 1 .. Len(s) |-> s[i]]
  BY DEF IsList
<1>2. \A i \in 1 .. Len(s) : s[i] \in E
  BY <1>1 DEF Range
<1>3. s \in [1 .. Len(s) -> E]
  BY <1>1, <1>2
<1>4. QED
  BY <1>1, <1>3, SeqDef

LEMMA SeqIsList ==
    ASSUME NEW E, NEW s \in Seq(E)
    PROVE  IsList(s)
<1>1. Len(s) \in Nat /\ DOMAIN s = 1 .. Len(s) /\ s = [i \in 1 .. Len(s) |-> s[i]]
  OBVIOUS
<1>2. \A i \in 1 .. Len(s) : s[i] \in Range(s)
  BY <1>1 DEF Range
<1>3. s \in [1 .. Len(s) -> Range(s)]
  BY <1>1, <1>2
<1>4. s \in Seq(Range(s))
  BY <1>1, <1>3, SeqDef
<1>5. QED
  BY <1>4 DEF IsList

LEMMA ListParts ==
    ASSUME NEW s, IsList(s)
    PROVE  /\ Len(s) \in Nat /\ DOMAIN s = 1 .. Len(s)
           /\ s = [i \in 1 .. Len(s) |-> s[i]]
           /\ s = <<>> <=> Len(s) = 0
  BY DEF IsList

\* A function of the positions of a list is a list.
LEMMA MappedList ==
    ASSUME NEW s, IsList(s), NEW t, DOMAIN t = DOMAIN s, t = [i \in DOMAIN t |-> t[i]]
    PROVE  IsList(t) /\ Len(t) = Len(s)
<1>1. Len(s) \in Nat /\ DOMAIN t = 1 .. Len(s)
  BY ListParts
<1>2. \A i \in 1 .. Len(s) : t[i] \in Range(t)
  BY <1>1 DEF Range
<1>3. t \in [1 .. Len(s) -> Range(t)]
  BY <1>1, <1>2
<1>4. t \in Seq(Range(t))
  BY <1>1, <1>3, SeqDef
<1>5. QED
  BY <1>1, <1>4 DEF IsList

LEMMA Cut ==
    ASSUME NEW E, NEW list \in Seq(E), NEW i \in 1 .. Len(list) + 1
    PROVE  /\ SubSeq(list, 1, i - 1) \in Seq(E) /\ SubSeq(list, i, Len(list)) \in Seq(E)
           /\ list = SubSeq(list, 1, i - 1) \o SubSeq(list, i, Len(list))
<1>1. Len(list) \in Nat /\ \A j \in 1 .. Len(list) : list[j] \in E
  OBVIOUS
<1>2. i - 1 \in 0 .. Len(list) /\ (i - 1) + 1 = i /\ Len(list) \in i - 1 .. Len(list) /\ 1 \in 1 .. Len(list) + 1
      /\ i - 1 \in 1 - 1 .. Len(list)
  BY <1>1
<1>3. SubSeq(list, 1, i - 1) \o SubSeq(list, (i - 1) + 1, Len(list)) = SubSeq(list, 1, Len(list))
  BY <1>2, ConcatAdjacentSubSeq
<1>4. SubSeq(list, 1, Len(list)) = list
  BY SubSeqFull
<1>5. SubSeq(list, 1, i - 1) \in Seq(E)
  <2>1. \A j \in 1 .. i - 1 : list[j] \in E
    BY <1>1
  <2>2. QED
    BY <1>1, <2>1, SubSeqProperties
<1>6. SubSeq(list, i, Len(list)) \in Seq(E)
  <2>1. \A j \in i .. Len(list) : list[j] \in E
    BY <1>1
  <2>2. QED
    BY <1>1, <2>1, SubSeqProperties
<1>7. QED
  BY <1>2, <1>3, <1>4, <1>5, <1>6

\* A list around two neighbours.
LEMMA CutOutTwo ==
    ASSUME NEW E, NEW list \in Seq(E), NEW i \in 1 .. Len(list) - 1
    PROVE  /\ SubSeq(list, 1, i - 1) \in Seq(E) /\ SubSeq(list, i + 2, Len(list)) \in Seq(E)
           /\ list = SubSeq(list, 1, i - 1)
                        \o (<<list[i]>> \o (<<list[i + 1]>> \o SubSeq(list, i + 2, Len(list))))
<1>1. /\ Len(list) \in Nat /\ i \in 1 .. Len(list) /\ i + 1 \in 1 .. Len(list)
      /\ i \in 1 .. Len(list) + 1 /\ i + 2 \in 1 .. Len(list) + 1 /\ (i + 1) + 1 = i + 2
      /\ Len(list) \in i .. Len(list) /\ Len(list) \in i + 1 .. Len(list)
  OBVIOUS
<1>2. SubSeq(list, i, Len(list)) = <<list[i]>> \o SubSeq(list, i + 1, Len(list))
  BY <1>1, SubSeqRecursiveFirst
<1>3. SubSeq(list, i + 1, Len(list)) = <<list[i + 1]>> \o SubSeq(list, (i + 1) + 1, Len(list))
  BY <1>1, SubSeqRecursiveFirst
<1>4. /\ SubSeq(list, 1, i - 1) \in Seq(E)
      /\ list = SubSeq(list, 1, i - 1) \o SubSeq(list, i, Len(list))
  BY <1>1, Cut
<1>5. SubSeq(list, i + 2, Len(list)) \in Seq(E)
  BY <1>1, Cut
<1>6. QED
  BY <1>1, <1>2, <1>3, <1>4, <1>5

LEMMA SwapTwo ==
    ASSUME NEW E, NEW list \in Seq(E), NEW i \in 1 .. Len(list) - 1
    PROVE  LET swapped == [list EXCEPT ![i] = list[i + 1], ![i + 1] = list[i]]
           IN  /\ swapped \in Seq(E)
               /\ swapped = SubSeq(list, 1, i - 1)
                               \o (<<list[i + 1]>> \o (<<list[i]>> \o SubSeq(list, i + 2, Len(list))))
<1> DEFINE t == [list EXCEPT ![i] = list[i + 1], ![i + 1] = list[i]]
<1>1. /\ Len(list) \in Nat /\ i \in 1 .. Len(list) /\ i + 1 \in 1 .. Len(list)
      /\ \A j \in 1 .. Len(list) : list[j] \in E
  OBVIOUS
<1>2. /\ t \in Seq(E) /\ Len(t) = Len(list)
      /\ \A j \in 1 .. Len(list) : t[j] = IF j = i + 1 THEN list[i] ELSE IF j = i THEN list[i + 1] ELSE list[j]
  BY <1>1
<1> HIDE DEF t
<1>3. t = SubSeq(t, 1, i - 1) \o (<<t[i]>> \o (<<t[i + 1]>> \o SubSeq(t, i + 2, Len(t))))
  <2>1. i \in 1 .. Len(t) - 1
    BY <1>2
  <2>2. QED
    BY <1>2, <2>1, CutOutTwo
<1>4. t[i] = list[i + 1] /\ t[i + 1] = list[i]
  BY <1>1, <1>2
<1>5. SubSeq(t, 1, i - 1) = SubSeq(list, 1, i - 1)
  <2>1. \A j \in 1 .. i - 1 : t[j] = list[j] /\ t[j] \in E
    BY <1>1, <1>2
  <2>2. QED
    BY <1>1, <2>1
<1>6. SubSeq(t, i + 2, Len(t)) = SubSeq(list, i + 2, Len(list))
  <2>1. \A j \in i + 2 .. Len(list) : t[j] = list[j] /\ t[j] \in E
    BY <1>1, <1>2
  <2>2. QED
    BY <1>1, <1>2, <2>1
<1>7. QED
  BY <1>2, <1>3, <1>4, <1>5, <1>6 DEF t

-----------------------------------------------------------------------------
(* Sorting.                                                                   *)

IsOrderOn(S, R) ==
    /\ IsFiniteSet(S)
    /\ \A x \in S : <<x, x>> \notin R
    /\ \A x, y \in S : x # y => <<x, y>> \in R \/ <<y, x>> \in R
    /\ \A x, y, z \in S : <<x, y>> \in R /\ <<y, z>> \in R => <<x, z>> \in R

Ascends(s, n, R) == \A i, j \in 1 .. n : i < j => <<s[i], s[j]>> \in R

\* An element comes after as many as are smaller.
LEMMA OrderExists ==
    ASSUME NEW S, NEW R, IsOrderOn(S, R)
    PROVE  \E s \in [1 .. Cardinality(S) -> S] : Ascends(s, Cardinality(S), R)
<1> DEFINE n == Cardinality(S)
           below(x) == {y \in S : <<y, x>> \in R}
           rank == [x \in S |-> Cardinality(below(x)) + 1]
<1>1. n \in Nat /\ IsFiniteSet(S)
  BY FS_CardinalityType DEF IsOrderOn
<1>2. ASSUME NEW x \in S PROVE rank[x] \in 1 .. n
  <2>1. below(x) \subseteq S \ {x}
    BY DEF IsOrderOn
  <2>2. IsFiniteSet(S \ {x}) /\ Cardinality(S \ {x}) = n - 1
    BY <1>1, FS_RemoveElement
  <2> DEFINE b == below(x)
  <2>3. rank[x] = Cardinality(b) + 1
    OBVIOUS
  <2>4. IsFiniteSet(b) /\ Cardinality(b) <= n - 1
    <3> DEFINE c == S \ {x}
    <3>1. b \in SUBSET c /\ IsFiniteSet(c) /\ Cardinality(c) = n - 1
      BY <2>1, <2>2
    <3> HIDE DEF b, c, n
    <3>2. IsFiniteSet(b) /\ Cardinality(b) <= Cardinality(c)
      BY <3>1, FS_Subset
    <3>3. QED
      BY <3>1, <3>2
  <2>5. Cardinality(b) \in Nat
    BY <2>4, FS_CardinalityType
  <2> HIDE DEF b, n, rank
  <2>6. QED
    BY <1>1, <2>3, <2>4, <2>5
<1>3. ASSUME NEW x \in S, NEW y \in S, <<x, y>> \in R PROVE rank[x] < rank[y]
  <2> DEFINE a == below(x)
             b == below(y)
  <2>1. a \subseteq b /\ x \in b /\ x \notin a /\ b \subseteq S
    BY <1>3 DEF IsOrderOn
  <2>2. rank[x] = Cardinality(a) + 1 /\ rank[y] = Cardinality(b) + 1
    OBVIOUS
  <2> HIDE DEF a, b, rank
  <2>3. IsFiniteSet(b) /\ IsFiniteSet(a)
    <3>1. IsFiniteSet(b)
      BY <1>1, <2>1, FS_Subset
    <3>2. QED
      BY <3>1, <2>1, FS_Subset
  <2>4. Cardinality(a) <= Cardinality(b) /\ Cardinality(a) # Cardinality(b)
    BY <2>1, <2>3, FS_Subset
  <2>5. Cardinality(a) \in Nat /\ Cardinality(b) \in Nat
    BY <2>3, FS_CardinalityType
  <2>6. QED
    BY <2>2, <2>4, <2>5
<1>4. \A x, y \in S : rank[x] = rank[y] => x = y
  <2> SUFFICES ASSUME NEW x \in S, NEW y \in S, x # y PROVE rank[x] # rank[y]
    OBVIOUS
  <2>1. rank[x] \in 1 .. n /\ rank[y] \in 1 .. n
    BY <1>2
  <2>2. <<x, y>> \in R \/ <<y, x>> \in R
    BY DEF IsOrderOn
  <2>3. rank[x] < rank[y] \/ rank[y] < rank[x]
    BY <2>2, <1>3
  <2> HIDE DEF rank
  <2>4. QED
    BY <1>1, <2>1, <2>3
<1>5. rank \in [S -> 1 .. n]
  <2>1. DOMAIN rank = S /\ rank = [x \in S |-> rank[x]]
    OBVIOUS
  <2> HIDE DEF rank
  <2>2. QED
    BY <1>2, <2>1
<1> HIDE DEF rank
<1>6. \A i \in 1 .. n : \E x \in S : rank[x] = i
  <2>1. rank \in Injection(S, 1 .. n)
    BY <1>4, <1>5 DEF Injection, IsInjective
  <2>2. IsFiniteSet(1 .. n) /\ Cardinality(1 .. n) = n
    <3> HIDE DEF n
    <3>1. 1 \in Int /\ n \in Int /\ (1 > n => n = 0) /\ (n - 1) + 1 = n
      BY <1>1
    <3>2. QED
      BY <3>1, FS_Interval
  <2> DEFINE T == 1 .. n
  <2>3. IsFiniteSet(T) /\ Cardinality(S) = Cardinality(T) /\ rank \in Injection(S, T)
    BY <2>1, <2>2
  <2> HIDE DEF T
  <2>4. rank \in Surjection(S, T)
    BY <2>3, FS_Injection
  <2>5. QED
    BY <2>4 DEF Surjection, T
<1> DEFINE s == [i \in 1 .. n |-> CHOOSE x \in S : rank[x] = i]
<1>7. \A i \in 1 .. n : s[i] \in S /\ rank[s[i]] = i
  BY <1>6
<1>8. s \in [1 .. n -> S]
  BY <1>7
<1>9. ASSUME NEW i \in 1 .. n, NEW j \in 1 .. n, i < j PROVE <<s[i], s[j]>> \in R
  <2>1. s[i] \in S /\ s[j] \in S /\ rank[s[i]] = i /\ rank[s[j]] = j
    BY <1>7
  <2> HIDE DEF s
  <2>2. i # j /\ ~ (j < i)
    BY <1>1, <1>9
  <2>3. s[i] # s[j]
    BY <2>1, <2>2
  <2>4. CASE <<s[j], s[i]>> \in R
    <3>1. rank[s[j]] < rank[s[i]]
      BY <1>3, <2>1, <2>4
    <3>2. QED
      BY <3>1, <2>1, <2>2
  <2>5. QED
    BY <2>1, <2>3, <2>4 DEF IsOrderOn
<1>10. QED
  BY <1>8, <1>9 DEF Ascends

\* The elements in their order: each of them, once.
LEMMA InOrderDoes ==
    ASSUME NEW S, NEW R, IsOrderOn(S, R)
    PROVE  LET n == Cardinality(S)
               s == InOrder(S, R)
           IN  /\ n \in Nat /\ s \in [1 .. n -> S] /\ s \in Seq(S) /\ Len(s) = n
               /\ Ascends(s, n, R)
               /\ \A i, j \in 1 .. n : s[i] = s[j] => i = j
               /\ \A x \in S : \E i \in 1 .. n : s[i] = x
<1> DEFINE n == Cardinality(S)
           s == InOrder(S, R)
<1>1. n \in Nat /\ IsFiniteSet(S)
  BY FS_CardinalityType DEF IsOrderOn
<1>2. s \in [1 .. n -> S] /\ Ascends(s, n, R)
  <2>1. PICK t \in [1 .. n -> S] : Ascends(t, n, R)
    BY OrderExists
  <2>2. DOMAIN t = 1 .. n
    BY <2>1
  <2>3. \E t1 \in [1 .. n -> S] : \A i, j \in DOMAIN t1 : i < j => <<t1[i], t1[j]>> \in R
    BY <2>1, <2>2 DEF Ascends
  <2> DEFINE P(u) == \A i, j \in DOMAIN u : i < j => <<u[i], u[j]>> \in R
  <2>4. s = CHOOSE u \in [1 .. n -> S] : P(u)
    BY DEF InOrder
  <2>5. \E u \in [1 .. n -> S] : P(u)
    BY <2>3
  <2> HIDE DEF s
  <2>6. s \in [1 .. n -> S] /\ P(s)
    <3> HIDE DEF P
    <3>1. QED
      BY <2>4, <2>5
  <2>7. DOMAIN s = 1 .. n
    BY <2>6
  <2>8. QED
    BY <2>6, <2>7 DEF Ascends
<1> HIDE DEF s, n
<1>3. s \in Seq(S) /\ Len(s) = n
  <2>1. s \in Seq(S)
    BY <1>1, <1>2, SeqDef
  <2>2. DOMAIN s = 1 .. n
    BY <1>2
  <2>3. QED
    BY <2>1, <2>2, <1>1
<1>4. ASSUME NEW i \in 1 .. n, NEW j \in 1 .. n, s[i] = s[j] PROVE i = j
  <2>1. s[i] \in S /\ <<s[i], s[i]>> \notin R
    BY <1>2 DEF IsOrderOn
  <2>2. i \in Nat /\ j \in Nat
    BY <1>1
  <2>3. ~ (i < j) /\ ~ (j < i)
    BY <1>2, <1>4, <2>1 DEF Ascends
  <2>4. QED
    BY <2>2, <2>3
<1>5. \A x \in S : \E i \in 1 .. n : s[i] = x
  <2> DEFINE T == 1 .. n
  <2>1. IsFiniteSet(T) /\ Cardinality(T) = n
    <3>1. 1 \in Int /\ n \in Int /\ (1 > n => n = 0) /\ (n - 1) + 1 = n
      BY <1>1
    <3>2. QED
      BY <3>1, FS_Interval
  <2>2. s \in Injection(T, S)
    BY <1>2, <1>4 DEF Injection, IsInjective
  <2> HIDE DEF T
  <2>3. s \in Surjection(T, S)
    BY <1>1, <2>1, <2>2, FS_Injection DEF n
  <2>4. QED
    BY <2>3 DEF Surjection, T
<1>6. QED
  BY <1>1, <1>2, <1>3, <1>4, <1>5 DEF s, n

\* What ascends among as many numbers is at least where it stands.
LEMMA AscentIsSteep ==
    ASSUME NEW n \in Nat, NEW f \in [1 .. n -> 1 .. n],
           \A i, j \in 1 .. n : i < j => f[i] < f[j]
    PROVE  \A i \in 1 .. n : i <= f[i]
<1> DEFINE S == {i \in Nat : i \in 1 .. n => i <= f[i]}
<1>1. 0 \in S
  OBVIOUS
<1>2. ASSUME NEW i \in Nat, i \in S PROVE i + 1 \in S
  <2> SUFFICES ASSUME i + 1 \in 1 .. n PROVE i + 1 <= f[i + 1]
    OBVIOUS
  <2>1. f[i + 1] \in 1 .. n
    OBVIOUS
  <2>2. CASE i = 0
    BY <2>1, <2>2
  <2>3. CASE i # 0
    <3>1. i \in 1 .. n /\ i < i + 1
      BY <2>3
    <3>2. f[i] < f[i + 1] /\ i <= f[i] /\ f[i] \in 1 .. n
      BY <3>1, <1>2
    <3>3. QED
      BY <2>1, <3>2
  <2>4. QED
    BY <2>2, <2>3
<1> HIDE DEF S
<1>3. \A i \in Nat : i \in S
  BY <1>1, <1>2, Induction
<1>4. QED
  BY <1>3 DEF S

LEMMA AscentIsIdentity ==
    ASSUME NEW n \in Nat, NEW f \in [1 .. n -> 1 .. n],
           \A i, j \in 1 .. n : i < j => f[i] < f[j]
    PROVE  \A i \in 1 .. n : f[i] = i
<1> DEFINE g == [i \in 1 .. n |-> n + 1 - f[n + 1 - i]]
<1>1. \A i \in 1 .. n : n + 1 - i \in 1 .. n /\ f[i] \in 1 .. n
  OBVIOUS
<1>2. \A i \in 1 .. n : g[i] \in 1 .. n
  BY <1>1
<1>3. g \in [1 .. n -> 1 .. n]
  BY <1>2
<1>4. ASSUME NEW i \in 1 .. n, NEW j \in 1 .. n, i < j PROVE g[i] < g[j]
  <2>1. n + 1 - j < n + 1 - i /\ n + 1 - i \in 1 .. n /\ n + 1 - j \in 1 .. n
    BY <1>4
  <2>2. f[n + 1 - j] < f[n + 1 - i] /\ f[n + 1 - j] \in 1 .. n /\ f[n + 1 - i] \in 1 .. n
    BY <2>1
  <2>3. QED
    BY <2>2
<1>5. \A i \in 1 .. n : g[i] = n + 1 - f[n + 1 - i]
  OBVIOUS
<1> HIDE DEF g
<1>6. \A i \in 1 .. n : i <= g[i]
  BY <1>3, <1>4, AscentIsSteep
<1>7. \A i \in 1 .. n : i <= f[i]
  BY AscentIsSteep
<1>8. ASSUME NEW i \in 1 .. n PROVE f[i] = i
  <2>1. n + 1 - i \in 1 .. n /\ n + 1 - (n + 1 - i) = i /\ f[i] \in 1 .. n
    BY <1>1
  <2>2. n + 1 - i <= n + 1 - f[i]
    BY <1>5, <1>6, <2>1
  <2>3. i <= f[i]
    BY <1>7
  <2>4. i \in Int /\ n \in Int /\ f[i] \in Int
    BY <2>1
  <2>5. \A a, b, c \in Int : c + 1 - a <= c + 1 - b /\ a <= b => b = a
    OBVIOUS
  <2>6. QED
    BY <2>2, <2>3, <2>4, <2>5
<1>9. QED
  BY <1>8
=============================================================================
