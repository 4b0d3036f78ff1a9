------------------------- MODULE TerminalOutputProofs -------------------------
(***************************************************************************)
(* Proofs about the check marker filter, for every marker, every stream    *)
(* and every way to cut it into reads.                                     *)
(*                                                                         *)
(* Scan and Strip are recursive on sequences that get shorter; what they   *)
(* compute is proved by induction on the length, with sets of numbers in   *)
(* the place of predicates.                                                *)
(***************************************************************************)
EXTENDS TerminalOutput, SequenceTheorems, WellFoundedInduction, TLAPS

-----------------------------------------------------------------------------
(***************************************************************************)
(* Induction and recursion                                                 *)
(***************************************************************************)

(* A set of numbers has a least member.                                    *)
LEMMA Least ==
  ASSUME NEW T \in SUBSET Nat, T # {}
  PROVE  \E m \in T : \A n \in T : m <= n
<1> DEFINE R == {ss \in Nat \X Nat : ss[1] < ss[2]}
<1>1. IsWellFoundedOn(R, Nat)
  BY NatLessThanWellFounded DEF OpToRel
<1>2. PICK x \in T : \A y \in T : ~ (<<y, x>> \in R)
  <2> HIDE DEF R
  <2> QED BY <1>1, WFMin
<1>3. \A y \in T : ~ (y < x)
  <2>1. \A y \in T : <<y, x>> \in Nat \X Nat /\ <<y, x>>[1] = y /\ <<y, x>>[2] = x
    OBVIOUS
  <2> QED BY <1>2, <2>1
<1> QED BY <1>3

(* Strong induction, on the set of the numbers for which something holds.  *)
LEMMA Induct ==
  ASSUME NEW T \in SUBSET Nat,
         \A n \in Nat : (\A m \in Nat : m < n => m \in T) => n \in T
  PROVE  T = Nat
<1> SUFFICES ASSUME Nat \ T # {} PROVE FALSE
  OBVIOUS
<1>1. PICK m \in Nat \ T : \A n \in Nat \ T : m <= n
  <2>1. Nat \ T \in SUBSET Nat
    OBVIOUS
  <2> QED BY <2>1, Least
<1> QED BY <1>1

(* Induction on the length of a sequence.                                  *)
LEMMA ByLength ==
  ASSUME NEW T \in SUBSET Seq(Byte),
         \A s \in Seq(Byte) : (\A t \in Seq(Byte) : Len(t) < Len(s) => t \in T) => s \in T
  PROVE  T = Seq(Byte)
<1> DEFINE N == {n \in Nat : \A s \in Seq(Byte) : Len(s) = n => s \in T}
<1>1. ASSUME NEW n \in Nat, \A m \in Nat : m < n => m \in N
      PROVE  n \in N
  <2>1. ASSUME NEW s \in Seq(Byte), Len(s) = n PROVE s \in T
    <3>1. ASSUME NEW t \in Seq(Byte), Len(t) < Len(s) PROVE t \in T
      <4>1. Len(t) \in Nat /\ Len(t) < n
        BY <2>1, <3>1
      <4> QED BY <1>1, <4>1
    <3> QED BY <3>1
  <2> QED BY <2>1
<1> HIDE DEF N
<1>2. N \in SUBSET Nat
  BY DEF N
<1>3. N = Nat
  BY <1>1, <1>2, Induct
<1>4. \A s \in Seq(Byte) : Len(s) \in Nat
  OBVIOUS
<1> QED BY <1>3, <1>4 DEF N

(* A recursion from S to V, by way of a smaller argument.                  *)
Descends(S, V, v, size, stop, base, nxt, comb) ==
  /\ v \in V /\ size \in [S -> Nat] /\ stop \in SUBSET S
  /\ base \in [stop -> V] /\ nxt \in [S \ stop -> S] /\ comb \in [S \ stop -> [V -> V]]
  /\ \A s \in S \ stop : size[nxt[s]] < size[s]

Defines(S, V, stop, base, nxt, comb) ==
  \E f \in [S -> V] : \A s \in S : f[s] = IF s \in stop THEN base[s] ELSE comb[s][f[nxt[s]]]

(* A function is defined by recursion when the argument gets smaller.      *)
LEMMA Recursion ==
  ASSUME NEW S, NEW V, NEW v, NEW size, NEW stop, NEW base, NEW nxt, NEW comb,
         Descends(S, V, v, size, stop, base, nxt, comb)
  PROVE  Defines(S, V, stop, base, nxt, comb)
<1>0. /\ v \in V /\ size \in [S -> Nat] /\ stop \in SUBSET S
      /\ base \in [stop -> V] /\ nxt \in [S \ stop -> S] /\ comb \in [S \ stop -> [V -> V]]
      /\ \A s \in S \ stop : size[nxt[s]] < size[s]
  BY DEF Descends
<1> DEFINE Body(g, s) == IF s \in stop THEN base[s] ELSE comb[s][g[nxt[s]]]
           Upto(g, n) == \A s \in S : size[s] < n => g[s] = Body(g, s)
<1>1. \A g \in [S -> V], s \in S : Body(g, s) \in V
  BY <1>0
<1>2. ASSUME NEW g \in [S -> V], NEW h \in [S -> V], NEW s \in S,
             s \notin stop => g[nxt[s]] = h[nxt[s]]
      PROVE  Body(g, s) = Body(h, s)
  BY <1>2
<1> HIDE DEF Body
<1>3. \A n \in Nat : \E g \in [S -> V] : Upto(g, n)
  <2> DEFINE T == {n \in Nat : \E g \in [S -> V] : Upto(g, n)}
  <2>1. ASSUME NEW n \in Nat, \A m \in Nat : m < n => m \in T
        PROVE  n \in T
    <3>1. CASE n = 0
      <4>1. [s \in S |-> v] \in [S -> V] /\ \A s \in S : ~(size[s] < 0)
        BY <1>0
      <4> QED BY <3>1, <4>1
    <3>2. CASE n # 0
      <4>1. n - 1 \in Nat /\ n - 1 < n
        BY <3>2
      <4>2. PICK g \in [S -> V] : Upto(g, n - 1)
        BY <2>1, <4>1
      <4> DEFINE h == [s \in S |-> Body(g, s)]
      <4>3. h \in [S -> V]
        BY <1>1
      <4>4. ASSUME NEW s \in S, size[s] < n PROVE h[s] = Body(h, s)
        <5>1. CASE s \in stop
          BY <5>1, <4>3, <1>2
        <5>2. CASE s \notin stop
          <6>1. nxt[s] \in S /\ size[nxt[s]] < n - 1
            BY <1>0, <4>4, <5>2
          <6>2. g[nxt[s]] = h[nxt[s]]
            BY <4>2, <6>1
          <6> QED BY <1>2, <4>3, <6>2
        <5> QED BY <5>1, <5>2
      <4> QED BY <4>3, <4>4
    <3> QED BY <3>1, <3>2
  <2> HIDE DEF T
  <2>2. T \in SUBSET Nat
    BY DEF T
  <2>3. T = Nat
    BY <2>1, <2>2, Induct
  <2> QED BY <2>3 DEF T
<1>4. \A k \in Nat : \A g, h \in [S -> V] : Upto(g, k) /\ Upto(h, k) =>
        \A s \in S : size[s] < k => g[s] = h[s]
  <2> SUFFICES ASSUME NEW k \in Nat, NEW g \in [S -> V], NEW h \in [S -> V], Upto(g, k), Upto(h, k)
               PROVE  \A s \in S : size[s] < k => g[s] = h[s]
    OBVIOUS
  <2> DEFINE T == {n \in Nat : \A s \in S : size[s] = n /\ n < k => g[s] = h[s]}
  <2>1. ASSUME NEW n \in Nat, \A m \in Nat : m < n => m \in T
        PROVE  n \in T
    <3>1. ASSUME NEW s \in S, size[s] = n, n < k PROVE g[s] = h[s]
      <4>1. g[s] = Body(g, s) /\ h[s] = Body(h, s)
        BY <3>1
      <4>2. ASSUME s \notin stop PROVE g[nxt[s]] = h[nxt[s]]
        <5>1. nxt[s] \in S /\ size[nxt[s]] \in Nat /\ size[nxt[s]] < n
          BY <1>0, <3>1, <4>2
        <5>2. size[nxt[s]] \in T /\ size[nxt[s]] < k
          BY <2>1, <3>1, <5>1
        <5> QED BY <5>1, <5>2
      <4> QED BY <1>2, <4>1, <4>2
    <3> QED BY <3>1
  <2> HIDE DEF T
  <2>2. T \in SUBSET Nat
    BY DEF T
  <2>3. T = Nat
    BY <2>1, <2>2, Induct
  <2> QED BY <1>0, <2>3 DEF T
<1> DEFINE G == [n \in Nat |-> CHOOSE g \in [S -> V] : Upto(g, n)]
           f == [s \in S |-> G[size[s] + 1][s]]
<1>5. \A n \in Nat : G[n] \in [S -> V] /\ Upto(G[n], n)
  BY <1>3
<1> HIDE DEF G
<1>6. f \in [S -> V]
  BY <1>0, <1>5
<1>7. ASSUME NEW s \in S PROVE f[s] = Body(f, s)
  <2> DEFINE k == size[s] + 1
  <2>1. k \in Nat /\ size[s] < k /\ f[s] = G[k][s]
    BY <1>0
  <2>2. f[s] = Body(G[k], s)
    BY <1>5, <2>1
  <2>3. ASSUME s \notin stop PROVE G[k][nxt[s]] = f[nxt[s]]
    <3> DEFINE j == size[nxt[s]] + 1
    <3>1. nxt[s] \in S /\ j \in Nat /\ size[nxt[s]] < j /\ f[nxt[s]] = G[j][nxt[s]] /\ j <= k
      BY <1>0, <2>3
    <3>2. Upto(G[k], j)
      <4>1. Upto(G[k], k) /\ j <= k /\ j \in Nat /\ k \in Nat
        BY <1>5, <2>1, <3>1
      <4>2. \A t \in S : size[t] \in Nat
        BY <1>0
      <4> HIDE DEF j, k
      <4> QED BY <4>1, <4>2
    <3>3. G[k] \in [S -> V] /\ G[j] \in [S -> V] /\ Upto(G[j], j)
      BY <1>5, <2>1, <3>1
    <3> HIDE DEF Upto, j, k, f
    <3>4. \A t \in S : size[t] < j => G[k][t] = G[j][t]
      BY <1>4, <3>1, <3>2, <3>3
    <3> QED BY <3>1, <3>4
  <2>4. G[k] \in [S -> V]
    BY <1>5, <2>1
  <2> HIDE DEF f, k
  <2>5. Body(G[k], s) = Body(f, s)
    BY <1>2, <1>6, <2>3, <2>4
  <2> QED BY <2>2, <2>5
<1> QED BY <1>6, <1>7 DEF Body, Defines

-----------------------------------------------------------------------------
(***************************************************************************)
(* Parts of sequences                                                      *)
(***************************************************************************)

(* The marker is not empty.                                                *)
LEMMA SizeIs == /\ Size \in Nat \ {0} /\ checkSequence \in Seq(Byte)
                /\ \A i \in 2..Size : checkSequence[i] # checkSequence[1]
BY MarkerAssumption DEF Size

(* data[i:] of the code.                                                   *)
LEMMA RestIs ==
  ASSUME NEW s \in Seq(Byte), NEW i \in 1..Len(s) + 1
  PROVE  /\ Rest(s, i) \in Seq(Byte)
         /\ Len(Rest(s, i)) = Len(s) + 1 - i
         /\ \A k \in 1..Len(s) + 1 - i : Rest(s, i)[k] = s[i + k - 1]
BY DEF Rest

(* data[:n] of the code.                                                   *)
LEMMA FrontIs ==
  ASSUME NEW s \in Seq(Byte), NEW n \in 0..Len(s)
  PROVE  /\ SubSeq(s, 1, n) \in Seq(Byte)
         /\ Len(SubSeq(s, 1, n)) = n
         /\ \A k \in 1..n : SubSeq(s, 1, n)[k] = s[k]
OBVIOUS

(* A sequence is its members.                                              *)
LEMMA SameMembers ==
  ASSUME NEW s \in Seq(Byte), NEW t \in Seq(Byte), Len(s) = Len(t),
         \A k \in 1..Len(s) : s[k] = t[k]
  PROVE  s = t
OBVIOUS

(* Concatenation, byte by byte.                                            *)
LEMMA ConcatIs ==
  ASSUME NEW s \in Seq(Byte), NEW t \in Seq(Byte)
  PROVE  /\ s \o t \in Seq(Byte) /\ Len(s) \in Nat /\ Len(t) \in Nat
         /\ Len(s \o t) = Len(s) + Len(t)
         /\ \A k \in 1..Len(s) : (s \o t)[k] = s[k]
         /\ \A k \in 1..Len(t) : (s \o t)[Len(s) + k] = t[k]
OBVIOUS

(* Pieces of a stream may be put together in any order.                    *)
LEMMA ConcatAssoc ==
  ASSUME NEW s \in Seq(Byte), NEW t \in Seq(Byte), NEW u \in Seq(Byte)
  PROVE  (s \o t) \o u = s \o (t \o u)
OBVIOUS

(* The rest of a stream goes on with what follows it.                      *)
LEMMA RestOfConcat ==
  ASSUME NEW s \in Seq(Byte), NEW d \in Seq(Byte), NEW i \in 1..Len(s) + 1
  PROVE  Rest(s \o d, i) = Rest(s, i) \o d
<1> DEFINE sd == s \o d
           r == Rest(s, i)
           n == Len(s) + 1 - i
<1>1. /\ sd \in Seq(Byte) /\ Len(sd) = Len(s) + Len(d) /\ Len(s) \in Nat /\ Len(d) \in Nat
      /\ \A k \in 1..Len(s) : sd[k] = s[k]
      /\ \A k \in 1..Len(d) : sd[Len(s) + k] = d[k]
  BY ConcatIs
<1>2. n \in Nat /\ r \in Seq(Byte) /\ Len(r) = n /\ \A k \in 1..n : r[k] = s[i + k - 1]
  BY <1>1, RestIs
<1> HIDE DEF sd, r
<1>3. i \in 1..Len(sd) + 1 /\ Len(sd) + 1 - i = n + Len(d)
  BY <1>1
<1>4. Rest(sd, i) \in Seq(Byte) /\ Len(Rest(sd, i)) = n + Len(d)
      /\ \A k \in 1..n + Len(d) : Rest(sd, i)[k] = sd[i + k - 1]
  <2>1. Rest(sd, i) \in Seq(Byte) /\ Len(Rest(sd, i)) = Len(sd) + 1 - i
        /\ \A k \in 1..Len(sd) + 1 - i : Rest(sd, i)[k] = sd[i + k - 1]
    BY <1>1, <1>3, RestIs
  <2> QED BY <1>3, <2>1
<1>5. /\ r \o d \in Seq(Byte) /\ Len(r \o d) = n + Len(d)
      /\ \A k \in 1..n : (r \o d)[k] = r[k]
      /\ \A k \in 1..Len(d) : (r \o d)[n + k] = d[k]
  <2>1. /\ r \o d \in Seq(Byte) /\ Len(r \o d) = Len(r) + Len(d)
        /\ \A k \in 1..Len(r) : (r \o d)[k] = r[k]
        /\ \A k \in 1..Len(d) : (r \o d)[Len(r) + k] = d[k]
    BY <1>2, ConcatIs
  <2> HIDE DEF n
  <2> QED BY <1>2, <2>1
<1>6. ASSUME NEW k \in 1..n + Len(d)
      PROVE  Rest(sd, i)[k] = (r \o d)[k]
  <2>0. Rest(sd, i)[k] = sd[i + k - 1]
    BY <1>4
  <2>1. CASE k <= n
    <3>1. k \in 1..n /\ i + k - 1 \in 1..Len(s)
      BY <1>1, <1>2, <2>1
    <3>2. sd[i + k - 1] = s[i + k - 1]
      BY <1>1, <3>1
    <3>3. (r \o d)[k] = s[i + k - 1]
      BY <1>2, <1>5, <3>1
    <3> QED BY <2>0, <3>2, <3>3
  <2>2. CASE k > n
    <3> DEFINE j == k - n
    <3>1. j \in 1..Len(d) /\ k = n + j /\ i + k - 1 = Len(s) + j
      <4>1. n \in Nat /\ Len(d) \in Nat /\ Len(s) \in Nat /\ i \in Nat /\ n = Len(s) + 1 - i
        BY <1>1, <1>2
      <4> HIDE DEF n
      <4>2. k \in Nat /\ k > n /\ k <= n + Len(d)
        BY <2>2, <4>1
      <4>3. j \in 1..Len(d) /\ k = n + j
        BY <4>1, <4>2
      <4> QED BY <4>1, <4>3
    <3> HIDE DEF j, n
    <3>2. sd[Len(s) + j] = d[j] /\ (r \o d)[n + j] = d[j]
      BY <1>1, <1>5, <3>1
    <3> QED BY <2>0, <3>1, <3>2
  <2> QED BY <1>1, <1>2, <2>1, <2>2
<1> HIDE DEF n
<1>7. Rest(sd, i) = r \o d
  BY <1>4, <1>5, <1>6, SameMembers
<1> QED BY <1>7 DEF sd, r

(* A marker at i, byte by byte.                                            *)
LEMMA FoundIs ==
  ASSUME NEW s \in Seq(Byte), NEW i \in Nat \ {0}
  PROVE  i \in Found(s) <=> /\ i + Size - 1 <= Len(s)
                           /\ \A k \in 1..Size : s[i + k - 1] = checkSequence[k]
<1> DEFINE window == SubSeq(s, i, i + Size - 1)
<1>1. Size \in Nat \ {0} /\ checkSequence \in Seq(Byte) /\ Len(checkSequence) = Size
      /\ Len(s) \in Nat
  BY SizeIs DEF Size
<1>2. i \in Found(s) <=> i + Size - 1 <= Len(s) /\ window = checkSequence
  BY <1>1 DEF Found
<1>3. ASSUME i + Size - 1 <= Len(s)
      PROVE  window = checkSequence <=> \A k \in 1..Size : s[i + k - 1] = checkSequence[k]
  <2>1. window \in Seq(Byte) /\ Len(window) = Size /\ \A k \in 1..Size : window[k] = s[i + k - 1]
    <3>1. i \in Int /\ i + Size - 1 \in Int /\ i <= i + Size - 1 /\ (i + Size - 1) - i + 1 = Size
      BY <1>1
    <3>2. \A k \in i..i + Size - 1 : s[k] \in Byte
      BY <1>1, <1>3
    <3> QED BY <1>1, <3>1, <3>2, SubSeqProperties
  <2> HIDE DEF window
  <2>2. (\A k \in 1..Size : window[k] = checkSequence[k]) => window = checkSequence
    BY <1>1, <2>1, SameMembers
  <2> QED BY <2>1, <2>2
<1> QED BY <1>2, <1>3

(* Where there is a marker, there are its bytes.                           *)
LEMMA MarkerFits ==
  ASSUME NEW s \in Seq(Byte), NEW i \in Found(s)
  PROVE  i \in 1..Len(s) /\ i + Size \in 1..Len(s) + 1 /\ s # <<>>
<1>1. i \in Nat \ {0} /\ Len(s) \in Nat
  BY DEF Found
<1>2. i + Size - 1 <= Len(s)
  BY <1>1, FoundIs
<1> QED BY <1>1, <1>2, SizeIs

(* The rest of the rest.                                                   *)
LEMMA RestOfRest ==
  ASSUME NEW s \in Seq(Byte), NEW i \in 1..Len(s) + 1, NEW j \in 1..Len(s) + 2 - i
  PROVE  Rest(Rest(s, i), j) = Rest(s, i + j - 1)
<1> DEFINE r == Rest(s, i)
           h == i + j - 1
<1>1. Len(s) \in Nat /\ i \in Nat /\ j \in Nat /\ h \in 1..Len(s) + 1
  OBVIOUS
<1>2. r \in Seq(Byte) /\ Len(r) = Len(s) + 1 - i /\ \A k \in 1..Len(s) + 1 - i : r[k] = s[i + k - 1]
  BY RestIs
<1>3. j \in 1..Len(r) + 1 /\ Len(r) + 1 - j = Len(s) + 1 - h
  BY <1>1, <1>2
<1>4. Rest(s, h) \in Seq(Byte) /\ Len(Rest(s, h)) = Len(s) + 1 - h
      /\ \A k \in 1..Len(s) + 1 - h : Rest(s, h)[k] = s[h + k - 1]
  <2> HIDE DEF h
  <2> QED BY <1>1, RestIs
<1> HIDE DEF r
<1>5. Rest(r, j) \in Seq(Byte) /\ Len(Rest(r, j)) = Len(s) + 1 - h
      /\ \A k \in 1..Len(s) + 1 - h : Rest(r, j)[k] = r[j + k - 1]
  <2>1. Rest(r, j) \in Seq(Byte) /\ Len(Rest(r, j)) = Len(r) + 1 - j
        /\ \A k \in 1..Len(r) + 1 - j : Rest(r, j)[k] = r[j + k - 1]
    BY <1>2, <1>3, RestIs
  <2> HIDE DEF h
  <2> QED BY <1>3, <2>1
<1>6. ASSUME NEW k \in 1..Len(s) + 1 - h PROVE Rest(r, j)[k] = Rest(s, h)[k]
  <2>1. j + k - 1 \in 1..Len(s) + 1 - i /\ i + (j + k - 1) - 1 = h + k - 1
    BY <1>1
  <2>2. r[j + k - 1] = s[h + k - 1]
    BY <1>2, <2>1
  <2> QED BY <1>4, <1>5, <2>2
<1>7. Rest(r, j) = Rest(s, h)
  <2> HIDE DEF h
  <2> QED BY <1>4, <1>5, <1>6, SameMembers
<1> QED BY <1>7 DEF r

(* A marker in the rest is a marker, further on.                           *)
LEMMA FoundInRest ==
  ASSUME NEW s \in Seq(Byte), NEW i \in 1..Len(s) + 1
  PROVE  1 \in Found(Rest(s, i)) <=> i \in Found(s)
<1> DEFINE r == Rest(s, i)
<1>1. Len(s) \in Nat /\ i \in Nat \ {0} /\ Size \in Nat \ {0}
  BY SizeIs
<1>2. r \in Seq(Byte) /\ Len(r) = Len(s) + 1 - i /\ \A k \in 1..Len(s) + 1 - i : r[k] = s[i + k - 1]
  BY RestIs
<1> HIDE DEF r
<1>3. 1 \in Found(r) <=> 1 + Size - 1 <= Len(r) /\ \A k \in 1..Size : r[1 + k - 1] = checkSequence[k]
  BY <1>2, FoundIs
<1>4. i \in Found(s) <=> i + Size - 1 <= Len(s) /\ \A k \in 1..Size : s[i + k - 1] = checkSequence[k]
  BY <1>1, FoundIs
<1>5. 1 + Size - 1 <= Len(r) <=> i + Size - 1 <= Len(s)
  BY <1>1, <1>2
<1>6. ASSUME i + Size - 1 <= Len(s), NEW k \in 1..Size PROVE r[1 + k - 1] = s[i + k - 1]
  <2>1. k \in 1..Len(s) + 1 - i /\ 1 + k - 1 = k
    BY <1>1, <1>6
  <2> QED BY <1>2, <2>1
<1>7. 1 \in Found(r) <=> i \in Found(s)
  BY <1>3, <1>4, <1>5, <1>6
<1> QED BY <1>7 DEF r

(* A marker is where it is, whatever follows it.                           *)
LEMMA FoundInConcat ==
  ASSUME NEW s \in Seq(Byte), NEW d \in Seq(Byte), NEW i \in Nat \ {0}, i + Size - 1 <= Len(s)
  PROVE  i \in Found(s \o d) <=> i \in Found(s)
<1> DEFINE sd == s \o d
<1>1. /\ sd \in Seq(Byte) /\ Len(sd) = Len(s) + Len(d) /\ Len(s) \in Nat /\ Len(d) \in Nat
      /\ \A k \in 1..Len(s) : sd[k] = s[k]
  BY ConcatIs
<1> HIDE DEF sd
<1>2. Size \in Nat \ {0}
  BY SizeIs
<1>3. \A k \in 1..Size : sd[i + k - 1] = s[i + k - 1]
  <2>1. \A k \in 1..Size : i + k - 1 \in 1..Len(s)
    BY <1>1, <1>2
  <2> QED BY <1>1, <2>1
<1>4. i + Size - 1 <= Len(sd)
  BY <1>1, <1>2
<1>5. i \in Found(sd) <=> i \in Found(s)
  BY <1>1, <1>3, <1>4, FoundIs
<1> QED BY <1>5 DEF sd

(* Two markers have no byte in common.                                     *)
LEMMA NoOverlap ==
  ASSUME NEW s \in Seq(Byte), NEW i \in Found(s), NEW j \in Found(s), j < i
  PROVE  j + Size <= i
<1>1. i \in Nat \ {0} /\ j \in Nat \ {0} /\ Size \in Nat \ {0}
  BY MarkerFits, SizeIs
<1> SUFFICES ASSUME i < j + Size PROVE FALSE
  BY <1>1
<1> DEFINE k == i - j + 1
<1>2. k \in 2..Size /\ k \in 1..Size /\ j + k - 1 = i /\ i + 1 - 1 = i /\ 1 \in 1..Size
  BY <1>1
<1> HIDE DEF k
<1>3. s[j + k - 1] = checkSequence[k] /\ s[i + 1 - 1] = checkSequence[1]
  BY <1>1, <1>2, FoundIs
<1> QED BY <1>2, <1>3, SizeIs

-----------------------------------------------------------------------------
(***************************************************************************)
(* What Strip and Scan compute                                             *)
(***************************************************************************)

(* The reference takes a marker, or a byte, off a stream's beginning.      *)
LEMMA StripIs ==
  /\ Strip \in [Seq(Byte) -> [text : Seq(Byte), marks : Nat]]
  /\ Strip[<<>>] = [text |-> <<>>, marks |-> 0]
  /\ \A s \in Seq(Byte) : 1 \in Found(s) =>
       /\ Strip[s].text = Strip[Rest(s, Size + 1)].text
       /\ Strip[s].marks = Strip[Rest(s, Size + 1)].marks + 1
  /\ \A s \in Seq(Byte) \ {<<>>} : 1 \notin Found(s) =>
       /\ Strip[s].text = <<s[1]>> \o Strip[Rest(s, 2)].text
       /\ Strip[s].marks = Strip[Rest(s, 2)].marks
<1> DEFINE S == Seq(Byte)
           V == [text : Seq(Byte), marks : Nat]
           v == [text |-> <<>>, marks |-> 0]
           size == [s \in S |-> Len(s)]
           stop == {<<>>}
           base == [s \in stop |-> v]
           next(s) == IF 1 \in Found(s) THEN Rest(s, Size + 1) ELSE Tail(s)
           add(s, w) == IF 1 \in Found(s) THEN [text |-> w.text, marks |-> w.marks + 1]
                                           ELSE [text |-> <<Head(s)>> \o w.text, marks |-> w.marks]
           nxt == [s \in S \ stop |-> next(s)]
           comb == [s \in S \ stop |-> [w \in V |-> add(s, w)]]
<1>1. v \in V /\ size \in [S -> Nat] /\ stop \in SUBSET S /\ base \in [stop -> V]
  OBVIOUS
<1>2. ASSUME NEW s \in S \ stop PROVE next(s) \in S /\ Len(next(s)) < Len(s)
  <2>1. Len(s) \in Nat \ {0}
    OBVIOUS
  <2>2. CASE 1 \in Found(s)
    <3>1. Size + 1 \in 1..Len(s) + 1 /\ Size \in Nat \ {0}
      BY <2>2, MarkerFits, SizeIs
    <3>2. Rest(s, Size + 1) \in S /\ Len(Rest(s, Size + 1)) = Len(s) + 1 - (Size + 1)
      BY <3>1, RestIs
    <3> QED BY <2>1, <2>2, <3>1, <3>2
  <2>3. CASE 1 \notin Found(s)
    BY <2>1, <2>3
  <2> QED BY <2>2, <2>3
<1>3. nxt \in [S \ stop -> S] /\ \A s \in S \ stop : size[nxt[s]] < size[s]
  <2> HIDE DEF next, S
  <2> QED BY <1>2 DEF S
<1>4. ASSUME NEW s \in S \ stop, NEW w \in V PROVE add(s, w) \in V
  <2>1. <<Head(s)>> \o w.text \in Seq(Byte)
    OBVIOUS
  <2> QED BY <2>1
<1>5. comb \in [S \ stop -> [V -> V]]
  <2> HIDE DEF add, S, V
  <2> QED BY <1>4
<1> HIDE DEF S, V, v, size, stop, base, nxt, comb
<1>6. PICK f \in [S -> V] : \A s \in S : f[s] = IF s \in stop THEN base[s] ELSE comb[s][f[nxt[s]]]
  <2>1. Descends(S, V, v, size, stop, base, nxt, comb)
    BY <1>1, <1>3, <1>5 DEF Descends
  <2>2. Defines(S, V, stop, base, nxt, comb)
    BY <2>1, Recursion
  <2> QED BY <2>2 DEF Defines
<1> DEFINE body(g, s) == IF s = <<>> THEN v ELSE add(s, g[next(s)])
<1>7. f = [s \in S |-> body(f, s)]
  <2>1. ASSUME NEW s \in S PROVE f[s] = body(f, s)
    <3>1. CASE s = <<>>
      BY <1>6, <3>1 DEF stop, base
    <3>2. CASE s # <<>>
      <4>1. s \in S \ stop /\ f[s] = comb[s][f[nxt[s]]] /\ nxt[s] = next(s) /\ next(s) \in S
        BY <1>2, <1>6, <3>2 DEF stop, nxt
      <4>2. comb[s][f[next(s)]] = add(s, f[next(s)])
        <5>1. f[next(s)] \in V
          BY <4>1
        <5> HIDE DEF add, next
        <5> QED BY <4>1, <5>1 DEF comb
      <4> QED BY <3>2, <4>1, <4>2
    <3> QED BY <3>1, <3>2
  <2> HIDE DEF body
  <2> QED BY <2>1
<1>8. Strip = [s \in S |-> body(Strip, s)]
  <2>1. Strip = CHOOSE g : g = [s \in S |-> body(g, s)]
    BY DEF Strip, S, v
  <2> HIDE DEF body
  <2> QED BY <1>7, <2>1
<1>9. ASSUME NEW s \in S, s # <<>> PROVE Strip[s] = add(s, Strip[next(s)])
  BY <1>8, <1>9
<1>10. Strip[<<>>] = v /\ DOMAIN Strip = S
  <2> HIDE DEF add, next
  <2>1. <<>> \in S
    BY DEF S
  <2> QED BY <1>8, <2>1
<1>11. \A s \in S : Strip[s] \in V
  <2> DEFINE T == {s \in S : Strip[s] \in V}
  <2>1. ASSUME NEW s \in S, \A t \in S : Len(t) < Len(s) => t \in T
        PROVE  s \in T
    <3>1. CASE s = <<>>
      BY <1>1, <1>10, <3>1
    <3>2. CASE s # <<>>
      <4>1. s \in S \ stop
        BY <3>2 DEF stop
      <4> HIDE DEF add, next
      <4>2. Strip[next(s)] \in V
        BY <1>2, <2>1, <4>1
      <4> QED BY <1>4, <1>9, <3>2, <4>1, <4>2
    <3> QED BY <3>1, <3>2
  <2> HIDE DEF T
  <2>2. T \in SUBSET S
    BY DEF T
  <2>3. T = S
    BY <2>1, <2>2, ByLength DEF S
  <2> QED BY <2>3 DEF T
<1>12. Strip \in [S -> V]
  <2> HIDE DEF body
  <2> QED BY <1>8, <1>11
<1>13. \A s \in S \ {<<>>} : Head(s) = s[1] /\ Tail(s) = Rest(s, 2)
  BY TailIsSubSeq DEF S, Rest
<1>14. ASSUME NEW s \in S, 1 \in Found(s)
       PROVE  /\ Strip[s].text = Strip[Rest(s, Size + 1)].text
              /\ Strip[s].marks = Strip[Rest(s, Size + 1)].marks + 1
  <2>1. s # <<>>
    BY <1>14, MarkerFits DEF S
  <2>2. Strip[s] = add(s, Strip[next(s)])
    BY <1>9, <2>1
  <2> QED BY <1>14, <2>2
<1>15. ASSUME NEW s \in S \ {<<>>}, 1 \notin Found(s)
       PROVE  /\ Strip[s].text = <<s[1]>> \o Strip[Rest(s, 2)].text
              /\ Strip[s].marks = Strip[Rest(s, 2)].marks
  <2>1. Strip[s] = add(s, Strip[next(s)])
    BY <1>9
  <2>2. next(s) = Rest(s, 2) /\ Head(s) = s[1]
    BY <1>13, <1>15
  <2>3. add(s, Strip[Rest(s, 2)]) = [text |-> <<s[1]>> \o Strip[Rest(s, 2)].text,
                                    marks |-> Strip[Rest(s, 2)].marks]
    BY <1>15, <2>2
  <2> HIDE DEF next, add
  <2>4. Strip[s] = [text |-> <<s[1]>> \o Strip[Rest(s, 2)].text, marks |-> Strip[Rest(s, 2)].marks]
    BY <2>1, <2>2, <2>3
  <2> QED BY <2>4
<1> QED BY <1>10, <1>12, <1>14, <1>15 DEF S, V, v

(* What the reference does with n bytes at which no marker begins.         *)
Skips(s, n) ==
  /\ Strip[s].text = SubSeq(s, 1, n) \o Strip[Rest(s, n + 1)].text
  /\ Strip[s].marks = Strip[Rest(s, n + 1)].marks

(* One more of them.                                                       *)
LEMMA SkipOne ==
  ASSUME NEW s \in Seq(Byte), NEW n \in Nat, n < Len(s), Skips(s, n), n + 1 \notin Found(s)
  PROVE  Skips(s, n + 1)
<1> DEFINE r == Rest(s, n + 1)
           rr == Rest(s, n + 2)
           x == SubSeq(s, 1, n)
           y == Strip[rr].text
<1>1. Len(s) \in Nat /\ n + 1 \in 1..Len(s) + 1 /\ n + 2 \in 1..Len(s) + 1 /\ n \in 0..Len(s)
      /\ n + 1 \in 0..Len(s) /\ n + 1 \in 1..Len(s)
  OBVIOUS
<1>2. r \in Seq(Byte) /\ Len(r) = Len(s) + 1 - (n + 1) /\ r[1] = s[n + 1]
  <2>1. r \in Seq(Byte) /\ Len(r) = Len(s) + 1 - (n + 1)
        /\ \A k \in 1..Len(s) + 1 - (n + 1) : r[k] = s[(n + 1) + k - 1]
    BY <1>1, RestIs
  <2>2. 1 \in 1..Len(s) + 1 - (n + 1) /\ (n + 1) + 1 - 1 = n + 1
    BY <1>1
  <2> QED BY <2>1, <2>2
<1>3. r # <<>> /\ 1 \notin Found(r)
  BY <1>1, <1>2, FoundInRest
<1>4. Rest(r, 2) = rr
  <2>1. 2 \in 1..Len(s) + 2 - (n + 1) /\ (n + 1) + 2 - 1 = n + 2
    BY <1>1
  <2> QED BY <1>1, <2>1, RestOfRest
<1>5. rr \in Seq(Byte)
  BY <1>1, RestIs
<1>6. y \in Seq(Byte) /\ x \in Seq(Byte) /\ <<s[n + 1]>> \in Seq(Byte)
  <2>1. y \in Seq(Byte)
    BY <1>5, StripIs
  <2>2. x \in Seq(Byte)
    BY <1>1, FrontIs
  <2>3. s[n + 1] \in Byte
    BY <1>1
  <2> QED BY <2>1, <2>2, <2>3
<1>7. Strip[r].text = <<s[n + 1]>> \o y /\ Strip[r].marks = Strip[rr].marks
  <2> HIDE DEF r, rr
  <2> QED BY <1>2, <1>3, <1>4, StripIs
<1>8. x \o <<s[n + 1]>> = SubSeq(s, 1, n + 1)
  <2>1. SubSeq(s, 1, n + 1) = SubSeq(s, 1, (n + 1) - 1) \o <<s[n + 1]>>
    <3>1. 1 \in 1..Len(s) /\ n + 1 \in 1..Len(s)
      BY <1>1
    <3> QED BY <3>1, SubSeqRecursiveSecond
  <2>2. (n + 1) - 1 = n
    OBVIOUS
  <2> QED BY <2>1, <2>2
<1>9. (x \o <<s[n + 1]>>) \o y = x \o (<<s[n + 1]>> \o y)
  <2> HIDE DEF x, y
  <2> QED BY <1>6, ConcatAssoc
<1>10. (n + 1) + 1 = n + 2
  OBVIOUS
<1> HIDE DEF x, y, r, rr
<1>11. Strip[s].text = x \o Strip[r].text /\ Strip[s].marks = Strip[r].marks
  BY DEF Skips, x, r
<1>12. Strip[s].text = SubSeq(s, 1, n + 1) \o y /\ Strip[s].marks = Strip[rr].marks
  BY <1>7, <1>8, <1>9, <1>11
<1> QED BY <1>10, <1>12 DEF Skips, y, rr

(* Bytes at which no marker begins are passed on.                          *)
LEMMA SkipPlain ==
  ASSUME NEW s \in Seq(Byte), NEW n \in 0..Len(s), \A i \in 1..n : i \notin Found(s)
  PROVE  Skips(s, n)
<1> DEFINE T == {m \in Nat : m <= n => Skips(s, m)}
<1>1. ASSUME NEW m \in Nat, \A k \in Nat : k < m => k \in T
      PROVE  m \in T
  <2>1. CASE m = 0
    <3>1. SubSeq(s, 1, 0) = <<>> /\ Rest(s, 1) = s
      BY SubSeqFull DEF Rest
    <3>2. Strip[s].text \in Seq(Byte)
      BY StripIs
    <3>3. <<>> \o Strip[s].text = Strip[s].text
      BY <3>2, ConcatEmptySeq
    <3>4. 0 + 1 = 1
      OBVIOUS
    <3> QED BY <2>1, <3>1, <3>3, <3>4 DEF Skips
  <2>2. CASE m # 0 /\ m <= n
    <3> DEFINE k == m - 1
    <3>1. k \in Nat /\ k < m /\ k <= n /\ k + 1 = m /\ k < Len(s) /\ k + 1 \in 1..n
      BY <2>2
    <3> HIDE DEF k
    <3>2. Skips(s, k)
      BY <1>1, <3>1
    <3>3. Skips(s, k + 1)
      BY <3>1, <3>2, SkipOne
    <3> QED BY <3>1, <3>3
  <2> QED BY <2>1, <2>2
<1> HIDE DEF T
<1>2. T \in SUBSET Nat
  BY DEF T
<1>3. T = Nat
  BY <1>1, <1>2, Induct
<1>4. n \in Nat /\ n <= n
  OBVIOUS
<1> QED BY <1>3, <1>4 DEF T

(* The first marker is taken out.                                          *)
LEMMA SkipMarker ==
  ASSUME NEW s \in Seq(Byte), NEW i \in Found(s), \A j \in 1..i - 1 : j \notin Found(s)
  PROVE  /\ Strip[s].text = SubSeq(s, 1, i - 1) \o Strip[Rest(s, i + Size)].text
         /\ Strip[s].marks = Strip[Rest(s, i + Size)].marks + 1
<1>1. Len(s) \in Nat /\ i \in 1..Len(s) /\ i + Size \in 1..Len(s) + 1 /\ Size \in Nat \ {0}
  BY MarkerFits, SizeIs
<1>2. i - 1 \in 0..Len(s) /\ (i - 1) + 1 = i /\ i \in 1..Len(s) + 1
  BY <1>1
<1>3. Skips(s, i - 1)
  BY <1>2, SkipPlain
<1>4. Rest(s, i) \in Seq(Byte) /\ 1 \in Found(Rest(s, i))
  BY <1>2, RestIs, FoundInRest
<1>5. Rest(Rest(s, i), Size + 1) = Rest(s, i + Size)
  <2>1. Size + 1 \in 1..Len(s) + 2 - i /\ i + (Size + 1) - 1 = i + Size
    BY <1>1
  <2> QED BY <1>2, <2>1, RestOfRest
<1> QED BY <1>2, <1>3, <1>4, <1>5, StripIs DEF Skips
-----------------------------------------------------------------------------
(***************************************************************************)
(* What the code looks for in a read                                       *)
(***************************************************************************)

(* The code's Min and Max are in the set they are taken of.                *)
LEMMA MinIs ==
  ASSUME NEW T \in SUBSET Nat, T # {}
  PROVE  Min(T) \in T /\ \A n \in T : Min(T) <= n
<1>1. \E m \in T : \A n \in T : m <= n
  BY Least
<1> QED BY <1>1 DEF Min

(* And so is Max, of a set that is bounded.                                *)
LEMMA MaxIs ==
  ASSUME NEW T \in SUBSET Nat, T # {}, NEW N \in Nat, \A n \in T : n <= N
  PROVE  Max(T) \in T /\ \A n \in T : n <= Max(T)
<1> DEFINE U == {N - n : n \in T}
<1>1. U \in SUBSET Nat /\ U # {}
  <2>1. \A n \in T : N - n \in Nat
    OBVIOUS
  <2>2. \E n \in T : N - n \in U
    OBVIOUS
  <2> QED BY <2>1, <2>2
<1>2. PICK u \in U : \A w \in U : u <= w
  <2> HIDE DEF U
  <2> QED BY <1>1, Least
<1>3. PICK m \in T : u = N - m
  OBVIOUS
<1>4. \A n \in T : m >= n
  BY <1>2, <1>3
<1> QED BY <1>4 DEF Max

(* bytes.Index gives the first marker.                                     *)
LEMMA IndexIs ==
  ASSUME NEW s \in Seq(Byte)
  PROVE  /\ Index(s) = 0 => \A j \in Nat : j \notin Found(s)
         /\ Index(s) # 0 => Index(s) \in Found(s) /\ \A j \in 1..Index(s) - 1 : j \notin Found(s)
<1>1. Found(s) \in SUBSET Nat /\ 0 \notin Found(s)
  BY DEF Found
<1>2. CASE Found(s) = {}
  BY <1>2 DEF Index
<1>3. CASE Found(s) # {}
  <2>1. Index(s) \in Found(s) /\ \A j \in Found(s) : Index(s) <= j
    BY <1>1, <1>3, MinIs DEF Index
  <2>2. \A j \in 1..Index(s) - 1 : j \notin Found(s)
    BY <1>1, <2>1
  <2> QED BY <1>1, <2>1, <2>2
<1> QED BY <1>2, <1>3

(* Does s end with the first n bytes of the marker?                        *)
EndsWith(s, n) == Rest(s, Len(s) - n + 1) = SubSeq(checkSequence, 1, n)

(* markerPrefix gives the longest end that may be the beginning of one.    *)
LEMMA PrefixIs ==
  ASSUME NEW s \in Seq(Byte)
  PROVE  /\ markerPrefix(s) \in 0..Len(s) /\ markerPrefix(s) < Size
         /\ EndsWith(s, markerPrefix(s))
         /\ \A n \in 1..Len(s) : n < Size /\ EndsWith(s, n) => n <= markerPrefix(s)
<1> DEFINE least == Min({Len(s), Size - 1})
           T == {0} \cup {n \in 1..least : EndsWith(s, n)}
<1>1. Len(s) \in Nat /\ Size \in Nat \ {0}
  BY SizeIs
<1>2. least \in Nat /\ least <= Len(s) /\ least < Size /\ (least = Len(s) \/ least = Size - 1)
  <2>1. {Len(s), Size - 1} \in SUBSET Nat
    BY <1>1
  <2>2. least \in {Len(s), Size - 1} /\ \A n \in {Len(s), Size - 1} : least <= n
    BY <2>1, MinIs
  <2> HIDE DEF least
  <2> QED BY <1>1, <2>2
<1>3. EndsWith(s, 0)
  <2>1. Rest(s, Len(s) - 0 + 1) = <<>>
    BY <1>1, SubSeqEmpty DEF Rest
  <2>2. SubSeq(checkSequence, 1, 0) = <<>>
    BY SubSeqEmpty
  <2> QED BY <2>1, <2>2 DEF EndsWith
<1>4. markerPrefix(s) = Max(T)
  BY DEF markerPrefix, EndsWith
<1> HIDE DEF least
<1>5. T \in SUBSET Nat /\ T # {} /\ \A n \in T : n <= least
  BY <1>2
<1>6. Max(T) \in T /\ \A n \in T : n <= Max(T)
  <2> HIDE DEF T
  <2> QED BY <1>2, <1>5, MaxIs
<1>7. \A n \in T : EndsWith(s, n)
  BY <1>3
<1>8. \A n \in 1..Len(s) : n < Size /\ EndsWith(s, n) => n \in T
  <2>1. \A n \in 1..Len(s) : n < Size => n \in 1..least
    BY <1>1, <1>2
  <2> QED BY <2>1
<1> HIDE DEF T
<1>9. Max(T) \in 0..Len(s) /\ Max(T) < Size
  <2>1. \A n \in Nat : n <= least => n \in 0..Len(s) /\ n < Size
    BY <1>1, <1>2
  <2>2. Max(T) \in Nat /\ Max(T) <= least
    BY <1>5, <1>6
  <2> QED BY <2>1, <2>2
<1>10. EndsWith(s, Max(T)) /\ \A n \in 1..Len(s) : n < Size /\ EndsWith(s, n) => n <= Max(T)
  BY <1>6, <1>7, <1>8
<1> QED BY <1>4, <1>9, <1>10

(* write, over one read: up to the last marker, marker by marker, then the *)
(* bytes that cannot begin another.                                        *)
LEMMA ScanIs ==
  /\ Scan \in [Seq(Byte) -> [sent : Seq(Byte), marks : Nat, pending : Seq(Byte)]]
  /\ \A s \in Seq(Byte) : Index(s) = 0 =>
       /\ Scan[s].sent = SubSeq(s, 1, Len(s) - markerPrefix(s))
       /\ Scan[s].marks = 0
       /\ Scan[s].pending = Rest(s, Len(s) - markerPrefix(s) + 1)
  /\ \A s \in Seq(Byte) : Index(s) # 0 =>
       /\ Scan[s].sent = SubSeq(s, 1, Index(s) - 1) \o Scan[Rest(s, Index(s) + Size)].sent
       /\ Scan[s].marks = Scan[Rest(s, Index(s) + Size)].marks + 1
       /\ Scan[s].pending = Scan[Rest(s, Index(s) + Size)].pending
<1> DEFINE S == Seq(Byte)
           V == [sent : Seq(Byte), marks : Nat, pending : Seq(Byte)]
           v == [sent |-> <<>>, marks |-> 0, pending |-> <<>>]
           size == [s \in S |-> Len(s)]
           stop == {s \in S : Index(s) = 0}
           last(s) == [sent    |-> SubSeq(s, 1, Len(s) - markerPrefix(s)),
                       marks   |-> 0,
                       pending |-> Rest(s, Len(s) - markerPrefix(s) + 1)]
           next(s) == Rest(s, Index(s) + Size)
           add(s, w) == [sent    |-> SubSeq(s, 1, Index(s) - 1) \o w.sent,
                         marks   |-> w.marks + 1,
                         pending |-> w.pending]
           base == [s \in stop |-> last(s)]
           nxt == [s \in S \ stop |-> next(s)]
           comb == [s \in S \ stop |-> [w \in V |-> add(s, w)]]
<1>1. v \in V /\ size \in [S -> Nat] /\ stop \in SUBSET S
  OBVIOUS
<1>2. ASSUME NEW s \in S PROVE last(s) \in V
  <2>1. Len(s) - markerPrefix(s) \in 0..Len(s) /\ Len(s) - markerPrefix(s) + 1 \in 1..Len(s) + 1
    <3>1. Len(s) \in Nat /\ markerPrefix(s) \in 0..Len(s)
      BY PrefixIs
    <3> QED BY <3>1
  <2>2. SubSeq(s, 1, Len(s) - markerPrefix(s)) \in Seq(Byte)
    BY <2>1, FrontIs
  <2>3. Rest(s, Len(s) - markerPrefix(s) + 1) \in Seq(Byte)
    BY <2>1, RestIs
  <2> QED BY <2>2, <2>3
<1>3. ASSUME NEW s \in S \ stop
      PROVE  /\ next(s) \in S /\ Len(next(s)) < Len(s)
             /\ SubSeq(s, 1, Index(s) - 1) \in Seq(Byte)
  <2>1. Index(s) \in Found(s)
    BY <1>3, IndexIs
  <2>2. Index(s) \in 1..Len(s) /\ Index(s) + Size \in 1..Len(s) + 1 /\ Size \in Nat \ {0}
        /\ Len(s) \in Nat
    BY <1>3, <2>1, MarkerFits, SizeIs
  <2>3. Index(s) - 1 \in 0..Len(s)
    BY <2>2
  <2>4. next(s) \in S /\ Len(next(s)) = Len(s) + 1 - (Index(s) + Size)
    BY <1>3, <2>2, RestIs
  <2>5. Len(s) + 1 - (Index(s) + Size) < Len(s)
    BY <2>2
  <2> QED BY <1>3, <2>3, <2>4, <2>5, FrontIs
<1>4. nxt \in [S \ stop -> S] /\ \A s \in S \ stop : size[nxt[s]] < size[s]
  <2> HIDE DEF next, S, stop
  <2> QED BY <1>3 DEF S
<1>5. ASSUME NEW s \in S \ stop, NEW w \in V PROVE add(s, w) \in V
  <2>1. SubSeq(s, 1, Index(s) - 1) \o w.sent \in Seq(Byte)
    <3>1. w.sent \in Seq(Byte)
      OBVIOUS
    <3> HIDE DEF stop
    <3> QED BY <1>3, <3>1, ConcatIs
  <2> QED BY <2>1
<1>6. base \in [stop -> V] /\ comb \in [S \ stop -> [V -> V]]
  <2>1. stop \in SUBSET S
    BY <1>1
  <2> HIDE DEF add, last, S, V, stop
  <2> QED BY <1>2, <1>5, <2>1
<1>7. \A s \in S : s \in stop <=> Index(s) = 0
  OBVIOUS
<1> HIDE DEF S, V, v, size, stop, base, nxt, comb
<1>8. PICK f \in [S -> V] : \A s \in S : f[s] = IF s \in stop THEN base[s] ELSE comb[s][f[nxt[s]]]
  <2>1. Descends(S, V, v, size, stop, base, nxt, comb)
    BY <1>1, <1>4, <1>6 DEF Descends
  <2>2. Defines(S, V, stop, base, nxt, comb)
    BY <2>1, Recursion
  <2> QED BY <2>2 DEF Defines
<1> DEFINE body(g, s) == IF Index(s) = 0 THEN last(s) ELSE add(s, g[next(s)])
<1>9. f = [s \in S |-> body(f, s)]
  <2>1. ASSUME NEW s \in S PROVE f[s] = body(f, s)
    <3>1. CASE Index(s) = 0
      <4> HIDE DEF last
      <4> QED BY <1>7, <1>8, <3>1 DEF base
    <3>2. CASE Index(s) # 0
      <4>1. s \in S \ stop
        BY <1>7, <3>2
      <4> HIDE DEF add, next
      <4>2. f[s] = comb[s][f[nxt[s]]] /\ nxt[s] = next(s) /\ next(s) \in S
        BY <1>3, <1>8, <4>1 DEF nxt
      <4>3. f[next(s)] \in V
        BY <4>2
      <4>4. comb[s][f[next(s)]] = add(s, f[next(s)])
        BY <4>1, <4>3 DEF comb
      <4> QED BY <3>2, <4>2, <4>4
    <3> QED BY <3>1, <3>2
  <2> HIDE DEF body
  <2> QED BY <2>1
<1>10. Scan = [s \in S |-> body(Scan, s)]
  <2>1. Scan = CHOOSE g : g = [s \in S |-> body(g, s)]
    BY DEF Scan, S
  <2> HIDE DEF body
  <2> QED BY <1>9, <2>1
<1>11. ASSUME NEW s \in S
       PROVE  /\ Index(s) = 0 => Scan[s] = last(s)
              /\ Index(s) # 0 => Scan[s] = add(s, Scan[next(s)])
  <2> HIDE DEF add, next, last
  <2> QED BY <1>10
<1>12. \A s \in S : Scan[s] \in V
  <2> DEFINE T == {s \in S : Scan[s] \in V}
  <2>1. ASSUME NEW s \in S, \A t \in S : Len(t) < Len(s) => t \in T
        PROVE  s \in T
    <3> HIDE DEF add, next, last
    <3>1. CASE Index(s) = 0
      BY <1>2, <1>11, <3>1
    <3>2. CASE Index(s) # 0
      <4>1. s \in S \ stop
        BY <1>7, <3>2
      <4>2. Scan[next(s)] \in V
        BY <1>3, <2>1, <4>1
      <4> QED BY <1>5, <1>11, <3>2, <4>1, <4>2
    <3> QED BY <3>1, <3>2
  <2> HIDE DEF T
  <2>2. T \in SUBSET S
    BY DEF T
  <2>3. T = S
    BY <2>1, <2>2, ByLength DEF S
  <2> QED BY <2>3 DEF T
<1>13. Scan \in [S -> V]
  <2> HIDE DEF body
  <2> QED BY <1>10, <1>12
<1>14. ASSUME NEW s \in S, Index(s) = 0
       PROVE  /\ Scan[s].sent = SubSeq(s, 1, Len(s) - markerPrefix(s))
              /\ Scan[s].marks = 0
              /\ Scan[s].pending = Rest(s, Len(s) - markerPrefix(s) + 1)
  <2> DEFINE a == SubSeq(s, 1, Len(s) - markerPrefix(s))
             b == Rest(s, Len(s) - markerPrefix(s) + 1)
  <2>1. Scan[s] = [sent |-> a, marks |-> 0, pending |-> b]
    BY <1>11, <1>14
  <2> HIDE DEF a, b
  <2>2. Scan[s].sent = a /\ Scan[s].marks = 0 /\ Scan[s].pending = b
    BY <2>1
  <2> QED BY <2>2 DEF a, b
<1>15. ASSUME NEW s \in S, Index(s) # 0
       PROVE  /\ Scan[s].sent = SubSeq(s, 1, Index(s) - 1) \o Scan[Rest(s, Index(s) + Size)].sent
              /\ Scan[s].marks = Scan[Rest(s, Index(s) + Size)].marks + 1
              /\ Scan[s].pending = Scan[Rest(s, Index(s) + Size)].pending
  <2> DEFINE w == Scan[Rest(s, Index(s) + Size)]
             a == SubSeq(s, 1, Index(s) - 1) \o w.sent
             b == w.marks + 1
  <2>1. Scan[s] = [sent |-> a, marks |-> b, pending |-> w.pending]
    BY <1>11, <1>15
  <2> HIDE DEF a, b, w
  <2>2. Scan[s].sent = a /\ Scan[s].marks = b /\ Scan[s].pending = w.pending
    BY <2>1
  <2> QED BY <2>2 DEF a, b, w
<1> QED BY <1>13, <1>14, <1>15 DEF S, V

(* What write keeps back is a beginning of the marker.                     *)
LEMMA PendingIs ==
  \A s \in Seq(Byte) : /\ Scan[s].pending \in Seq(Byte)
                       /\ Len(Scan[s].pending) < Size
                       /\ Scan[s].pending = SubSeq(checkSequence, 1, Len(Scan[s].pending))
<1> DEFINE Kept(p) == p \in Seq(Byte) /\ Len(p) < Size /\ p = SubSeq(checkSequence, 1, Len(p))
           T == {s \in Seq(Byte) : Kept(Scan[s].pending)}
<1>1. ASSUME NEW s \in Seq(Byte), \A t \in Seq(Byte) : Len(t) < Len(s) => t \in T
      PROVE  s \in T
  <2>1. CASE Index(s) = 0
    <3> DEFINE k == markerPrefix(s)
               r == Rest(s, Len(s) - k + 1)
    <3>1. k \in 0..Len(s) /\ k < Size /\ r = SubSeq(checkSequence, 1, k)
      BY PrefixIs DEF EndsWith
    <3>2. Len(s) - k + 1 \in 1..Len(s) + 1 /\ Len(s) + 1 - (Len(s) - k + 1) = k
      BY <3>1
    <3>3. r \in Seq(Byte) /\ Len(r) = Len(s) + 1 - (Len(s) - k + 1)
      <4> HIDE DEF k
      <4> QED BY <3>2, RestIs
    <3>4. Scan[s].pending = r
      BY <2>1, ScanIs
    <3> HIDE DEF k, r
    <3>5. Kept(r)
      BY <3>1, <3>2, <3>3
    <3> QED BY <3>4, <3>5
  <2>2. CASE Index(s) # 0
    <3> DEFINE t == Rest(s, Index(s) + Size)
    <3>1. Index(s) \in Found(s)
      BY <2>2, IndexIs
    <3>2. Index(s) \in 1..Len(s) /\ Index(s) + Size \in 1..Len(s) + 1 /\ Size \in Nat \ {0}
          /\ Len(s) \in Nat
      BY <3>1, MarkerFits, SizeIs
    <3>3. t \in Seq(Byte) /\ Len(t) = Len(s) + 1 - (Index(s) + Size)
      BY <3>2, RestIs
    <3>4. Scan[s].pending = Scan[t].pending
      BY <2>2, ScanIs
    <3> HIDE DEF t
    <3>5. Len(t) < Len(s)
      BY <3>2, <3>3
    <3>6. Kept(Scan[t].pending)
      BY <1>1, <3>3, <3>5
    <3> HIDE DEF Kept
    <3> QED BY <3>4, <3>6
  <2> QED BY <2>1, <2>2
<1> HIDE DEF T
<1>2. T \in SUBSET Seq(Byte)
  BY DEF T
<1>3. T = Seq(Byte)
  BY <1>1, <1>2, ByLength
<1> QED BY <1>3 DEF T

(* The first marker of a read is the first, whatever follows the read.     *)
LEMMA FirstStays ==
  ASSUME NEW s \in Seq(Byte), NEW d \in Seq(Byte), NEW i \in Found(s),
         \A j \in 1..i - 1 : j \notin Found(s)
  PROVE  i \in Found(s \o d) /\ \A j \in 1..i - 1 : j \notin Found(s \o d)
<1>1. i \in Nat \ {0} /\ Size \in Nat \ {0} /\ Len(s) \in Nat /\ i + Size - 1 <= Len(s)
  <2>1. i \in Nat \ {0}
    BY MarkerFits
  <2> QED BY <2>1, FoundIs, SizeIs
<1>2. s \o d \in Seq(Byte) /\ i \in Found(s \o d)
  BY <1>1, ConcatIs, FoundInConcat
<1>3. ASSUME NEW j \in 1..i - 1, j \in Found(s \o d) PROVE FALSE
  <2>1. j + Size <= i
    <3>1. j < i
      BY <1>1
    <3> QED BY <1>2, <1>3, <3>1, NoOverlap
  <2>2. j \in Nat \ {0} /\ j + Size - 1 <= Len(s)
    BY <1>1, <2>1
  <2>3. j \in Found(s)
    BY <1>3, <2>2, FoundInConcat
  <2> QED BY <1>3, <2>3
<1> QED BY <1>2, <1>3

(* No marker begins in what a read without one passes on, whatever follows *)
(* the read: it would be the beginning markerPrefix looks for.             *)
LEMMA HeldBack ==
  ASSUME NEW s \in Seq(Byte), NEW d \in Seq(Byte), \A j \in Nat : j \notin Found(s)
  PROVE  \A j \in 1..Len(s) - markerPrefix(s) : j \notin Found(s \o d)
<1> DEFINE sd == s \o d
           p == markerPrefix(s)
<1>1. /\ sd \in Seq(Byte) /\ Len(s) \in Nat /\ Size \in Nat \ {0} /\ p \in 0..Len(s)
      /\ checkSequence \in Seq(Byte) /\ Len(checkSequence) = Size
      /\ \A k \in 1..Len(s) : sd[k] = s[k]
  BY ConcatIs, PrefixIs, SizeIs DEF Size
<1>2. ASSUME NEW j \in 1..Len(s) - p, j \in Found(sd) PROVE FALSE
  <2> DEFINE m == Len(s) - j + 1
             c == SubSeq(checkSequence, 1, m)
  <2>1. j \in Nat \ {0} /\ j \in 1..Len(s) + 1 /\ m \in 1..Len(s) /\ m > p
        /\ Len(s) + 1 - j = m /\ Len(s) - m + 1 = j
    BY <1>1
  <2>2. j + Size - 1 > Len(s)
    <3>1. ASSUME j + Size - 1 <= Len(s) PROVE FALSE
      <4>1. j \in Found(s)
        BY <1>2, <2>1, <3>1, FoundInConcat
      <4> QED BY <2>1, <4>1
    <3> QED BY <1>1, <3>1
  <2>3. m < Size /\ m \in 0..Len(checkSequence) /\ 1..m \subseteq 1..Size
    BY <1>1, <2>1, <2>2
  <2> HIDE DEF sd, m
  <2>4. \A k \in 1..Size : sd[j + k - 1] = checkSequence[k]
    BY <1>1, <1>2, <2>1, FoundIs
  <2>5. Rest(s, j) \in Seq(Byte) /\ Len(Rest(s, j)) = m /\ \A k \in 1..m : Rest(s, j)[k] = s[j + k - 1]
    BY <2>1, RestIs
  <2>6. c \in Seq(Byte) /\ Len(c) = m /\ \A k \in 1..m : c[k] = checkSequence[k]
    BY <1>1, <2>3, FrontIs
  <2> HIDE DEF c
  <2>7. \A k \in 1..m : j + k - 1 \in 1..Len(s)
    BY <1>1, <2>1
  <2>8. \A k \in 1..m : Rest(s, j)[k] = c[k]
    BY <1>1, <2>3, <2>4, <2>5, <2>6, <2>7
  <2>9. Rest(s, j) = c
    BY <2>5, <2>6, <2>8, SameMembers
  <2>10. EndsWith(s, m)
    BY <2>1, <2>9 DEF EndsWith, c
  <2>11. m <= p
    <3> HIDE DEF p
    <3> QED BY <2>1, <2>3, <2>10, PrefixIs DEF p
  <2> QED BY <1>1, <2>1, <2>11
<1> QED BY <1>2

(* The beginning of a stream is the same whatever follows.                 *)
LEMMA FrontOfConcat ==
  ASSUME NEW s \in Seq(Byte), NEW d \in Seq(Byte), NEW n \in 0..Len(s)
  PROVE  SubSeq(s \o d, 1, n) = SubSeq(s, 1, n)
<1> DEFINE sd == s \o d
           a == SubSeq(sd, 1, n)
           b == SubSeq(s, 1, n)
<1>1. sd \in Seq(Byte) /\ n \in 0..Len(sd) /\ 1..n \subseteq 1..Len(s)
      /\ \A k \in 1..Len(s) : sd[k] = s[k]
  BY ConcatIs
<1> HIDE DEF sd
<1>2. a \in Seq(Byte) /\ Len(a) = n /\ \A k \in 1..n : a[k] = sd[k]
  BY <1>1, FrontIs
<1>3. b \in Seq(Byte) /\ Len(b) = n /\ \A k \in 1..n : b[k] = s[k]
  BY FrontIs
<1> HIDE DEF a, b
<1>4. a = b
  <2>1. \A k \in 1..n : a[k] = b[k]
    BY <1>1, <1>2, <1>3
  <2> QED BY <1>2, <1>3, <2>1, SameMembers
<1> QED BY <1>4 DEF a, b, sd

(* Read in one piece or in two, the reference finds the same.              *)
Agrees(s, d) ==
  /\ Strip[s \o d].text = Scan[s].sent \o Strip[Scan[s].pending \o d].text
  /\ Strip[s \o d].marks = Scan[s].marks + Strip[Scan[s].pending \o d].marks

(* A read without a marker.                                                *)
LEMMA AgreesPlain ==
  ASSUME NEW s \in Seq(Byte), NEW d \in Seq(Byte), Index(s) = 0
  PROVE  Agrees(s, d)
<1> DEFINE n == Len(s) - markerPrefix(s)
           sd == s \o d
           r == Rest(s, n + 1)
<1>1. n \in 0..Len(s) /\ n + 1 \in 1..Len(s) + 1
  BY PrefixIs
<1>2. sd \in Seq(Byte) /\ n \in 0..Len(sd) /\ r \in Seq(Byte)
  <2>1. sd \in Seq(Byte) /\ Len(sd) = Len(s) + Len(d) /\ Len(s) \in Nat /\ Len(d) \in Nat
    BY ConcatIs
  <2>2. n \in 0..Len(sd)
    BY <1>1, <2>1
  <2> HIDE DEF n
  <2> QED BY <1>1, <2>1, <2>2, RestIs
<1>3. \A j \in 1..n : j \notin Found(sd)
  BY IndexIs, HeldBack
<1>4. Scan[s].sent = SubSeq(s, 1, n) /\ Scan[s].marks = 0 /\ Scan[s].pending = r
  BY ScanIs
<1> HIDE DEF n
<1>5. SubSeq(sd, 1, n) = SubSeq(s, 1, n) /\ Rest(sd, n + 1) = r \o d
  BY <1>1, FrontOfConcat, RestOfConcat
<1>6. Strip[r \o d].marks \in Nat
  <2>1. r \o d \in Seq(Byte)
    BY <1>2, ConcatIs
  <2> QED BY <2>1, StripIs
<1> HIDE DEF sd, r
<1>7. Skips(sd, n)
  BY <1>2, <1>3, SkipPlain
<1>8. Strip[sd].text = SubSeq(s, 1, n) \o Strip[r \o d].text /\ Strip[sd].marks = Strip[r \o d].marks
  BY <1>5, <1>7 DEF Skips
<1>9. 0 + Strip[r \o d].marks = Strip[r \o d].marks
  BY <1>6
<1> QED BY <1>4, <1>8, <1>9 DEF Agrees, sd

(* A read with a marker, from what holds of the rest of it.                *)
LEMMA AgreesMarker ==
  ASSUME NEW s \in Seq(Byte), NEW d \in Seq(Byte), Index(s) # 0,
         Agrees(Rest(s, Index(s) + Size), d)
  PROVE  Agrees(s, d)
<1> DEFINE i == Index(s)
           t == Rest(s, i + Size)
           sd == s \o d
           x == SubSeq(s, 1, i - 1)
           y == Scan[t].sent
           p == Scan[t].pending
           z == Strip[p \o d].text
           m == Strip[p \o d].marks
<1>1. i \in Found(s) /\ \A j \in 1..i - 1 : j \notin Found(s)
  BY IndexIs
<1>2. i \in 1..Len(s) /\ i + Size \in 1..Len(s) + 1 /\ i - 1 \in 0..Len(s)
  <2> HIDE DEF i
  <2> QED BY <1>1, MarkerFits
<1>3. Scan[s].sent = x \o y /\ Scan[s].marks = Scan[t].marks + 1 /\ Scan[s].pending = p
  BY ScanIs
<1>4. Strip[t \o d].text = y \o z /\ Strip[t \o d].marks = Scan[t].marks + m
  BY DEF Agrees
<1> HIDE DEF i
<1>5. sd \in Seq(Byte) /\ t \in Seq(Byte) /\ x \in Seq(Byte)
  BY <1>2, ConcatIs, RestIs, FrontIs
<1>6. y \in Seq(Byte) /\ p \in Seq(Byte) /\ Scan[t].marks \in Nat
  <2> HIDE DEF t
  <2>1. Scan[t] \in [sent : Seq(Byte), marks : Nat, pending : Seq(Byte)]
    BY <1>5, ScanIs
  <2> QED BY <2>1
<1>7. z \in Seq(Byte) /\ m \in Nat
  <2> HIDE DEF p
  <2>1. p \o d \in Seq(Byte)
    BY <1>6, ConcatIs
  <2>2. Strip[p \o d] \in [text : Seq(Byte), marks : Nat]
    BY <2>1, StripIs
  <2> QED BY <2>2
<1>8. SubSeq(sd, 1, i - 1) = x /\ Rest(sd, i + Size) = t \o d
  BY <1>2, FrontOfConcat, RestOfConcat
<1>9. i \in Found(sd) /\ \A j \in 1..i - 1 : j \notin Found(sd)
  BY <1>1, FirstStays
<1> HIDE DEF sd
<1>10. Strip[sd].text = SubSeq(sd, 1, i - 1) \o Strip[Rest(sd, i + Size)].text
       /\ Strip[sd].marks = Strip[Rest(sd, i + Size)].marks + 1
  BY <1>5, <1>9, SkipMarker
<1>11. Strip[sd].text = x \o (y \o z) /\ Strip[sd].marks = (Scan[t].marks + m) + 1
  <2> HIDE DEF t, x, y, z, p, m
  <2> QED BY <1>4, <1>8, <1>10
<1>12. (x \o y) \o z = x \o (y \o z)
  <2>1. x \in Seq(Byte) /\ y \in Seq(Byte) /\ z \in Seq(Byte)
    BY <1>5, <1>6, <1>7
  <2> HIDE DEF x, y, z
  <2> QED BY <2>1, ConcatAssoc
<1>13. (Scan[t].marks + m) + 1 = (Scan[t].marks + 1) + m
  <2> HIDE DEF m, t
  <2> QED BY <1>6, <1>7
<1>14. Strip[sd].text = Scan[s].sent \o z /\ Strip[sd].marks = Scan[s].marks + m
  <2> HIDE DEF t, x, y, z, p, m
  <2> QED BY <1>3, <1>11, <1>12, <1>13
<1>15. z = Strip[Scan[s].pending \o d].text /\ m = Strip[Scan[s].pending \o d].marks
  <2>1. Scan[s].pending = p
    BY <1>3
  <2> HIDE DEF p
  <2> QED BY <2>1
<1> HIDE DEF z, m
<1> QED BY <1>14, <1>15 DEF Agrees, sd

(* write removes from a read what the reference does, and what it keeps    *)
(* back is all the reference has to know of that read.                     *)
LEMMA ScanAgrees == \A s, d \in Seq(Byte) : Agrees(s, d)
<1> DEFINE T == {s \in Seq(Byte) : \A d \in Seq(Byte) : Agrees(s, d)}
<1>1. ASSUME NEW s \in Seq(Byte), \A t \in Seq(Byte) : Len(t) < Len(s) => t \in T
      PROVE  s \in T
  <2>1. ASSUME NEW d \in Seq(Byte) PROVE Agrees(s, d)
    <3>1. CASE Index(s) = 0
      BY <3>1, AgreesPlain
    <3>2. CASE Index(s) # 0
      <4> DEFINE t == Rest(s, Index(s) + Size)
      <4>1. Index(s) \in Found(s)
        BY <3>2, IndexIs
      <4>2. Index(s) \in 1..Len(s) /\ Index(s) + Size \in 1..Len(s) + 1 /\ Size \in Nat \ {0}
            /\ Len(s) \in Nat
        BY <4>1, MarkerFits, SizeIs
      <4>3. t \in Seq(Byte) /\ Len(t) = Len(s) + 1 - (Index(s) + Size)
        BY <4>2, RestIs
      <4>4. Len(s) + 1 - (Index(s) + Size) < Len(s)
        BY <4>2
      <4> HIDE DEF t
      <4>5. t \in T
        BY <1>1, <4>3, <4>4
      <4>6. Agrees(t, d)
        BY <4>5
      <4> QED BY <3>2, <4>6, AgreesMarker DEF t
    <3> QED BY <3>1, <3>2
  <2> QED BY <2>1
<1> HIDE DEF T
<1>2. T \in SUBSET Seq(Byte)
  BY DEF T
<1>3. T = Seq(Byte)
  BY <1>1, <1>2, ByLength
<1> QED BY <1>3 DEF T

(* Bytes too few for a marker are text.                                    *)
LEMMA StripShort ==
  ASSUME NEW s \in Seq(Byte), Len(s) < Size
  PROVE  Strip[s].text = s /\ Strip[s].marks = 0
<1>1. Len(s) \in Nat /\ Len(s) \in 0..Len(s) /\ Size \in Nat \ {0}
  BY SizeIs
<1>2. \A j \in 1..Len(s) : j \notin Found(s)
  <2>1. \A j \in 1..Len(s) : j \in Nat \ {0} /\ ~(j + Size - 1 <= Len(s))
    BY <1>1
  <2> QED BY <2>1, FoundIs
<1>3. Skips(s, Len(s))
  BY <1>1, <1>2, SkipPlain
<1>4. SubSeq(s, 1, Len(s)) = s
  BY SubSeqFull
<1>5. Rest(s, Len(s) + 1) = <<>>
  BY <1>1, SubSeqEmpty DEF Rest
<1>6. Strip[<<>>].text = <<>> /\ Strip[<<>>].marks = 0
  BY StripIs
<1>7. s \o <<>> = s
  BY ConcatEmptySeq
<1> QED BY <1>3, <1>4, <1>5, <1>6, <1>7 DEF Skips

-----------------------------------------------------------------------------
(***************************************************************************)
(* The invariant                                                           *)
(***************************************************************************)

(* Whatever is still to come, what it will make of the stream is decided   *)
(* by what is pending.                                                     *)
Follows ==
  \A d \in Seq(Byte) :
    /\ Strip[read \o d].text = sent \o Strip[pending \o d].text
    /\ Strip[read \o d].marks = marks + Strip[pending \o d].marks

OutInv ==
  /\ TypeOK /\ NothingLost /\ MarksExact
  /\ ~ended => Follows

(* The first state.                                                        *)
LEMMA InitOut == Init => OutInv
<1> SUFFICES ASSUME Init PROVE OutInv
  OBVIOUS
<1>1. pending = <<>> /\ read = <<>> /\ sent = <<>> /\ marks = 0 /\ ended = FALSE
  BY DEF Init
<1>2. Size \in Nat \ {0} /\ Len(<<>>) = 0 /\ SubSeq(checkSequence, 1, 0) = <<>>
  BY SizeIs, SubSeqEmpty
<1>3. TypeOK
  <2>1. <<>> \in Seq(Byte) /\ 0 \in Nat /\ FALSE \in BOOLEAN /\ 0 < Size
    BY <1>2
  <2> HIDE DEF Size
  <2> QED BY <1>1, <1>2, <2>1 DEF TypeOK
<1>4. Strip[<<>>].text = <<>> /\ Strip[<<>>].marks = 0
  BY StripIs
<1>5. NothingLost /\ MarksExact
  BY <1>1, <1>4 DEF NothingLost, MarksExact
<1>6. Follows
  <2>1. ASSUME NEW d \in Seq(Byte)
        PROVE  <<>> \o Strip[d].text = Strip[d].text /\ 0 + Strip[d].marks = Strip[d].marks
               /\ <<>> \o d = d
    <3>1. Strip[d].text \in Seq(Byte) /\ Strip[d].marks \in Nat
      BY StripIs
    <3> QED BY <3>1, ConcatEmptySeq
  <2> QED BY <1>1, <2>1 DEF Follows
<1> QED BY <1>3, <1>5, <1>6 DEF OutInv

(* Reads are made of bytes.                                                *)
LEMMA ChunksAreBytes == Chunks \subseteq Seq(Byte)
BY MaxBytesAssumption DEF Chunks, SeqOf

(* One read of the PTY.                                                    *)
LEMMA WriteOut ==
  ASSUME OutInv, NEW data \in Chunks, Write(data)
  PROVE  OutInv'
<1> DEFINE all == pending \o data
           result == Scan[all]
<1>1. /\ ~ended /\ ended' = ended /\ read' = read \o data /\ sent' = sent \o result.sent
      /\ marks' = marks + result.marks /\ pending' = result.pending
  BY DEF Write
<1>2. pending \in Seq(Byte) /\ read \in Seq(Byte) /\ sent \in Seq(Byte) /\ marks \in Nat
      /\ ended \in BOOLEAN /\ data \in Seq(Byte) /\ Follows
  BY <1>1, ChunksAreBytes DEF OutInv, TypeOK
<1>3. all \in Seq(Byte)
  BY <1>2, ConcatIs
<1>4. result.sent \in Seq(Byte) /\ result.marks \in Nat /\ result.pending \in Seq(Byte)
      /\ Len(result.pending) < Size
      /\ result.pending = SubSeq(checkSequence, 1, Len(result.pending))
  <2> HIDE DEF all
  <2>1. result \in [sent : Seq(Byte), marks : Nat, pending : Seq(Byte)]
    BY <1>3, ScanIs
  <2>2. Len(Scan[all].pending) < Size
        /\ Scan[all].pending = SubSeq(checkSequence, 1, Len(Scan[all].pending))
    BY <1>3, PendingIs
  <2> QED BY <2>1, <2>2
<1> HIDE DEF result
<1>5. sent' \in Seq(Byte) /\ read' \in Seq(Byte) /\ marks' \in Nat /\ pending' \in Seq(Byte)
  <2>1. sent \o result.sent \in Seq(Byte) /\ read \o data \in Seq(Byte)
    BY <1>2, <1>4, ConcatIs
  <2>2. marks + result.marks \in Nat
    BY <1>2, <1>4
  <2> QED BY <1>1, <1>4, <2>1, <2>2
<1>6. TypeOK'
  BY <1>1, <1>2, <1>4, <1>5 DEF TypeOK
<1>7. ASSUME NEW d \in Seq(Byte)
      PROVE  /\ Strip[read' \o d].text = sent' \o Strip[pending' \o d].text
             /\ Strip[read' \o d].marks = marks' + Strip[pending' \o d].marks
             /\ Strip[pending' \o d].marks \in Nat
  <2> DEFINE dd == data \o d
             kept == result.pending \o d
             z == Strip[kept].text
             m == Strip[kept].marks
  <2>1. dd \in Seq(Byte) /\ kept \in Seq(Byte)
    BY <1>2, <1>4, ConcatIs
  <2>2. read' \o d = read \o dd /\ pending \o dd = all \o d
    <3>1. read \in Seq(Byte) /\ pending \in Seq(Byte) /\ data \in Seq(Byte)
      BY <1>2
    <3>2. (read \o data) \o d = read \o (data \o d)
      BY <3>1, ConcatAssoc
    <3>3. (pending \o data) \o d = pending \o (data \o d)
      BY <3>1, ConcatAssoc
    <3> QED BY <1>1, <3>2, <3>3
  <2>3. Strip[read \o dd].text = sent \o Strip[pending \o dd].text
        /\ Strip[read \o dd].marks = marks + Strip[pending \o dd].marks
    <3> HIDE DEF dd
    <3> QED BY <1>2, <2>1 DEF Follows
  <2>4. Strip[all \o d].text = result.sent \o z /\ Strip[all \o d].marks = result.marks + m
    <3> HIDE DEF all
    <3> QED BY <1>3, ScanAgrees DEF Agrees, result
  <2>5. z \in Seq(Byte) /\ m \in Nat
    <3> HIDE DEF kept
    <3>1. Strip[kept] \in [text : Seq(Byte), marks : Nat]
      BY <2>1, StripIs
    <3> QED BY <3>1
  <2>6. Strip[read' \o d].text = sent \o (result.sent \o z)
        /\ Strip[read' \o d].marks = marks + (result.marks + m)
    <3> HIDE DEF all, dd, z, m
    <3> QED BY <2>2, <2>3, <2>4
  <2>7. (sent \o result.sent) \o z = sent \o (result.sent \o z)
    <3> DEFINE u == result.sent
    <3>1. sent \in Seq(Byte) /\ u \in Seq(Byte) /\ z \in Seq(Byte)
      BY <1>2, <1>4, <2>5
    <3> HIDE DEF u, z
    <3>2. (sent \o u) \o z = sent \o (u \o z)
      BY <3>1, ConcatAssoc
    <3> QED BY <3>2 DEF u
  <2>8. marks + (result.marks + m) = (marks + result.marks) + m
    <3> HIDE DEF m
    <3> QED BY <1>2, <1>4, <2>5
  <2>9. pending' \o d = kept
    BY <1>1
  <2>10. Strip[pending' \o d].text = z /\ Strip[pending' \o d].marks = m
    <3> HIDE DEF kept
    <3> QED BY <2>9
  <2> HIDE DEF z, m, kept, dd, all
  <2> QED BY <1>1, <2>5, <2>6, <2>7, <2>8, <2>10
<1>8. Follows'
  BY <1>7 DEF Follows
<1>9. NothingLost' /\ MarksExact'
  <2>1. <<>> \in Seq(Byte)
    OBVIOUS
  <2>2. read' \o <<>> = read' /\ pending' \o <<>> = pending'
    BY <1>5, ConcatEmptySeq
  <2>3. Strip[read'].text = sent' \o Strip[pending'].text
        /\ Strip[read'].marks = marks' + Strip[pending'].marks
    BY <1>7, <2>1, <2>2
  <2>4. Strip[pending'].text = pending' /\ Strip[pending'].marks = 0
    <3> DEFINE p == result.pending
    <3>1. p \in Seq(Byte) /\ Len(p) < Size /\ pending' = p
      BY <1>1, <1>4
    <3> HIDE DEF p
    <3>2. Strip[p].text = p /\ Strip[p].marks = 0
      BY <3>1, StripShort
    <3> QED BY <3>1, <3>2
  <2>5. marks' + 0 = marks'
    <3>1. \A n \in Nat : n + 0 = n
      OBVIOUS
    <3>2. marks' \in Nat
      BY <1>5
    <3> QED BY <3>1, <3>2
  <2> QED BY <2>3, <2>4, <2>5 DEF NothingLost, MarksExact
<1> QED BY <1>6, <1>8, <1>9 DEF OutInv

(* The end of the PTY.                                                     *)
LEMMA FlushOut == OutInv /\ Flush => OutInv'
<1> SUFFICES ASSUME OutInv, Flush PROVE OutInv'
  OBVIOUS
<1>1. sent' = sent \o pending /\ pending' = <<>> /\ ended' = TRUE /\ read' = read /\ marks' = marks
  BY DEF Flush
<1>2. pending \in Seq(Byte) /\ read \in Seq(Byte) /\ sent \in Seq(Byte) /\ marks \in Nat
  BY DEF OutInv, TypeOK
<1>3. sent \o pending \in Seq(Byte) /\ (sent \o pending) \o <<>> = sent \o pending
  <2>1. sent \o pending \in Seq(Byte)
    BY <1>2, ConcatIs
  <2> QED BY <2>1, ConcatEmptySeq
<1>4. Size \in Nat \ {0} /\ Len(<<>>) = 0 /\ SubSeq(checkSequence, 1, 0) = <<>>
  BY SizeIs, SubSeqEmpty
<1>5. TypeOK'
  BY <1>1, <1>2, <1>3, <1>4 DEF TypeOK
<1>6. NothingLost' /\ MarksExact'
  BY <1>1, <1>3 DEF OutInv, NothingLost, MarksExact
<1> QED BY <1>1, <1>5, <1>6 DEF OutInv

(* Every step.                                                             *)
LEMMA NextOut == OutInv /\ [Next]_vars => OutInv'
<1> SUFFICES ASSUME OutInv, [Next]_vars PROVE OutInv'
  OBVIOUS
<1>1. CASE Flush
  BY <1>1, FlushOut
<1>2. ASSUME NEW data \in Chunks, Write(data) PROVE OutInv'
  BY <1>2, WriteOut
<1>3. CASE UNCHANGED vars
  BY <1>3 DEF vars, OutInv, TypeOK, NothingLost, MarksExact, Follows
<1> QED BY <1>1, <1>2, <1>3 DEF Next

(* Every state.                                                            *)
LEMMA OutInvariant == Spec => []OutInv
BY InitOut, NextOut, PTL DEF Spec

-----------------------------------------------------------------------------
(* What write keeps back is always a beginning of the marker, and never a  *)
(* whole one (terminal.go:141-151,176-184).                                *)
THEOREM FilterTypeCorrect == Spec => []TypeOK
<1>1. OutInv => TypeOK
  BY DEF OutInv
<1> QED BY OutInvariant, <1>1, PTL

(* For every marker whose first byte occurs in it once, and however the    *)
(* stream is cut: the client has got the stream without its markers, but   *)
(* for the bytes held back (terminal.go:141-174).                          *)
THEOREM StreamIsPreserved == Spec => []NothingLost
<1>1. OutInv => NothingLost
  BY DEF OutInv
<1> QED BY OutInvariant, <1>1, PTL

(* For every such marker and cut, the checks asked for are the markers of  *)
(* the stream (terminal.go:145-163).                                       *)
THEOREM EveryMarkCounts == Spec => []MarksExact
<1>1. OutInv => MarksExact
  BY DEF OutInv
<1> QED BY OutInvariant, <1>1, PTL
=============================================================================
