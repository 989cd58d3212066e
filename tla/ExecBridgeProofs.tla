-------------------------- MODULE ExecBridgeProofs --------------------------
(***************************************************************************)
(* Proofs about ExecBridge for any markers, commands and inputs over any   *)
(* bytes, and any sizes of messages, reads and writes: StatusIsTheCommands *)
(* and BufferIsBounded, the refinement of Relay, and InputIsWhole.         *)
(*                                                                         *)
(* The argument about an exec: put together what is passed on, what is in  *)
(* the buffer and what is still to come, and the command's output and its  *)
(* status are found in it (Stream), however much readExec has taken of it. *)
(* Reading keeps that, and so does passing on, since what is let go ends   *)
(* before any marker (Kept), and a marker that is complete stays the first *)
(* one (Found).                                                            *)
(*                                                                         *)
(* What needs induction is proved with a least counterexample: a set of    *)
(* natural numbers that is not empty has a least element (Smallest).       *)
(***************************************************************************)
EXTENDS ExecBridge, SequenceTheorems, TLAPS

Wf == INSTANCE WellFoundedInduction

Bytes == Seq(Symbols)

-----------------------------------------------------------------------------
(* Numbers and sequences *)

LEMMA Smallest ==
  ASSUME NEW T, T \subseteq Nat, T # {} PROVE Min(T) \in T /\ \A y \in T : Min(T) <= y
<1> DEFINE R == {p \in Nat \X Nat : p[1] < p[2]}
<1>1. Wf!IsWellFoundedOn(R, Nat)  BY Wf!NatLessThanWellFounded DEF Wf!OpToRel
<1>2. PICK x \in T : \A y \in T : ~(<<y, x>> \in R)  BY <1>1, Wf!WFMin
<1>3. ASSUME NEW y \in T PROVE x <= y
  <2>1. ~(<<y, x>> \in R)  BY <1>2
  <2>2. x \in Nat /\ y \in Nat /\ <<y, x>>[1] = y /\ <<y, x>>[2] = x  OBVIOUS
  <2>3. QED  BY <2>1, <2>2
<1>4. QED  BY <1>3 DEF Min

LEMMA LeastIs == ASSUME NEW a \in Nat, NEW b \in Nat
  PROVE Least(a, b) \in Nat /\ Least(a, b) <= a /\ Least(a, b) <= b /\ Least(a, b) \in {a, b}
BY DEF Least

LEMMA Taking ==
  ASSUME NEW s \in Bytes, NEW n \in Nat
  PROVE  /\ Take(s, n) \in Bytes /\ Len(Take(s, n)) = Least(n, Len(s))
         /\ \A i \in 1 .. Len(Take(s, n)) : Take(s, n)[i] = s[i]
<1> DEFINE k == Least(n, Len(s))
<1>1. Len(s) \in Nat /\ k \in Nat /\ k <= Len(s)  BY LenProperties, LeastIs DEF Bytes
<1>2. \A i \in 1 .. k : s[i] \in Symbols  BY <1>1, ElementOfSeq DEF Bytes
<1> HIDE DEF k
<1>3. SubSeq(s, 1, k) \in Bytes /\ Len(SubSeq(s, 1, k)) = (IF 1 <= k THEN k - 1 + 1 ELSE 0)
      /\ \A i \in 1 .. k - 1 + 1 : SubSeq(s, 1, k)[i] = s[1 + i - 1]
  BY <1>1, <1>2, SubSeqProperties DEF Bytes
<1>4. Take(s, n) = SubSeq(s, 1, k)  BY DEF Take, k
<1>5. QED  BY <1>1, <1>3, <1>4 DEF k

LEMMA Dropping ==
  ASSUME NEW s \in Bytes, NEW n \in Nat
  PROVE  /\ Drop(s, n) \in Bytes
         /\ Len(Drop(s, n)) = (IF n <= Len(s) THEN Len(s) - n ELSE 0)
         /\ \A i \in 1 .. Len(Drop(s, n)) : Drop(s, n)[i] = s[n + i]
<1>1. Len(s) \in Nat  BY LenProperties DEF Bytes
<1>2. \A i \in n + 1 .. Len(s) : s[i] \in Symbols  BY <1>1, ElementOfSeq DEF Bytes
<1>3. Drop(s, n) \in Bytes /\ Len(Drop(s, n)) = (IF n + 1 <= Len(s) THEN Len(s) - (n + 1) + 1 ELSE 0)
      /\ \A i \in 1 .. Len(s) - (n + 1) + 1 : Drop(s, n)[i] = s[n + 1 + i - 1]
  BY <1>1, <1>2, SubSeqProperties DEF Bytes, Drop
<1>4. QED  BY <1>1, <1>3

LEMMA Joining ==
  ASSUME NEW s \in Bytes, NEW t \in Bytes
  PROVE  /\ s \o t \in Bytes /\ Len(s) \in Nat /\ Len(s \o t) = Len(s) + Len(t)
         /\ \A i \in 1 .. Len(s) : (s \o t)[i] = s[i]
         /\ \A i \in 1 .. Len(t) : (s \o t)[Len(s) + i] = t[i]
<1>1. Len(s) \in Nat /\ Len(t) \in Nat  BY LenProperties DEF Bytes
<1>2. /\ s \o t \in Bytes /\ Len(s \o t) = Len(s) + Len(t)
      /\ \A i \in 1 .. Len(s) + Len(t) : (s \o t)[i] = IF i <= Len(s) THEN s[i] ELSE t[i - Len(s)]
  BY ConcatProperties DEF Bytes
<1>3. ASSUME NEW i \in 1 .. Len(t) PROVE (s \o t)[Len(s) + i] = t[i]
  <2>1. Len(s) + i \in 1 .. Len(s) + Len(t) /\ ~(Len(s) + i <= Len(s)) /\ (Len(s) + i) - Len(s) = i
    BY <1>1
  <2>2. QED  BY <1>2, <2>1
<1>4. QED  BY <1>1, <1>2, <1>3

LEMMA Same ==
  ASSUME NEW s \in Bytes, NEW t \in Bytes, Len(s) = Len(t), \A i \in 1 .. Len(s) : s[i] = t[i]
  PROVE  s = t
BY SeqEqual DEF Bytes

\* Stated as operators, so that the provers instantiate at the sequences named.
Regroups(s, t, u) == (s \o t) \o u = s \o (t \o u)
Joins(x, y, s) == s = x \o y

LEMMA Association == \A s, t, u \in Bytes : Regroups(s, t, u)
<1>1. ASSUME NEW s \in Bytes, NEW t \in Bytes, NEW u \in Bytes PROVE (s \o t) \o u = s \o (t \o u)
  BY ConcatAssociative DEF Bytes
<1>2. QED  BY <1>1 DEF Regroups

LEMMA Cancel ==
  ASSUME NEW s \in Bytes, NEW t \in Bytes, NEW u \in Bytes, s \o t = s \o u PROVE t = u
BY ConcatSimplifications DEF Bytes

LEMMA Joined ==
  ASSUME NEW s \in Bytes, NEW t \in Bytes
  PROVE  \E u \in Bytes : /\ u = s \o t /\ Len(u) = Len(s) + Len(t)
                          /\ \A i \in 1 .. Len(s) : u[i] = s[i]
                          /\ \A i \in 1 .. Len(t) : u[Len(s) + i] = t[i]
BY Joining

LEMMA Heading ==
  ASSUME NEW s \in Bytes, NEW n \in 0 .. Len(s)
  PROVE  \E x \in Bytes : x = Take(s, n) /\ Len(x) = n /\ \A i \in 1 .. Len(x) : x[i] = s[i]
<1>1. Len(s) \in Nat /\ n \in Nat /\ n <= Len(s)  BY LenProperties DEF Bytes
<1>2. Least(n, Len(s)) = n  BY <1>1 DEF Least
<1>3. QED  BY <1>1, <1>2, Taking

LEMMA Remaining ==
  ASSUME NEW s \in Bytes, NEW n \in 0 .. Len(s)
  PROVE  \E x \in Bytes : x = Drop(s, n) /\ Len(x) = Len(s) - n /\ \A i \in 1 .. Len(x) : x[i] = s[n + i]
<1>1. Len(s) \in Nat /\ n \in Nat /\ n <= Len(s)  BY LenProperties DEF Bytes
<1>2. QED  BY <1>1, Dropping

\* The two parts of a sequence.
LEMMA Halves ==
  ASSUME NEW s \in Bytes, NEW n \in 0 .. Len(s)
  PROVE  \E x \in Bytes, y \in Bytes :
           x = Take(s, n) /\ y = Drop(s, n) /\ Joins(x, y, s) /\ Len(x) = n /\ Len(y) = Len(s) - n
<1>1. Len(s) \in Nat /\ n \in Nat /\ n <= Len(s)  BY LenProperties DEF Bytes
<1>2. PICK a \in Bytes : a = Take(s, n) /\ Len(a) = n /\ \A i \in 1 .. Len(a) : a[i] = s[i]
  BY Heading
<1>3. PICK b \in Bytes : b = Drop(s, n) /\ Len(b) = Len(s) - n /\ \A i \in 1 .. Len(b) : b[i] = s[n + i]
  BY Remaining
<1>4. PICK u \in Bytes : /\ u = a \o b /\ Len(u) = Len(a) + Len(b)
                         /\ \A i \in 1 .. Len(a) : u[i] = a[i]
                         /\ \A i \in 1 .. Len(b) : u[Len(a) + i] = b[i]
  BY Joined
<1>5. ASSUME NEW i \in 1 .. Len(s) PROVE u[i] = s[i]
  <2>1. CASE i <= n  BY <1>1, <1>2, <1>4, <2>1
  <2>2. CASE i > n
    <3>1. i - n \in 1 .. Len(b) /\ n + (i - n) = i  BY <1>1, <1>3, <2>2
    <3>2. u[n + (i - n)] = b[i - n]  BY <1>2, <1>4, <3>1
    <3>3. b[i - n] = s[n + (i - n)]  BY <1>3, <3>1
    <3>4. QED  BY <3>1, <3>2, <3>3
  <2>3. i <= n \/ i > n  BY <1>1
  <2>4. QED  BY <2>1, <2>2, <2>3
<1>6. Len(u) = Len(s)  BY <1>1, <1>2, <1>3, <1>4
<1>7. u = s  BY <1>5, <1>6, Same
<1>8. Joins(a, b, s)  BY <1>4, <1>7 DEF Joins
<1>9. QED  BY <1>1, <1>2, <1>3, <1>8

LEMMA Split ==
  ASSUME NEW s \in Bytes, NEW n \in 0 .. Len(s)
  PROVE  Take(s, n) \o Drop(s, n) = s /\ Len(Take(s, n)) = n
<1>1. PICK x \in Bytes, y \in Bytes :
        x = Take(s, n) /\ y = Drop(s, n) /\ Joins(x, y, s) /\ Len(x) = n /\ Len(y) = Len(s) - n
  BY Halves
<1>2. QED  BY <1>1 DEF Joins

\* Whatever is put together is cut apart where it was put together.
LEMMA Halved ==
  ASSUME NEW x \in Bytes, NEW y \in Bytes, NEW s \in Bytes, Joins(x, y, s), NEW n \in Nat, n = Len(x)
  PROVE  Take(s, n) = x /\ Drop(s, n) = y
<1>1. PICK u \in Bytes : /\ u = x \o y /\ Len(u) = Len(x) + Len(y)
                         /\ \A i \in 1 .. Len(x) : u[i] = x[i]
  BY Joined
<1>2. Len(y) \in Nat /\ n \in 0 .. Len(u)  BY <1>1, LenProperties DEF Bytes
<1>3. PICK a \in Bytes : a = Take(u, n) /\ Len(a) = n /\ \A i \in 1 .. Len(a) : a[i] = u[i]
  BY <1>2, Heading
<1>4. PICK b \in Bytes : b = Drop(u, n) /\ a \o b = u
  <2>1. PICK c \in Bytes, b \in Bytes :
          c = Take(u, n) /\ b = Drop(u, n) /\ Joins(c, b, u) /\ Len(c) = n /\ Len(b) = Len(u) - n
    BY <1>2, Halves
  <2>2. QED  BY <1>3, <2>1 DEF Joins
<1>5. a = x
  <2>1. \A i \in 1 .. Len(a) : a[i] = x[i]  BY <1>1, <1>3
  <2>2. QED  BY <1>3, <2>1, Same
<1>6. b = y  BY <1>1, <1>4, <1>5, Cancel
<1>7. u = s  BY <1>1 DEF Joins
<1>8. QED  BY <1>3, <1>4, <1>5, <1>6, <1>7

\* What is cut off a sequence does not depend on what follows.
LEMMA Cutting ==
  ASSUME NEW s \in Bytes, NEW t \in Bytes, NEW n \in 0 .. Len(s)
  PROVE  Take(s \o t, n) = Take(s, n) /\ Drop(s \o t, n) = Drop(s, n) \o t
<1>1. PICK a \in Bytes, b \in Bytes :
        a = Take(s, n) /\ b = Drop(s, n) /\ Joins(a, b, s) /\ Len(a) = n /\ Len(b) = Len(s) - n
  BY Halves
<1>2. PICK u \in Bytes : u = s \o t  BY Joined
<1>3. PICK v \in Bytes : v = b \o t  BY Joined
<1>4. Joins(a, v, u)
  <2>1. Regroups(a, b, t)  BY Association
  <2>2. QED  BY <1>1, <1>2, <1>3, <2>1 DEF Regroups, Joins
<1>5. n \in Nat  BY LenProperties DEF Bytes
<1>6. Take(u, n) = a /\ Drop(u, n) = v  BY <1>1, <1>4, <1>5, Halved
<1>7. QED  BY <1>1, <1>2, <1>3, <1>6

\* Cutting further on than the first part.
LEMMA Beyond ==
  ASSUME NEW x \in Bytes, NEW r \in Bytes, NEW n \in 0 .. Len(r)
  PROVE  Take(x \o r, Len(x) + n) = x \o Take(r, n) /\ Drop(x \o r, Len(x) + n) = Drop(r, n)
<1>1. PICK a \in Bytes, b \in Bytes :
        a = Take(r, n) /\ b = Drop(r, n) /\ Joins(a, b, r) /\ Len(a) = n /\ Len(b) = Len(r) - n
  BY Halves
<1>2. PICK u \in Bytes : u = x \o r  BY Joined
<1>3. PICK v \in Bytes : v = x \o a /\ Len(v) = Len(x) + Len(a)  BY Joined
<1>4. Joins(v, b, u)
  <2>1. Regroups(x, a, b)  BY Association
  <2>2. QED  BY <1>1, <1>2, <1>3, <2>1 DEF Regroups, Joins
<1>5. PICK k \in Nat : k = Len(x) + n /\ k = Len(v)
  BY <1>1, <1>3, LenProperties DEF Bytes
<1>6. Take(u, k) = v /\ Drop(u, k) = b  BY <1>4, <1>5, Halved
<1>7. QED  BY <1>1, <1>2, <1>3, <1>5, <1>6

-----------------------------------------------------------------------------
(* Where a marker is *)

First(s, m) == Min(Places(m, s))

LEMMA Place ==
  ASSUME NEW s \in Bytes, NEW m \in Bytes, NEW i
  PROVE  i \in Places(m, s) <=>
           i \in Nat /\ i + Len(m) <= Len(s) /\ \A j \in 1 .. Len(m) : s[i + j] = m[j]
<1>1. Len(s) \in Nat /\ Len(m) \in Nat  BY LenProperties DEF Bytes
<1>2. i \in Places(m, s) <=> i \in 0 .. Len(s) - Len(m) /\ SubSeq(s, i + 1, i + Len(m)) = m
  BY DEF Places
<1>3. ASSUME i \in 0 .. Len(s) - Len(m)
      PROVE  SubSeq(s, i + 1, i + Len(m)) = m <=> \A j \in 1 .. Len(m) : s[i + j] = m[j]
  <2> DEFINE u == SubSeq(s, i + 1, i + Len(m))
  <2>1. \A j \in i + 1 .. i + Len(m) : s[j] \in Symbols  BY <1>1, <1>3, ElementOfSeq DEF Bytes
  <2>2. u \in Bytes /\ Len(u) = (IF i + 1 <= i + Len(m) THEN (i + Len(m)) - (i + 1) + 1 ELSE 0)
        /\ \A j \in 1 .. (i + Len(m)) - (i + 1) + 1 : u[j] = s[i + 1 + j - 1]
    BY <1>1, <1>3, <2>1, SubSeqProperties DEF Bytes
  <2> HIDE DEF u
  <2>3. Len(u) = Len(m) /\ \A j \in 1 .. Len(m) : u[j] = s[i + j]  BY <1>1, <1>3, <2>2
  <2>4. (\A j \in 1 .. Len(m) : s[i + j] = m[j]) => u = m  BY <2>2, <2>3, Same
  <2>5. u = m => \A j \in 1 .. Len(m) : s[i + j] = m[j]  BY <2>3
  <2>6. QED  BY <2>4, <2>5 DEF u
<1>4. QED  BY <1>1, <1>2, <1>3

LEMMA FirstPlace ==
  ASSUME NEW s \in Bytes, NEW m \in Bytes, Contains(s, m)
  PROVE  /\ First(s, m) \in Places(m, s) /\ First(s, m) \in Nat
         /\ First(s, m) + Len(m) <= Len(s)
         /\ \A i \in Places(m, s) : First(s, m) <= i
<1>1. Places(m, s) \subseteq Nat /\ Places(m, s) # {}  BY Place DEF Contains
<1>2. QED  BY <1>1, Place, Smallest DEF First

\* Unless it is known to come earlier, a place is the first one.
LEMMA IsFirst ==
  ASSUME NEW s \in Bytes, NEW m \in Bytes, NEW i \in Places(m, s),
         \A k \in Places(m, s) : i <= k
  PROVE  Contains(s, m) /\ First(s, m) = i
<1>1. Contains(s, m)  BY DEF Contains
<1>2. First(s, m) <= i /\ i <= First(s, m) /\ First(s, m) \in Nat /\ i \in Nat
  BY <1>1, FirstPlace, Place
<1>3. QED  BY <1>1, <1>2

LEMMA Pieces ==
  ASSUME NEW s \in Bytes, NEW m \in Bytes, Contains(s, m)
  PROVE  /\ Preceding(s, m) = Take(s, First(s, m)) /\ Following(s, m) = Drop(s, First(s, m) + Len(m))
         /\ Preceding(s, m) \in Bytes /\ Following(s, m) \in Bytes
         /\ Len(Preceding(s, m)) = First(s, m)
<1>1. First(s, m) \in Nat /\ Len(m) \in Nat /\ First(s, m) \in 0 .. Len(s)
  BY FirstPlace, LenProperties DEF Bytes
<1>2. Len(Take(s, First(s, m))) = First(s, m)  BY <1>1, Split
<1>3. QED  BY <1>1, <1>2, Taking, Dropping DEF Preceding, Following, First

\* A marker that is there stays the first one, whatever follows.
LEMMA Found ==
  ASSUME NEW s \in Bytes, NEW t \in Bytes, NEW m \in Bytes, Contains(s, m)
  PROVE  /\ Contains(s \o t, m) /\ Preceding(s \o t, m) = Preceding(s, m)
         /\ Following(s \o t, m) = Following(s, m) \o t
<1> DEFINE p == First(s, m)
<1>1. /\ Len(s) \in Nat /\ Len(t) \in Nat /\ Len(m) \in Nat
      /\ s \o t \in Bytes /\ Len(s \o t) = Len(s) + Len(t)
  BY LenProperties, Joining DEF Bytes
<1>2. ASSUME NEW i \in Nat, i + Len(m) <= Len(s)
      PROVE  i \in Places(m, s \o t) <=> i \in Places(m, s)
  <2>1. \A j \in 1 .. Len(m) : i + j \in 1 .. Len(s)  BY <1>1, <1>2
  <2>2. \A j \in 1 .. Len(m) : (s \o t)[i + j] = s[i + j]  BY <2>1, Joining
  <2>3. i + Len(m) <= Len(s \o t)  BY <1>1, <1>2
  <2>4. i \in Places(m, s) <=> \A j \in 1 .. Len(m) : s[i + j] = m[j]  BY <1>2, Place
  <2>5. i \in Places(m, s \o t) <=> \A j \in 1 .. Len(m) : (s \o t)[i + j] = m[j]
    <3>1. PICK u \in Bytes : u = s \o t  BY <1>1
    <3>2. i + Len(m) <= Len(u)  BY <2>3, <3>1
    <3>3. i \in Places(m, u) <=> \A j \in 1 .. Len(m) : u[i + j] = m[j]  BY <3>2, Place
    <3>4. QED  BY <3>1, <3>3
  <2>6. QED  BY <2>2, <2>4, <2>5
<1>3. p \in Nat /\ p + Len(m) <= Len(s) /\ p \in Places(m, s) /\ \A i \in Places(m, s) : p <= i
  BY FirstPlace
<1> HIDE DEF p
<1>4. p \in Places(m, s \o t)  BY <1>2, <1>3
<1>5. ASSUME NEW i \in Places(m, s \o t) PROVE p <= i
  <2>1. i \in Nat  BY <1>1, Place
  <2>2. CASE i + Len(m) <= Len(s)  BY <1>2, <1>3, <2>1, <2>2
  <2>3. CASE ~(i + Len(m) <= Len(s))  BY <1>1, <1>3, <2>1, <2>3
  <2>4. QED  BY <2>2, <2>3
<1>6. Contains(s \o t, m) /\ First(s \o t, m) = p  BY <1>1, <1>4, <1>5, IsFirst
<1>7. p \in 0 .. Len(s) /\ p + Len(m) \in 0 .. Len(s)  BY <1>1, <1>3
<1>8. Preceding(s \o t, m) = Take(s \o t, p) /\ Following(s \o t, m) = Drop(s \o t, p + Len(m))
  BY <1>1, <1>6, Pieces
<1>9. Preceding(s, m) = Take(s, p) /\ Following(s, m) = Drop(s, p + Len(m))  BY Pieces DEF p
<1>10. Take(s \o t, p) = Take(s, p) /\ Drop(s \o t, p + Len(m)) = Drop(s, p + Len(m)) \o t
  BY <1>7, Cutting
<1>11. QED  BY <1>6, <1>8, <1>9, <1>10

\* Nothing that is cut off before any marker matters.
LEMMA Passed ==
  ASSUME NEW x \in Bytes, NEW r \in Bytes, NEW m \in Bytes,
         \A i \in Places(m, x \o r) : Len(x) <= i
  PROVE  /\ Contains(x \o r, m) <=> Contains(r, m)
         /\ Contains(r, m) => /\ Preceding(x \o r, m) = x \o Preceding(r, m)
                              /\ Following(x \o r, m) = Following(r, m)
<1>1. /\ Len(x) \in Nat /\ Len(r) \in Nat /\ Len(m) \in Nat
      /\ x \o r \in Bytes /\ Len(x \o r) = Len(x) + Len(r)
  BY LenProperties, Joining DEF Bytes
<1>2. ASSUME NEW i \in Nat PROVE i \in Places(m, r) <=> Len(x) + i \in Places(m, x \o r)
  <2>1. CASE i + Len(m) <= Len(r)
    <3>1. ASSUME NEW j \in 1 .. Len(m) PROVE (x \o r)[(Len(x) + i) + j] = r[i + j]
      <4>1. i + j \in 1 .. Len(r) /\ (Len(x) + i) + j = Len(x) + (i + j)  BY <1>1, <2>1
      <4>2. (x \o r)[Len(x) + (i + j)] = r[i + j]  BY <4>1, Joining
      <4>3. QED  BY <4>1, <4>2
    <3>2. Len(x) + i \in Nat /\ (Len(x) + i) + Len(m) <= Len(x \o r)  BY <1>1, <2>1
    <3>3. i \in Places(m, r) <=> \A j \in 1 .. Len(m) : r[i + j] = m[j]  BY <2>1, Place
    <3>4. Len(x) + i \in Places(m, x \o r) <=> \A j \in 1 .. Len(m) : (x \o r)[(Len(x) + i) + j] = m[j]
      BY <1>1, <3>2, Place
    <3>5. QED  BY <3>1, <3>3, <3>4
  <2>2. CASE ~(i + Len(m) <= Len(r))
    <3>1. ~((Len(x) + i) + Len(m) <= Len(x \o r))  BY <1>1, <2>2
    <3>2. QED  BY <1>1, <2>2, <3>1, Place
  <2>3. QED  BY <2>1, <2>2
<1>3. ASSUME NEW k \in Places(m, x \o r)
      PROVE  k - Len(x) \in Nat /\ k - Len(x) \in Places(m, r)
  <2>1. k \in Nat /\ Len(x) <= k  BY <1>1, Place
  <2>2. k - Len(x) \in Nat /\ Len(x) + (k - Len(x)) = k  BY <1>1, <2>1
  <2>3. QED  BY <1>2, <2>2
<1>4. Contains(x \o r, m) <=> Contains(r, m)
  <2>1. ASSUME NEW k \in Places(m, r) PROVE Len(x) + k \in Places(m, x \o r)  BY <1>2, Place
  <2>2. QED  BY <1>3, <2>1 DEF Contains
<1>5. ASSUME Contains(r, m)
      PROVE  /\ Preceding(x \o r, m) = x \o Preceding(r, m)
             /\ Following(x \o r, m) = Following(r, m)
  <2> DEFINE p == First(r, m)
  <2>1. p \in Nat /\ p + Len(m) <= Len(r) /\ p \in Places(m, r) /\ \A i \in Places(m, r) : p <= i
    BY <1>5, FirstPlace
  <2> HIDE DEF p
  <2>2. Len(x) + p \in Places(m, x \o r)  BY <1>2, <2>1
  <2>3. ASSUME NEW k \in Places(m, x \o r) PROVE Len(x) + p <= k
    <3>1. p <= k - Len(x) /\ k \in Nat  BY <1>1, <1>3, <2>1, Place
    <3>2. QED  BY <1>1, <2>1, <3>1
  <2>4. First(x \o r, m) = Len(x) + p /\ Contains(x \o r, m)  BY <1>1, <2>2, <2>3, IsFirst
  <2>5. Preceding(x \o r, m) = Take(x \o r, Len(x) + p) /\ Preceding(r, m) = Take(r, p)
        /\ Following(x \o r, m) = Drop(x \o r, (Len(x) + p) + Len(m)) /\ Following(r, m) = Drop(r, p + Len(m))
    BY <1>1, <1>5, <2>4, Pieces DEF p
  <2>6. p \in 0 .. Len(r) /\ p + Len(m) \in 0 .. Len(r) /\ (Len(x) + p) + Len(m) = Len(x) + (p + Len(m))
    BY <1>1, <2>1
  <2>7. Take(x \o r, Len(x) + p) = x \o Take(r, p)
        /\ Drop(x \o r, Len(x) + (p + Len(m))) = Drop(r, p + Len(m))
    BY <2>6, Beyond
  <2>8. QED  BY <2>5, <2>6, <2>7
<1>6. QED  BY <1>4, <1>5

\* What cannot be a part of a marker is passed on, the rest is kept.
LEMMA Kept ==
  ASSUME NEW s \in Bytes, NEW t \in Bytes, NEW m \in Bytes, ~Contains(s, m)
  PROVE  /\ PassesSafely(s, m) \in Bytes /\ Tail_(s, m) \in Bytes /\ Len(Tail_(s, m)) <= Len(m)
         /\ Contains(s \o t, m) => Contains(Tail_(s, m) \o t, m)
         /\ Contains(Tail_(s, m) \o t, m) =>
              /\ Contains(s \o t, m)
              /\ Preceding(s \o t, m) = PassesSafely(s, m) \o Preceding(Tail_(s, m) \o t, m)
              /\ Following(s \o t, m) = Following(Tail_(s, m) \o t, m)
<1> DEFINE d == IF Len(s) > Len(m) THEN Len(s) - Len(m) ELSE 0
<1>1. Len(s) \in Nat /\ Len(m) \in Nat /\ Len(t) \in Nat /\ d \in 0 .. Len(s) /\ d \in Nat
      /\ Len(s) - d <= Len(m) /\ (d = 0 \/ d + Len(m) = Len(s))
  BY LenProperties DEF Bytes
<1>2. Tail_(s, m) = Drop(s, d)  BY DEF Tail_
<1> HIDE DEF d
<1>3. PICK r \in Bytes : r = Drop(s, d) /\ Len(r) = Len(s) - d  BY <1>1, Dropping
<1>4. PICK x \in Bytes : x = Take(s, d) /\ Len(x) = d /\ x \o Drop(s, d) = s
  BY <1>1, Heading, Split
<1>5. PassesSafely(s, m) = x
  <2>1. Len(s) - Len(r) = d  BY <1>1, <1>3
  <2>2. QED  BY <1>2, <1>3, <1>4, <2>1 DEF PassesSafely
<1>6. PICK u \in Bytes : u = r \o t  BY Joining
<1>7. x \o u = s \o t
  <2>1. Regroups(x, r, t)  BY Association
  <2>2. QED  BY <1>3, <1>4, <1>6, <2>1 DEF Regroups
<1>8. ASSUME NEW i \in Places(m, x \o u) PROVE Len(x) <= i
  <2>1. x \o u \in Bytes /\ i \in Nat  BY Joining, Place
  <2>2. SUFFICES ASSUME ~(d <= i) PROVE FALSE  BY <1>1, <1>4, <2>1
  <2>3. i + Len(m) <= Len(s)  BY <1>1, <2>1, <2>2
  <2>4. \A j \in 1 .. Len(m) : (x \o u)[i + j] = m[j]
    <3>1. PICK y \in Bytes : y = x \o u  BY <2>1
    <3>2. i \in Places(m, y)  BY <1>8, <3>1
    <3>3. \A j \in 1 .. Len(m) : y[i + j] = m[j]  BY <3>2, Place
    <3>4. QED  BY <3>1, <3>3
  <2>5. ASSUME NEW j \in 1 .. Len(m) PROVE s[i + j] = m[j]
    <3>1. i + j \in 1 .. Len(s)  BY <1>1, <2>1, <2>3
    <3>2. (s \o t)[i + j] = s[i + j]  BY <3>1, Joining
    <3>3. QED  BY <1>7, <2>4, <3>2
  <2>6. i \in Places(m, s)  BY <2>1, <2>3, <2>5, Place
  <2>7. QED  BY <2>6 DEF Contains
<1>9. /\ Contains(x \o u, m) <=> Contains(u, m)
      /\ Contains(u, m) => /\ Preceding(x \o u, m) = x \o Preceding(u, m)
                           /\ Following(x \o u, m) = Following(u, m)
  BY <1>8, Passed
<1>10. Tail_(s, m) = r /\ Len(r) <= Len(m)  BY <1>1, <1>2, <1>3
<1>11. QED  BY <1>5, <1>6, <1>7, <1>9, <1>10

LEMMA Nothing == /\ <<>> \in Bytes /\ Len(<<>>) = 0
                 /\ \A s \in Bytes : s \o <<>> = s /\ <<>> \o s = s
                 /\ \A s \in Bytes : Len(s) = 0 => s = <<>>
<1>1. <<>> \in Bytes /\ Len(<<>>) = 0  BY EmptySeq DEF Bytes
<1>2. \A s \in Bytes : s \o <<>> = s /\ <<>> \o s = s  BY ConcatEmptySeq DEF Bytes
<1>3. \A s \in Bytes : s # <<>> => Len(s) \in Nat \ {0}  BY EmptySeq DEF Bytes
<1>4. QED  BY <1>1, <1>2, <1>3

\* What is left from a marker on begins with it.
LEMMA FromMarker ==
  ASSUME NEW s \in Bytes, NEW t \in Bytes, NEW m \in Bytes, Contains(s, m),
         NEW d, d = Drop(s, Len(Preceding(s, m)))
  PROVE  /\ d \in Bytes /\ Len(d) = Len(m) + Len(Following(s, m))
         /\ Contains(d \o t, m) /\ Preceding(d \o t, m) = <<>>
         /\ Following(d \o t, m) = Following(s, m) \o t
<1> DEFINE p == First(s, m)
<1>1. /\ Len(s) \in Nat /\ Len(m) \in Nat /\ p \in Nat /\ p + Len(m) <= Len(s) /\ p \in 0 .. Len(s)
      /\ \A i \in Places(m, s) : p <= i
  BY FirstPlace, LenProperties DEF Bytes
<1>2. Preceding(s, m) = Take(s, p) /\ Following(s, m) = Drop(s, p + Len(m)) /\ Len(Preceding(s, m)) = p
  BY Pieces
<1> HIDE DEF p
<1>3. PICK x \in Bytes : x = Take(s, p) /\ Len(x) = p /\ x \o Drop(s, p) = s
  BY <1>1, Heading, Split
<1>4. d \in Bytes /\ Len(d) = Len(s) - p /\ d = Drop(s, p)  BY <1>1, <1>2, Dropping
<1>5. x \o d = s  BY <1>3, <1>4
<1>6. \A i \in Places(m, x \o d) : Len(x) <= i  BY <1>1, <1>3, <1>5
<1>7. Contains(d, m) /\ x = x \o Preceding(d, m) /\ Following(s, m) = Following(d, m)
  <2>1. Contains(d, m)  BY <1>4, <1>5, <1>6, Passed
  <2>2. Preceding(x \o d, m) = x \o Preceding(d, m) /\ Following(x \o d, m) = Following(d, m)
    BY <1>4, <1>6, <2>1, Passed
  <2>3. QED  BY <1>2, <1>3, <1>5, <2>1, <2>2
<1>8. Preceding(d, m) = <<>>
  <2>1. PICK y \in Bytes : y = Preceding(d, m)  BY <1>4, <1>7, Pieces
  <2>2. x \o y = x \o <<>>  BY <1>7, <2>1, Nothing
  <2>3. y = <<>>  BY <2>2, Nothing, Cancel
  <2>4. QED  BY <2>1, <2>3
<1>9. Len(Following(s, m)) = Len(s) - (p + Len(m))  BY <1>1, <1>2, Dropping
<1>10. Contains(d \o t, m) /\ Preceding(d \o t, m) = Preceding(d, m) /\ Following(d \o t, m) = Following(d, m) \o t
  BY <1>4, <1>7, Found
<1>11. QED  BY <1>1, <1>4, <1>7, <1>8, <1>9, <1>10

LEMMA SplitAny ==
  ASSUME NEW s \in Bytes, NEW n \in Nat
  PROVE  Take(s, n) \in Bytes /\ Drop(s, n) \in Bytes /\ Take(s, n) \o Drop(s, n) = s
<1>1. Take(s, n) \in Bytes /\ Drop(s, n) \in Bytes /\ Len(s) \in Nat
  BY Taking, Dropping, LenProperties DEF Bytes
<1>2. CASE n <= Len(s)
  <2>1. n \in 0 .. Len(s)  BY <1>1, <1>2
  <2>2. QED  BY <1>1, <2>1, Split
<1>3. CASE ~(n <= Len(s))
  <2>1. Take(s, n) = s
    <3>1. PICK a \in Bytes : a = Take(s, n) /\ Len(a) = Len(s) /\ \A i \in 1 .. Len(a) : a[i] = s[i]
      BY <1>1, <1>3, Taking DEF Least
    <3>2. a = s  BY <3>1, Same
    <3>3. QED  BY <3>1, <3>2
  <2>2. Len(Drop(s, n)) = 0  BY <1>3, Dropping
  <2>3. Drop(s, n) = <<>>  BY <1>1, <2>2, Nothing
  <2>4. QED  BY <1>1, <2>1, <2>3, Nothing
<1>4. QED  BY <1>1, <1>2, <1>3

\* A beginning of a sequence, and what a limit makes of one that goes beyond.
LEMMA Beginning ==
  ASSUME NEW y \in Bytes, NEW w \in Bytes
  PROVE  Len(y) \in Nat /\ Len(y) <= Len(y \o w) /\ SubSeq(y \o w, 1, Len(y)) = y
<1>1. Len(y) \in Nat /\ Len(w) \in Nat /\ y \o w \in Bytes /\ Len(y \o w) = Len(y) + Len(w)
  BY LenProperties, Joining DEF Bytes
<1>2. Take(y \o w, Len(y)) = Take(y, Len(y))
  <2>1. Len(y) \in 0 .. Len(y)  BY <1>1
  <2>2. QED  BY <2>1, Cutting
<1>3. Take(y, Len(y)) = SubSeq(y, 1, Len(y)) /\ Take(y \o w, Len(y)) = SubSeq(y \o w, 1, Len(y))
  BY <1>1 DEF Take, Least
<1>4. SubSeq(y, 1, Len(y)) = y  BY SubSeqFull DEF Bytes
<1>5. QED  BY <1>1, <1>2, <1>3, <1>4

LEMMA Limited ==
  ASSUME NEW y \in Bytes, NEW w \in Bytes, NEW o \in Bytes, NEW z \in Bytes, NEW u,
         Joins(y, w, u), Joins(o, z, u)
  PROVE  Take(y, Len(o)) = SubSeq(o, 1, Least(Len(y), Len(o)))
<1>0. y \o w = o \o z  BY DEF Joins
<1>1. Len(y) \in Nat /\ Len(o) \in Nat /\ y \o w \in Bytes  BY LenProperties, Joining DEF Bytes
<1>2. CASE Len(o) <= Len(y)
  <2>1. Len(o) \in 0 .. Len(y) /\ Len(o) \in 0 .. Len(o)  BY <1>1, <1>2
  <2>2. Take(y \o w, Len(o)) = Take(y, Len(o))  BY <2>1, Cutting
  <2>3. Take(o \o z, Len(o)) = Take(o, Len(o))  BY <2>1, Cutting
  <2>4. Take(o, Len(o)) = SubSeq(o, 1, Len(o)) /\ Least(Len(y), Len(o)) = Len(o)
    BY <1>1, <1>2 DEF Take, Least
  <2>5. QED  BY <1>0, <2>2, <2>3, <2>4
<1>3. CASE ~(Len(o) <= Len(y))
  <2>1. Len(y) \in 0 .. Len(o) /\ Len(y) \in 0 .. Len(y) /\ Least(Len(y), Len(o)) = Len(y)
    BY <1>1, <1>3 DEF Least
  <2>2. Take(y, Len(o)) = Take(y, Len(y)) /\ Take(o, Len(y)) = SubSeq(o, 1, Len(y))
    BY <1>1, <1>3 DEF Take, Least
  <2>3. Take(y \o w, Len(y)) = Take(y, Len(y))  BY <2>1, Cutting
  <2>4. Take(o \o z, Len(y)) = Take(o, Len(y))  BY <2>1, Cutting
  <2>5. QED  BY <1>0, <2>1, <2>2, <2>3, <2>4
<1>4. QED  BY <1>2, <1>3

-----------------------------------------------------------------------------
(* The invariant *)

Full(c) == c.output \o End \o c.status \o <<"U">>
Rest == buf \o pending \o arriving

Typed ==
  /\ command \in Commands \cup {Refused, Shell}
  /\ exec \in {"start", "read", "pass", "over"} /\ started \in BOOLEAN /\ ok \in BOOLEAN
  /\ {buf, dst, pending, arriving} \subseteq Bytes
  /\ command = Shell => exec = "over"
  /\ exec \in {"read", "pass"} => command \in Commands
  /\ exec = "pass" => started

\* With the markers and the status, what is passed on and what is left are the output.
Ahead(d, c, r) ==
  /\ Contains(r, End) /\ d \o Preceding(r, End) = c.output
  /\ Following(r, End) = c.status \o <<"U">>

Stream ==
  exec # "over" /\ command \in Commands =>
    IF started THEN Ahead(dst, command, Rest)
    ELSE dst = <<>> /\ (Contains(Rest, Begin) => Following(Rest, Begin) = Full(command))

Unanswered ==
  /\ exec # "over" => ~ok /\ code = 0
  /\ command = Shell \/ exec = "start" => buf = <<>> /\ dst = <<>> /\ code = 0 /\ ~ok
  /\ exec = "start" => ~started

IInv == Typed /\ Stream /\ Unanswered /\ BufferIsBounded /\ StatusIsTheCommands

LEMMA Single == ASSUME NEW x \in Symbols PROVE <<x>> \in Bytes /\ Len(<<x>>) = 1 /\ <<x>>[1] = x
BY DEF Bytes

LEMMA Constants ==
  /\ Begin \in Bytes /\ End \in Bytes /\ <<"U">> \in Bytes /\ Len(Begin) \in Nat /\ Len(End) \in Nat
  /\ \A c \in Commands : c.output \in Bytes /\ c.status \in Bytes /\ c.ok
                         /\ c.output \in Outputs /\ c.status \in Statuses
  /\ Before \subseteq Bytes /\ Inputs \subseteq Bytes /\ Refused \notin Commands /\ Shell \notin Commands
  /\ Shell # Refused
<1>1. Begin \in Bytes /\ End \in Bytes /\ Before \subseteq Bytes /\ Inputs \subseteq Bytes
      /\ Outputs \subseteq Bytes /\ Statuses \subseteq Bytes
  BY MarkersAssumption DEF Bytes
<1>2. Len(Begin) \in Nat /\ Len(End) \in Nat  BY <1>1, LenProperties DEF Bytes
<1>3. <<"U">> \in Bytes /\ Len(<<"U">>) = 1 /\ <<"U">>[1] = "U"
  BY Single, MarkersAssumption
<1>4. \A c \in Commands : c.ok /\ c.output \in Outputs /\ c.status \in Statuses
  BY DEF Commands
<1>5. Refused \notin Commands /\ Shell \notin Commands  BY <1>4 DEF Refused, Shell
<1>6. Shell # Refused
  <2>1. Shell.status = <<>> /\ Refused.status = <<"0">>  BY DEF Shell, Refused
  <2>2. Len(<<>>) = 0 /\ Len(<<"0">>) = 1  OBVIOUS
  <2>3. QED  BY <2>1, <2>2
<1>7. QED  BY <1>1, <1>2, <1>3, <1>4, <1>5, <1>6

\* A marker that is nowhere before its own place is found there.
LEMMA Alone ==
  ASSUME NEW b \in Bytes, NEW m \in Bytes, NEW t \in Bytes, Places(m, b \o m) = {Len(b)}
  PROVE  Contains((b \o m) \o t, m) /\ Preceding((b \o m) \o t, m) = b /\ Following((b \o m) \o t, m) = t
<1>1. PICK u \in Bytes : u = b \o m /\ Len(u) = Len(b) + Len(m)  BY Joining
<1>2. Len(b) \in Nat /\ Len(m) \in Nat  BY LenProperties DEF Bytes
<1>3. Contains(u, m) /\ First(u, m) = Len(b)
  <2>1. Len(b) \in Places(m, u) /\ \A k \in Places(m, u) : Len(b) <= k  BY <1>1, <1>2
  <2>2. QED  BY <2>1, IsFirst
<1>4. Preceding(u, m) = Take(u, Len(b)) /\ Following(u, m) = Drop(u, Len(b) + Len(m))
  BY <1>3, Pieces
<1>5. Take(u, Len(b)) = b
  <2>1. Len(b) \in 0 .. Len(b)  BY <1>2
  <2>2. Take(u, Len(b)) = Take(b, Len(b))  BY <1>1, <2>1, Cutting
  <2>3. Take(b, Len(b)) = SubSeq(b, 1, Len(b))  BY <1>2 DEF Take, Least
  <2>4. QED  BY <2>2, <2>3, SubSeqFull DEF Bytes
<1>6. Drop(u, Len(b) + Len(m)) = <<>>
  <2>1. Len(b) + Len(m) \in Nat  BY <1>2
  <2>2. PICK n \in Nat : n = Len(b) + Len(m) /\ n = Len(u)  BY <1>1, <2>1
  <2>3. Drop(u, n) \in Bytes /\ Len(Drop(u, n)) = 0  BY <2>2, Dropping
  <2>4. QED  BY <2>2, <2>3, Nothing
<1>7. Contains(u \o t, m) /\ Preceding(u \o t, m) = b /\ Following(u \o t, m) = <<>> \o t
  <2>1. /\ Contains(u \o t, m) /\ Preceding(u \o t, m) = Preceding(u, m)
        /\ Following(u \o t, m) = Following(u, m) \o t
    BY <1>3, Found
  <2>2. QED  BY <1>4, <1>5, <1>6, <2>1
<1>8. <<>> \o t = t  BY Nothing
<1>9. QED  BY <1>1, <1>7, <1>8

\* What a command shows: its output is what precedes the second marker, its
\* status what precedes the byte that ends it.
LEMMA Showing ==
  ASSUME NEW c \in Commands
  PROVE  /\ Full(c) \in Bytes /\ Contains(Full(c), End) /\ Preceding(Full(c), End) = c.output
         /\ Following(Full(c), End) = c.status \o <<"U">>
         /\ c.status \o <<"U">> \in Bytes /\ Len(c.status \o <<"U">>) = Len(c.status) + 1
         /\ Contains(c.status \o <<"U">>, <<"U">>) /\ Preceding(c.status \o <<"U">>, <<"U">>) = c.status
<1>1. PICK o \in Bytes, v \in Bytes, U \in Bytes :
        /\ o = c.output /\ o \in Outputs /\ v = c.status /\ v \in Statuses /\ U = <<"U">>
        /\ Len(U) = 1 /\ U[1] = "U"
  BY Constants
<1>2. PICK w \in Bytes : /\ w = v \o U /\ Len(w) = Len(v) + 1 /\ w[Len(v) + 1] = "U"
                         /\ \A i \in 1 .. Len(v) : w[i] = v[i]
  <2>1. PICK w \in Bytes : /\ w = v \o U /\ Len(w) = Len(v) + Len(U)
                           /\ \A i \in 1 .. Len(U) : w[Len(v) + i] = U[i]
                           /\ \A i \in 1 .. Len(v) : w[i] = v[i]
    BY Joining
  <2>2. 1 \in 1 .. Len(U)  BY <1>1
  <2>3. QED  BY <1>1, <2>1, <2>2
<1>3. PICK a \in Bytes : a = o \o End  BY Constants, Joining
<1>4. Full(c) = a \o w
  <2>1. Regroups(a, v, U)  BY Association
  <2>2. Full(c) = (a \o v) \o U  BY <1>1, <1>3 DEF Full
  <2>3. QED  BY <1>2, <2>1, <2>2 DEF Regroups
<1>5. Places(End, o \o End) = {Len(o)}  BY <1>1, RandomAssumption
<1>6. Contains(a \o w, End) /\ Preceding(a \o w, End) = o /\ Following(a \o w, End) = w
  BY <1>3, <1>5, Alone, Constants
<1>7. Places(U, v \o U) = {Len(v)}
  <2>1. Len(v) \in Nat  BY LenProperties DEF Bytes
  <2>2. ASSUME NEW i \in Places(U, w) PROVE i = Len(v)
    <3>0. i \in Nat /\ i + Len(U) <= Len(w) /\ \A j \in 1 .. Len(U) : w[i + j] = U[j]
      BY <2>2, Place
    <3>1. i \in Nat /\ i + 1 <= Len(v) + 1 /\ 1 \in 1 .. Len(U)  BY <1>1, <1>2, <3>0
    <3>2. w[i + 1] = "U"  BY <1>1, <3>0, <3>1
    <3>3. ASSUME i < Len(v) PROVE FALSE
      <4>1. i + 1 \in 1 .. Len(v)  BY <2>1, <3>1, <3>3
      <4>2. w[i + 1] = v[i + 1]  BY <1>2, <4>1
      <4>3. v[i + 1] # "U"  BY <1>1, <4>1, RandomAssumption
      <4>4. QED  BY <3>2, <4>2, <4>3
    <3>4. QED  BY <2>1, <3>1, <3>3
  <2>3. Len(v) \in Places(U, w)
    <3>1. Len(v) + Len(U) <= Len(w)  BY <1>1, <1>2, <2>1
    <3>2. \A j \in 1 .. Len(U) : w[Len(v) + j] = U[j]  BY <1>1, <1>2
    <3>3. QED  BY <2>1, <3>1, <3>2, Place
  <2>4. QED  BY <1>2, <2>2, <2>3
<1>8. Contains((v \o U) \o <<>>, U) /\ Preceding((v \o U) \o <<>>, U) = v  BY <1>7, Alone, Nothing
<1>9. w \o <<>> = w  BY Nothing
<1>10. Full(c) \in Bytes  BY <1>4, Joining
<1>11. QED  BY <1>1, <1>2, <1>4, <1>6, <1>8, <1>9, <1>10

\* The echo does not hold the first marker; what is shown does after it.
LEMMA Echo ==
  ASSUME NEW c, NEW f \in Bytes, NEW b \in Before
  PROVE  /\ ~Contains(b, Begin)
         /\ Following((b \o Begin) \o f, Begin) = f
<1>1. b \in Bytes /\ Begin \in Bytes /\ Len(b) \in Nat /\ Len(Begin) \in Nat /\ Begin # <<>>
  BY Constants, LenProperties, MarkersAssumption DEF Bytes
<1>2. Places(Begin, b \o Begin) = {Len(b)}  BY RandomAssumption
<1>3. Following((b \o Begin) \o f, Begin) = f  BY <1>1, <1>2, Alone
<1>4. ASSUME Contains(b, Begin) PROVE FALSE
  <2>1. PICK i \in Places(Begin, b) : TRUE  BY <1>4 DEF Contains
  <2>2. i \in Nat /\ i + Len(Begin) <= Len(b) /\ \A j \in 1 .. Len(Begin) : b[i + j] = Begin[j]
    BY <1>1, Place
  <2>3. PICK u \in Bytes : u = b \o Begin /\ Len(u) = Len(b) + Len(Begin)  BY <1>1, Joining
  <2>4. ASSUME NEW j \in 1 .. Len(Begin) PROVE u[i + j] = Begin[j]
    <3>1. i + j \in 1 .. Len(b)  BY <1>1, <2>2
    <3>2. u[i + j] = b[i + j]  BY <1>1, <2>3, <3>1, Joining
    <3>3. QED  BY <2>2, <3>2
  <2>5. i + Len(Begin) <= Len(u)  BY <1>1, <2>2, <2>3
  <2>6. i \in Places(Begin, u)  BY <1>1, <2>2, <2>4, <2>5, Place
  <2>7. i = Len(b)  BY <1>2, <2>3, <2>6
  <2>8. Len(Begin) # 0  BY <1>1, Nothing
  <2>9. QED  BY <1>1, <2>2, <2>7, <2>8
<1>5. QED  BY <1>3, <1>4

LEMMA ShownIs ==
  ASSUME NEW c, c.output \in Bytes, c.status \in Bytes, NEW b \in Bytes
  PROVE  Full(c) \in Bytes /\ b \o Begin \in Bytes /\ Shown(c, b) = (b \o Begin) \o Full(c)
<1>1. PICK e \in Bytes, u \in Bytes : e = End /\ u = <<"U">>  BY Constants
<1>2. PICK a \in Bytes : a = b \o Begin  BY Constants, Joining
<1>3. PICK p \in Bytes : p = c.output \o e  BY Joining
<1>4. PICK q \in Bytes : q = p \o c.status  BY Joining
<1>5. q \o u \in Bytes  BY Joining
<1>6. Regroups(a, c.output, e) /\ Regroups(a, p, c.status) /\ Regroups(a, q, u)  BY Association
<1>7. (((a \o c.output) \o e) \o c.status) \o u = a \o (q \o u)
  BY <1>3, <1>4, <1>6 DEF Regroups
<1>8. Full(c) = q \o u  BY <1>1, <1>3, <1>4 DEF Full
<1>9. Shown(c, b) = (((a \o c.output) \o e) \o c.status) \o u  BY <1>1, <1>2 DEF Shown
<1>10. QED  BY <1>2, <1>5, <1>7, <1>8, <1>9

LEMMA InitIInv == Init => IInv
<1> SUFFICES ASSUME Init PROVE IInv  OBVIOUS
<1>1. /\ pending = <<>> /\ buf = <<>> /\ dst = <<>> /\ code = 0 /\ ~ok /\ started = FALSE
      /\ exec \in {"start", "over"} /\ ok = FALSE
  BY DEF Init
<1>2. CASE exec = "over" /\ command = Shell /\ arriving = <<>>
  BY <1>1, <1>2, Nothing
    DEF IInv, Typed, Stream, Unanswered, BufferIsBounded, StatusIsTheCommands
<1>3. ASSUME command \in Commands \cup {Refused}, exec = "start", NEW b \in Before,
             arriving \in {Shown(command, b), b}
      PROVE  IInv
  <2>1. b \in Bytes /\ Begin \in Bytes /\ End \in Bytes /\ <<"U">> \in Bytes  BY Constants
  <2>2. PICK o \in Bytes, v \in Bytes : o = command.output /\ v = command.status
    <3>1. Refused.output = <<>> /\ Refused.status = <<"0">> /\ <<"0">> \in Bytes
      BY Single, MarkersAssumption DEF Refused
    <3>2. QED  BY <1>3, <3>1, Constants, Nothing
  <2>3. PICK f \in Bytes : f = Full(command) /\ Shown(command, b) = (b \o Begin) \o f
    BY <2>1, <2>2, ShownIs
  <2>4. arriving \in Bytes /\ Rest = arriving
    <3>1. (b \o Begin) \o f \in Bytes  BY <2>1, Joining
    <3>2. arriving \in Bytes  BY <1>3, <2>1, <2>3, <3>1
    <3>3. QED  BY <1>1, <3>2, Nothing DEF Rest
  <2>5. Contains(Rest, Begin) => Following(Rest, Begin) = Full(command)
    BY <1>3, <2>3, <2>4, Echo
  <2>6. Typed  BY <1>1, <1>3, <2>4, Nothing, Constants DEF Typed
  <2>7. Stream  BY <1>1, <2>5 DEF Stream
  <2>8. Unanswered /\ BufferIsBounded /\ StatusIsTheCommands
    BY <1>1, <1>3 DEF Unanswered, BufferIsBounded, StatusIsTheCommands
  <2>9. QED  BY <2>6, <2>7, <2>8 DEF IInv
<1>4. QED  BY <1>2, <1>3 DEF Init

-----------------------------------------------------------------------------
(* The steps *)

\* What a round has in its hands, and what comes after it.
Got == buf \o Take(pending, Chunk)
Coming == Drop(pending, Chunk) \o arriving

LEMMA Reading ==
  ASSUME IInv
  PROVE  /\ Got \in Bytes /\ Coming \in Bytes /\ Drop(pending, Chunk) \in Bytes /\ Got \o Coming = Rest
         /\ \A b \in Bytes : (b \o Drop(pending, Chunk)) \o arriving = b \o Coming
<1>1. PICK b \in Bytes, p \in Bytes, a \in Bytes : b = buf /\ p = pending /\ a = arriving
  BY DEF IInv, Typed
<1>2. Chunk \in Nat  BY SizesAssumption
<1>3. PICK x \in Bytes, y \in Bytes : x = Take(p, Chunk) /\ y = Drop(p, Chunk) /\ x \o y = p
  BY <1>2, SplitAny
<1>4. PICK g \in Bytes : g = b \o x  BY Joining
<1>5. PICK z \in Bytes : z = y \o a  BY Joining
<1>6. Regroups(b, x, y) /\ Regroups(g, y, a)  BY Association
<1>7. g \o z = (b \o p) \o a  BY <1>3, <1>4, <1>5, <1>6 DEF Regroups
<1>8. ASSUME NEW c \in Bytes PROVE (c \o y) \o a = c \o z
  <2>1. Regroups(c, y, a)  BY Association
  <2>2. QED  BY <1>5, <2>1 DEF Regroups
<1>9. Got = g /\ Coming = z /\ Rest = (b \o p) \o a  BY <1>1, <1>3, <1>4, <1>5 DEF Got, Coming, Rest
<1>10. QED  BY <1>1, <1>3, <1>7, <1>8, <1>9

\* What comes after the buffer.
Behind == pending \o arriving

LEMMA AfterBuffer ==
  ASSUME IInv
  PROVE  Behind \in Bytes /\ \A b \in Bytes : (b \o pending) \o arriving = b \o Behind
<1>1. PICK p \in Bytes, a \in Bytes : p = pending /\ a = arriving  BY DEF IInv, Typed
<1>2. PICK z \in Bytes : z = p \o a  BY Joining
<1>3. ASSUME NEW b \in Bytes PROVE (b \o p) \o a = b \o z
  <2>1. Regroups(b, p, a)  BY Association
  <2>2. QED  BY <1>2, <2>1 DEF Regroups
<1>4. QED  BY <1>1, <1>2, <1>3 DEF Behind

\* Steps that only move what arrives, or end the session.
LEMMA SameStream ==
  ASSUME IInv, UNCHANGED <<command, exec, started, buf, dst, code, ok>>,
         pending' \in Bytes, arriving' \in Bytes, Rest' = Rest
  PROVE  IInv'
<1>1. Typed'  BY DEF IInv, Typed
<1>2. Stream'  BY DEF IInv, Stream
<1>3. (Unanswered /\ BufferIsBounded /\ StatusIsTheCommands)'
  BY DEF IInv, Unanswered, BufferIsBounded, StatusIsTheCommands
<1>4. QED  BY <1>1, <1>2, <1>3 DEF IInv

LEMMA SocketStep ==
  ASSUME IInv, Receive \/ Break \/ Copy, UNCHANGED execVars PROVE IInv'
<1>1. UNCHANGED <<command, exec, started, buf, dst, code, ok>>  BY DEF execVars, loop, answer
<1>2. CASE UNCHANGED reading
  <2>1. pending' \in Bytes /\ arriving' \in Bytes  BY <1>2 DEF reading, IInv, Typed
  <2>2. Rest' = Rest  BY <1>1, <1>2 DEF Rest, reading
  <2>3. QED  BY <1>1, <2>1, <2>2, SameStream
<1>3. CASE Receive
  <2>1. PICK a \in Bytes, b \in Bytes : a = arriving /\ b = buf  BY DEF IInv, Typed
  <2>2. PICK n \in Nat : pending = <<>> /\ pending' = Take(a, n) /\ arriving' = Drop(a, n)
    BY <1>3, <2>1 DEF Receive
  <2>3. PICK x \in Bytes, y \in Bytes : x = Take(a, n) /\ y = Drop(a, n) /\ x \o y = a
    BY SplitAny
  <2>4. Regroups(b, x, y)  BY Association
  <2>5. b \o <<>> = b  BY Nothing
  <2>6. Rest' = Rest  BY <1>1, <2>1, <2>2, <2>3, <2>4, <2>5 DEF Rest, Regroups
  <2>7. pending' \in Bytes /\ arriving' \in Bytes  BY <2>2, <2>3
  <2>8. QED  BY <1>1, <2>6, <2>7, SameStream
<1>4. QED  BY <1>2, <1>3 DEF Break, Copy, reading

LEMMA TimerStep == ASSUME IInv, TimerFires \/ TimerCloses PROVE IInv'
<1>1. UNCHANGED <<command, exec, started, buf, dst, code, ok>> /\ UNCHANGED reading
  BY DEF TimerFires, TimerCloses, loop, answer, socketVars
<1>2. pending' \in Bytes /\ arriving' \in Bytes  BY <1>1 DEF reading, IInv, Typed
<1>3. Rest' = Rest  BY <1>1 DEF Rest, reading
<1>4. QED  BY <1>1, <1>2, <1>3, SameStream

LEMMA ExecStep == ASSUME IInv, Exec PROVE IInv'
<1>1. /\ UNCHANGED <<command, started, buf, dst, pending, arriving>> /\ exec = "start"
      /\ \/ command.ok /\ exec' = "read" /\ UNCHANGED <<code, ok>>
         \/ exec' = "over" /\ code' = 1 /\ ok' = FALSE
  BY DEF Exec, Returns, answer, loop, socketVars, reading
<1>2. Rest' = Rest  BY <1>1 DEF Rest
<1>3. command # Shell /\ buf = <<>> /\ ~started /\ code = 0 /\ ~ok
  BY <1>1 DEF IInv, Typed, Unanswered
<1>4. command.ok => command \in Commands  BY <1>1, <1>3 DEF IInv, Typed, Refused
<1>5. Typed'  BY <1>1, <1>3, <1>4 DEF IInv, Typed
<1>6. Stream'  BY <1>1, <1>2, <1>3 DEF IInv, Stream
<1>7. Len(buf) = 0 /\ Len(Begin) \in Nat  BY <1>3, Nothing, Constants
<1>8. BufferIsBounded'  BY <1>1, <1>3, <1>7 DEF BufferIsBounded
<1>9. Unanswered' /\ StatusIsTheCommands'
  BY <1>1, <1>3 DEF IInv, Unanswered, StatusIsTheCommands
<1>10. QED  BY <1>5, <1>6, <1>8, <1>9 DEF IInv

LEMMA ReadErrorStep == ASSUME IInv, ReadError PROVE IInv'
<1>1. /\ UNCHANGED <<command, started, buf, pending, arriving>> /\ exec = "read"
      /\ exec' = "over" /\ code' = 255 /\ ok' = FALSE
  BY DEF ReadError, Returns, socketVars, reading
<1>2. command # Shell  BY <1>1 DEF IInv, Typed
<1>3. dst' \in Bytes
  <2>1. PICK n \in Nat : dst' = IF started THEN dst \o Take(buf, n) ELSE dst
    <3>1. PICK n \in 0 .. Len(buf) : dst' = IF started THEN dst \o Take(buf, n) ELSE dst
      BY DEF ReadError
    <3>2. n \in Nat  BY <3>1
    <3>3. QED  BY <3>1, <3>2
  <2>2. dst \in Bytes /\ Take(buf, n) \in Bytes  BY Taking DEF IInv, Typed
  <2>3. dst \o Take(buf, n) \in Bytes  BY <2>2, Joining
  <2>4. QED  BY <2>1, <2>2, <2>3
<1>4. Typed'  BY <1>1, <1>2, <1>3 DEF IInv, Typed
<1>5. (Stream /\ Unanswered /\ BufferIsBounded /\ StatusIsTheCommands)'
  BY <1>1, <1>2 DEF IInv, Stream, Unanswered, BufferIsBounded, StatusIsTheCommands
<1>6. QED  BY <1>4, <1>5 DEF IInv

-----------------------------------------------------------------------------
(* A round of readExec *)

\* After the first marker the output and the second marker are ahead.
LEMMA BeginStep ==
  ASSUME IInv, exec = "read", started \/ Contains(Got, Begin), Begun(Got), command' = command,
         pending' = Drop(pending, Chunk), arriving' = arriving, UNCHANGED answer
  PROVE  IInv'
<1>1. command \in Commands /\ ~ok /\ code = 0 /\ command # Shell
  BY Constants DEF IInv, Typed, Unanswered
<1>2. PICK g \in Bytes, t \in Bytes : g = Got /\ t = Coming /\ g \o t = Rest  BY Reading
<1>3. /\ exec' = "pass" /\ started' = TRUE /\ UNCHANGED <<dst, code, ok>>
      /\ buf' = IF started THEN g ELSE Following(g, Begin)
  BY <1>2 DEF Begun, answer
<1>4. PICK s \in Bytes : s = buf' /\ Ahead(dst, command, s \o t)
  <2>1. CASE started
    <3>1. Ahead(dst, command, Rest)  BY <1>1, <2>1 DEF IInv, Stream
    <3>2. QED  BY <1>2, <1>3, <2>1, <3>1
  <2>2. CASE ~started
    <3>1. Contains(g, Begin)  BY <1>2, <2>2
    <3>2. PICK s \in Bytes : s = Following(g, Begin)  BY <3>1, Pieces, Constants
    <3>3. Contains(g \o t, Begin) /\ Following(g \o t, Begin) = s \o t
      BY <3>1, <3>2, Found, Constants
    <3>4. s \o t = Full(command) /\ dst = <<>>  BY <1>1, <1>2, <2>2, <3>3 DEF IInv, Stream
    <3>5. /\ Contains(s \o t, End) /\ Preceding(s \o t, End) = command.output
          /\ Following(s \o t, End) = command.status \o <<"U">>
      BY <1>1, <3>4, Showing
    <3>6. dst \o command.output = command.output  BY <1>1, <3>4, Constants, Nothing
    <3>7. Ahead(dst, command, s \o t)  BY <3>5, <3>6 DEF Ahead
    <3>8. QED  BY <1>3, <2>2, <3>2, <3>7
  <2>3. QED  BY <2>1, <2>2
<1>5. Rest' = s \o t
  <2>1. (s \o Drop(pending, Chunk)) \o arriving = s \o t  BY <1>2, <1>4, Reading
  <2>2. QED  BY <1>4, <2>1 DEF Rest
<1>6. pending' \in Bytes /\ arriving' \in Bytes  BY Reading DEF IInv, Typed
<1>7. Typed'  BY <1>1, <1>3, <1>4, <1>6 DEF IInv, Typed
<1>8. Stream'  BY <1>3, <1>4, <1>5 DEF Stream
<1>9. (Unanswered /\ BufferIsBounded /\ StatusIsTheCommands)'
  BY <1>1, <1>3 DEF Unanswered, BufferIsBounded, StatusIsTheCommands
<1>10. QED  BY <1>7, <1>8, <1>9 DEF IInv

\* What is in the buffer when it is passed on.
Taken(s) ==
  /\ s \in Bytes /\ exec = "pass" /\ command \in Commands
  /\ Ahead(dst, command, s \o Behind) /\ ~ok /\ code = 0

LEMMA HasTaken == ASSUME IInv, exec = "pass" PROVE Taken(buf)
<1>1. command \in Commands /\ ~ok /\ code = 0 /\ buf \in Bytes /\ started
  BY DEF IInv, Typed, Unanswered
<1>2. Rest = buf \o Behind  BY <1>1, AfterBuffer DEF Rest
<1>3. Ahead(dst, command, Rest)  BY <1>1 DEF IInv, Stream
<1>4. QED  BY <1>1, <1>2, <1>3 DEF Taken

\* What passing on leaves is again ahead, and the reading goes on.
LEMMA GoesOn ==
  ASSUME IInv, NEW s, Taken(s), command' = command, started' = TRUE, UNCHANGED <<pending, arriving>>,
         exec' = "read", UNCHANGED <<code, ok>>, dst' \in Bytes, buf' \in Bytes,
         Ahead(dst', command, buf' \o Behind), Len(buf') <= Len(End) + 4
  PROVE  IInv'
<1>1. Rest' = buf' \o Behind  BY AfterBuffer DEF Rest
<1>2. pending' \in Bytes /\ arriving' \in Bytes  BY DEF IInv, Typed
<1>3. command # Shell /\ ~ok /\ code = 0 /\ command \in Commands  BY Constants DEF Taken
<1>4. Typed'  BY <1>2, <1>3 DEF IInv, Typed
<1>5. Stream'  BY <1>1 DEF Stream
<1>6. (Unanswered /\ BufferIsBounded /\ StatusIsTheCommands)'
  BY <1>3 DEF Unanswered, BufferIsBounded, StatusIsTheCommands
<1>7. QED  BY <1>4, <1>5, <1>6 DEF IInv

\* The reading is over.
LEMMA Answered ==
  ASSUME IInv, NEW s, Taken(s), command' = command, started' = TRUE, UNCHANGED <<pending, arriving>>,
         exec' = "over", ok' \in BOOLEAN, dst' \in Bytes, buf' \in Bytes,
         ok' => dst' = command.output /\ IsStatus(command.status) /\ code' = Number(command.status),
         ~ok' => code' = 1 /\ (buf' # <<>> => ~IsStatus(command.status))
  PROVE  IInv'
<1>1. pending' \in Bytes /\ arriving' \in Bytes  BY DEF IInv, Typed
<1>2. command # Shell  BY Constants DEF Taken
<1>3. Typed'  BY <1>1, <1>2 DEF IInv, Typed
<1>4. Stream' /\ Unanswered' /\ BufferIsBounded'  BY <1>2 DEF Stream, Unanswered, BufferIsBounded
<1>5. StatusIsTheCommands'  BY <1>2 DEF StatusIsTheCommands
<1>6. QED  BY <1>3, <1>4, <1>5 DEF IInv

LEMMA SkipStep ==
  ASSUME IInv, exec = "read", ~started, ~Contains(Got, Begin), Skip(Got), command' = command,
         pending' = Drop(pending, Chunk), arriving' = arriving, UNCHANGED answer
  PROVE  IInv'
<1>1. PICK g \in Bytes, t \in Bytes : g = Got /\ t = Coming /\ g \o t = Rest  BY Reading
<1>2. command \in Commands /\ ~ok /\ code = 0 /\ command # Shell
  BY Constants DEF IInv, Typed, Unanswered
<1>3. UNCHANGED <<started, dst, exec, code, ok>> /\ buf' = Tail_(g, Begin)
  BY <1>1 DEF Skip, answer
<1>4. /\ Tail_(g, Begin) \in Bytes /\ Len(Tail_(g, Begin)) <= Len(Begin)
      /\ Contains(Tail_(g, Begin) \o t, Begin) =>
           Contains(g \o t, Begin) /\ Following(g \o t, Begin) = Following(Tail_(g, Begin) \o t, Begin)
  BY <1>1, Kept, Constants
<1>5. Rest' = Tail_(g, Begin) \o t  BY <1>1, <1>3, <1>4, Reading DEF Rest
<1>6. pending' \in Bytes /\ arriving' \in Bytes  BY Reading DEF IInv, Typed
<1>7. Typed'  BY <1>3, <1>4, <1>6 DEF IInv, Typed
<1>8. Stream'  BY <1>1, <1>2, <1>3, <1>4, <1>5 DEF IInv, Stream
<1>9. (Unanswered /\ BufferIsBounded /\ StatusIsTheCommands)'
  BY <1>2, <1>3, <1>4 DEF Unanswered, BufferIsBounded, StatusIsTheCommands
<1>10. QED  BY <1>7, <1>8, <1>9 DEF IInv

\* What PassOn passes on and keeps.
LEMMA PassingOn ==
  ASSUME IInv, NEW s \in Bytes, Taken(s), PassOn(s)
  PROVE  /\ dst' \in Bytes /\ buf' \in Bytes /\ Len(buf') <= Len(End)
         /\ Ahead(dst', command, buf' \o Behind)
<1>1. PICK t \in Bytes : t = Behind  BY AfterBuffer
<1>2. PICK x \in Bytes, r \in Bytes :
        /\ x = PassesSafely(s, End) /\ r = Tail_(s, End) /\ Len(r) <= Len(End)
        /\ Contains(s \o t, End) => Contains(r \o t, End)
        /\ Contains(r \o t, End) => /\ Preceding(s \o t, End) = x \o Preceding(r \o t, End)
                                    /\ Following(s \o t, End) = Following(r \o t, End)
  <2>1. End \in Bytes /\ ~Contains(s, End)  BY Constants DEF PassOn
  <2>2. /\ PassesSafely(s, End) \in Bytes /\ Tail_(s, End) \in Bytes
        /\ Len(Tail_(s, End)) <= Len(End)
        /\ Contains(s \o t, End) => Contains(Tail_(s, End) \o t, End)
        /\ Contains(Tail_(s, End) \o t, End) =>
             /\ Preceding(s \o t, End) = PassesSafely(s, End) \o Preceding(Tail_(s, End) \o t, End)
             /\ Following(s \o t, End) = Following(Tail_(s, End) \o t, End)
    BY <2>1, Kept
  <2>3. QED  BY <2>2
<1>3. /\ Contains(s \o t, End) /\ dst \o Preceding(s \o t, End) = command.output
      /\ Following(s \o t, End) = command.status \o <<"U">>
  BY <1>1 DEF Taken, Ahead
<1>4. PICK d \in Bytes : d = dst  BY DEF IInv, Typed
<1>5. PICK e \in Bytes : e = d \o x  BY Joining
<1>6. dst' = e /\ buf' = r  BY <1>2, <1>4, <1>5 DEF PassOn
<1>7. PICK y \in Bytes : y = Preceding(r \o t, End)
  <2>1. PICK u \in Bytes : u = r \o t  BY Joining
  <2>2. QED  BY <1>2, <1>3, <2>1, Pieces, Constants
<1>8. Regroups(d, x, y)  BY Association
<1>9. e \o y = command.output  BY <1>2, <1>3, <1>4, <1>5, <1>7, <1>8 DEF Regroups
<1>10. Ahead(e, command, r \o t)  BY <1>2, <1>3, <1>7, <1>9 DEF Ahead
<1>11. QED  BY <1>1, <1>2, <1>6, <1>10

\* What is passed on and kept when the second marker is there.
LEMMA Finishing ==
  ASSUME IInv, NEW s \in Bytes, Taken(s), Contains(s, End)
  PROVE  LET marked == Drop(s, Len(Preceding(s, End)))
             status == Following(s, End)
         IN /\ dst \o Preceding(s, End) = command.output
            /\ marked \in Bytes /\ Ahead(command.output, command, marked \o Behind)
            /\ Contains(status, <<"U">>) => Preceding(status, <<"U">>) = command.status
            /\ TooLong(marked) => ~IsStatus(command.status)
<1>1. PICK t \in Bytes : t = Behind  BY AfterBuffer
<1>2. PICK U \in Bytes : U = <<"U">>  BY Constants
<1>3. /\ command \in Commands /\ s \in Bytes /\ dst \o Preceding(s \o t, End) = command.output
      /\ Following(s \o t, End) = command.status \o U
  BY <1>1, <1>2 DEF Taken, Ahead
<1>0. End \in Bytes  BY Constants
<1>4. PICK d \in Bytes, f \in Bytes :
        /\ d = Drop(s, Len(Preceding(s, End))) /\ f = Following(s, End)
        /\ Len(d) = Len(End) + Len(f) /\ Contains(d \o t, End) /\ Preceding(d \o t, End) = <<>>
        /\ Following(d \o t, End) = f \o t
  <2>1. Following(s, End) \in Bytes  BY <1>0, Pieces
  <2>2. PICK d : d = Drop(s, Len(Preceding(s, End)))  OBVIOUS
  <2>3. /\ d \in Bytes /\ Len(d) = Len(End) + Len(Following(s, End))
        /\ Contains(d \o t, End) /\ Preceding(d \o t, End) = <<>>
        /\ Following(d \o t, End) = Following(s, End) \o t
    BY <1>0, <2>2, FromMarker
  <2>4. QED  BY <2>1, <2>2, <2>3
<1>5. Preceding(s \o t, End) = Preceding(s, End) /\ Following(s \o t, End) = f \o t
  <2>1. /\ Preceding(s \o t, End) = Preceding(s, End)
        /\ Following(s \o t, End) = Following(s, End) \o t
    BY <1>0, Found
  <2>2. QED  BY <1>4, <2>1
<1>6. f \o t = command.status \o U  BY <1>3, <1>5
<1>7. Ahead(command.output, command, d \o t)
  <2>1. command.output \o <<>> = command.output  BY <1>3, Constants, Nothing
  <2>2. QED  BY <1>2, <1>4, <1>6, <2>1 DEF Ahead
<1>8. Contains(f, U) => Preceding(f, U) = command.status
  <2>1. Contains(f, U) => Preceding(f \o t, U) = Preceding(f, U)  BY Found
  <2>2. QED  BY <1>2, <1>3, <1>6, <2>1, Showing
<1>9. TooLong(d) => ~IsStatus(command.status)
  <2>1. SUFFICES ASSUME TooLong(d), IsStatus(command.status) PROVE FALSE  OBVIOUS
  <2>2. command.status \in Bytes /\ Len(command.status) <= 3
    BY <1>3, <2>1, Constants, RandomAssumption
  <2>3. Len(f \o t) = Len(command.status) + 1  BY <1>2, <1>3, <1>6, Showing
  <2>4. Len(f \o t) = Len(f) + Len(t) /\ Len(f) \in Nat  BY Joining
  <2>5. Len(t) \in Nat /\ Len(command.status) \in Nat /\ Len(End) \in Nat
    BY <2>2, Constants, LenProperties DEF Bytes
  <2>6. QED  BY <1>4, <2>1, <2>2, <2>3, <2>4, <2>5 DEF TooLong
<1>10. QED  BY <1>1, <1>2, <1>3, <1>4, <1>5, <1>7, <1>8, <1>9

LEMMA RoundStep == ASSUME IInv, Round PROVE IInv'
<1>1. /\ exec = "read" /\ command' = command /\ UNCHANGED answer
      /\ pending' = Drop(pending, Chunk) /\ arriving' = arriving
      /\ IF started \/ Contains(Got, Begin) THEN Begun(Got) ELSE Skip(Got)
  BY DEF Round, Read, Got
<1>2. CASE started \/ Contains(Got, Begin)  BY <1>1, <1>2, BeginStep
<1>3. CASE ~started /\ ~Contains(Got, Begin)  BY <1>1, <1>3, SkipStep
<1>4. QED  BY <1>2, <1>3

LEMMA PassStep == ASSUME IInv, Pass PROVE IInv'
<1>1. /\ exec = "pass" /\ command' = command /\ UNCHANGED <<pending, arriving>>
      /\ started' = started /\ started
  BY DEF Pass, socketVars, reading, IInv, Typed
<1>2. PICK s : s = buf  OBVIOUS
<1>3. Taken(s) /\ s \in Bytes  BY <1>1, <1>2, HasTaken DEF Taken
<1>4. started' = TRUE /\ (PassOn(s) \/ Finish(s) \/ PassingFails(s))
  BY <1>1, <1>2 DEF Pass, IInv, Typed
<1>5. CASE PassOn(s)
  <2>1. /\ dst' \in Bytes /\ buf' \in Bytes /\ Len(buf') <= Len(End)
        /\ Ahead(dst', command, buf' \o Behind)
    BY <1>3, <1>5, PassingOn
  <2>2. Len(buf') \in Nat /\ Len(End) \in Nat  BY <2>1, Constants, LenProperties DEF Bytes
  <2>3. exec' = "read" /\ UNCHANGED <<code, ok>>  BY <1>5 DEF PassOn, answer
  <2>4. Len(buf') <= Len(End) + 4  BY <2>1, <2>2
  <2>5. QED  BY <1>1, <1>3, <1>4, <2>1, <2>3, <2>4, GoesOn
<1>6. CASE Finish(s)
  <2>1. PICK marked, status :
          marked = Drop(s, Len(Preceding(s, End))) /\ status = Following(s, End)
    OBVIOUS
  <2>2. /\ Contains(s, End) /\ dst' = dst \o Preceding(s, End) /\ buf' = marked
        /\ \/ /\ Contains(status, <<"U">>) /\ exec' = "over"
              /\ LET v == Preceding(status, <<"U">>)
                 IN \/ IsStatus(v) /\ code' = Number(v) /\ ok' = TRUE
                    \/ ~IsStatus(v) /\ code' = 1 /\ ok' = FALSE
           \/ TooLong(marked) /\ exec' = "over" /\ code' = 1 /\ ok' = FALSE
           \/ ~TooLong(marked) /\ exec' = "read" /\ UNCHANGED <<code, ok>>
    BY <1>6, <2>1 DEF Finish, Returns, answer
  <2>3. /\ dst \o Preceding(s, End) = command.output
        /\ marked \in Bytes /\ Ahead(command.output, command, marked \o Behind)
        /\ Contains(status, <<"U">>) => Preceding(status, <<"U">>) = command.status
        /\ TooLong(marked) => ~IsStatus(command.status)
    BY <1>3, <2>1, <2>2, Finishing
  <2>4. dst' = command.output /\ dst' \in Bytes /\ buf' \in Bytes
    BY <1>3, <2>2, <2>3, Constants DEF Taken
  <2>5. CASE exec' = "over" /\ (ok' = TRUE \/ ok' = FALSE)
    <3>1. ok' => IsStatus(command.status) /\ code' = Number(command.status)
      BY <1>3, <2>2, <2>3, <2>5 DEF Taken
    <3>2. ~ok' => code' = 1 /\ ~IsStatus(command.status)
      BY <1>3, <2>2, <2>3, <2>5 DEF Taken
    <3>3. QED  BY <1>1, <1>3, <1>4, <2>4, <2>5, <3>1, <3>2, Answered
  <2>6. CASE ~TooLong(marked) /\ exec' = "read" /\ UNCHANGED <<code, ok>>
    <3>1. Len(marked) \in Nat /\ Len(End) \in Nat  BY <2>3, Constants, LenProperties DEF Bytes
    <3>2. Len(buf') <= Len(End) + 4  BY <2>2, <2>6, <3>1 DEF TooLong
    <3>3. Ahead(dst', command, buf' \o Behind)  BY <2>2, <2>3, <2>4
    <3>4. QED  BY <1>1, <1>3, <1>4, <2>4, <2>6, <3>2, <3>3, GoesOn
  <2>7. QED  BY <2>2, <2>5, <2>6
<1>7. CASE PassingFails(s)
  <2>1. PICK n \in Nat : dst' = dst \o Take(s, n)
    <3>1. PICK n \in 0 .. Len(Written(s)) : dst' = dst \o Take(s, n)
      BY <1>7 DEF PassingFails
    <3>2. n \in Nat  BY <3>1
    <3>3. QED  BY <3>1, <3>2
  <2>2. Take(s, n) \in Bytes /\ dst \in Bytes  BY <1>3, Taking DEF IInv, Typed
  <2>3. dst' \in Bytes  BY <2>1, <2>2, Joining
  <2>4. buf' = <<>> /\ buf' \in Bytes /\ exec' = "over" /\ code' = 1 /\ ok' = FALSE
    BY <1>7, Nothing DEF PassingFails, Returns
  <2>5. QED  BY <1>1, <1>3, <1>4, <2>3, <2>4, Answered
<1>8. QED  BY <1>4, <1>5, <1>6, <1>7

LEMMA Invariance == Spec => []IInv
<1>1. ASSUME IInv, [Next]_vars PROVE IInv'
  <2>1. CASE UNCHANGED vars
    <3>1. UNCHANGED <<command, exec, started, buf, dst, code, ok, pending, arriving>>
      BY <2>1 DEF vars, socketVars, execVars, loop, answer, reading
    <3>2. Rest' = Rest /\ pending' \in Bytes /\ arriving' \in Bytes
      BY <1>1, <3>1 DEF Rest, IInv, Typed
    <3>3. QED  BY <1>1, <3>1, <3>2, SameStream
  <2>2. CASE Next
    BY <1>1, <2>2, SocketStep, ExecStep, TimerStep, RoundStep, PassStep, ReadErrorStep DEF Next
  <2>3. QED  BY <1>1, <2>1, <2>2
<1>2. QED  BY <1>1, InitIInv, PTL DEF Spec

\* A status that is reported is the command's, and all of its output is before
\* it, however the markers and the status are cut: for any markers, commands,
\* messages and sizes of reads.
THEOREM StatusIsReported == Spec => []StatusIsTheCommands
<1>1. IInv => StatusIsTheCommands  BY DEF IInv
<1>2. QED  BY <1>1, Invariance, PTL

\* readExec never holds back more than a marker and a status.
THEOREM BufferBounded == Spec => []BufferIsBounded
<1>1. IInv => BufferIsBounded  BY DEF IInv
<1>2. QED  BY <1>1, Invariance, PTL

-----------------------------------------------------------------------------
(* The output is relayed *)

Passing == IF exec = "over" /\ ~ok THEN Take(dst, Len(command.output)) ELSE dst
Over == IF command = Shell \/ exec # "over" THEN "no" ELSE IF ok THEN "complete" ELSE "cut"

LEMMA InitRelays == Init => Output!Init
<1> SUFFICES ASSUME Init PROVE Output!Init  OBVIOUS
<1>1. IInv  BY InitIInv
<1>2. dst = <<>>  BY DEF Init
<1>3. Over = "no" BY DEF Init, Over
<1>4. Take(<<>>, Len(command.output)) = <<>>
  <2>1. PICK o \in Bytes : o = command.output
    BY <1>1, Constants, Nothing DEF IInv, Typed, Refused, Shell
  <2>2. Len(o) \in Nat  BY LenProperties DEF Bytes
  <2>3. Take(<<>>, Len(o)) \in Bytes /\ Len(Take(<<>>, Len(o))) = Least(Len(o), 0)
    BY <2>2, Taking, Nothing
  <2>4. Least(Len(o), 0) = 0  BY <2>2 DEF Least
  <2>5. QED  BY <2>1, <2>3, <2>4, Nothing
<1>5. Passing = <<>>  BY <1>2, <1>4 DEF Passing
<1>6. QED  BY <1>3, <1>5 DEF Output!Init, Passing, Over

\* What is passed on before and after a part that is ahead.
LEMMA CutOff ==
  ASSUME NEW d \in Bytes, NEW x \in Bytes, NEW w \in Bytes, NEW c \in Commands, Ahead(d, c, x \o w)
  PROVE  /\ Len(d) \in Nat /\ Len(d) <= Len(c.output)
         /\ \E n \in Len(d) .. Len(c.output) : Take(d \o x, Len(c.output)) = SubSeq(c.output, 1, n)
<1>1. PICK r \in Bytes, o \in Bytes : r = x \o w /\ o = c.output  BY Joining, Constants
<1>2. PICK p \in Bytes, z \in Bytes : d \o p = o /\ p \o z = r
  <2>1. End \in Bytes /\ Contains(r, End) /\ d \o Preceding(r, End) = o
    BY <1>1, Constants DEF Ahead
  <2>2. /\ Preceding(r, End) = Take(r, First(r, End)) /\ Preceding(r, End) \in Bytes
        /\ First(r, End) \in Nat
    BY <2>1, Pieces, FirstPlace
  <2>3. PICK k \in Nat : k = First(r, End)  BY <2>2
  <2>4. Drop(r, k) \in Bytes /\ Take(r, k) \o Drop(r, k) = r  BY SplitAny
  <2>5. QED  BY <2>1, <2>2, <2>3, <2>4
<1>3. PICK y \in Bytes : y = d \o x /\ Len(y) = Len(d) + Len(x)  BY Joining
<1>4. y \o w = o \o z
  <2>1. Regroups(d, x, w) /\ Regroups(d, p, z)  BY Association
  <2>2. QED  BY <1>1, <1>2, <1>3, <2>1 DEF Regroups
<1>5. Len(d) \in Nat /\ Len(x) \in Nat /\ Len(p) \in Nat /\ Len(o) = Len(d) + Len(p)
  BY <1>2, Joining, LenProperties DEF Bytes
<1>6. PICK n \in Nat : n = Least(Len(y), Len(o)) /\ Len(d) <= n /\ n <= Len(o)
  BY <1>3, <1>5 DEF Least
<1>7. Take(y, Len(o)) = SubSeq(o, 1, n)
  <2>1. Joins(y, w, y \o w) /\ Joins(o, z, y \o w)  BY <1>4 DEF Joins
  <2>2. Take(y, Len(o)) = SubSeq(o, 1, Least(Len(y), Len(o)))  BY <2>1, Limited
  <2>3. QED  BY <1>6, <2>2
<1>8. n \in Len(d) .. Len(o)  BY <1>5, <1>6
<1>9. QED  BY <1>1, <1>3, <1>5, <1>6, <1>7, <1>8

\* A step that passes a part of the output on, and those that pass nothing on.
Extends(d, o) ==
  /\ Over = "no" /\ command' = command /\ command.output = o /\ Passing = d
  /\ \E n \in Len(d) .. Len(o) :
       /\ Passing' = SubSeq(o, 1, n)
       /\ Over' \in {"no", "cut"} \/ (n = Len(o) /\ Over' = "complete")

LEMMA Passes == ASSUME NEW d, NEW o, Extends(d, o) PROVE Output!Pass
BY DEF Output!Pass, Passing, Over, Extends

LEMMA PassesNothing ==
  ASSUME UNCHANGED <<command, dst, ok>>, exec' = exec \/ (exec # "over" /\ exec' # "over")
  PROVE  UNCHANGED <<command.output, Passing, Over>>
BY DEF Passing, Over

\* What follows the first marker is passed on.
LEMMA PassRelays ==
  ASSUME IInv, IInv', NEW s, Taken(s), started' = TRUE, command' = command,
         PassOn(s) \/ Finish(s) \/ PassingFails(s)
  PROVE  Output!Pass
<1>1. PICK d \in Bytes, t \in Bytes : d = dst /\ t = Behind  BY AfterBuffer DEF IInv, Typed
<1>2. /\ s \in Bytes /\ command \in Commands /\ command # Shell /\ exec = "pass" /\ ~ok
      /\ Ahead(d, command, s \o t)
  BY <1>1, Constants DEF Taken
<1>3. PICK c \in Commands : c = command  BY <1>2
<1>4. Over = "no" /\ Passing = d  BY <1>1, <1>2 DEF Over, Passing
<1>5. PICK o \in Bytes : o = command.output  BY <1>2, Constants
<1>6. Len(d) \in Nat /\ Len(d) <= Len(o) /\ Len(o) \in Nat
  <2>1. Len(d) \in Nat /\ Len(d) <= Len(c.output)  BY <1>1, <1>2, <1>3, CutOff
  <2>2. QED  BY <1>3, <1>5, <2>1, LenProperties DEF Bytes
<1>7. CASE exec' = "over" /\ ~ok' /\ \E n \in Len(d) .. Len(o) : Take(dst', Len(o)) = SubSeq(o, 1, n)
  <2>1. PICK n \in Len(d) .. Len(o) : Take(dst', Len(o)) = SubSeq(o, 1, n)  BY <1>7
  <2>2. Passing' = SubSeq(o, 1, n) /\ Over' = "cut"  BY <1>2, <1>5, <1>7, <2>1 DEF Passing, Over
  <2>3. Extends(d, o)  BY <1>4, <1>5, <2>1, <2>2 DEF Extends
  <2>4. QED  BY <2>3, Passes
<1>8. CASE exec' = "over" /\ ok'
  <2>1. dst' = o  BY <1>5, <1>8 DEF IInv, StatusIsTheCommands
  <2>2. Passing' = SubSeq(o, 1, Len(o))  BY <1>8, <2>1, SubSeqFull DEF Passing, Bytes
  <2>3. Over' = "complete"  BY <1>2, <1>8 DEF Over
  <2>4. Len(o) \in Len(d) .. Len(o)  BY <1>6
  <2>5. Extends(d, o)  BY <1>4, <1>5, <2>2, <2>3, <2>4 DEF Extends
  <2>6. QED  BY <2>5, Passes
<1>9. CASE exec' = "read" /\ PassOn(s)
  <2>1. /\ dst' \in Bytes /\ buf' \in Bytes /\ Ahead(dst', command, buf' \o Behind)
        /\ dst' = dst \o PassesSafely(s, End)
    BY <1>2, <1>9, PassingOn DEF PassOn
  <2>2. PICK e \in Bytes, b \in Bytes, x \in Bytes :
          e = dst' /\ b = buf' /\ x = PassesSafely(s, End) /\ e = d \o x
    <3>1. PassesSafely(s, End) \in Bytes  BY <1>2, <1>9, Kept, Constants DEF PassOn
    <3>2. QED  BY <1>1, <2>1, <3>1
  <2>3. Len(e) = Len(d) + Len(x) /\ Len(x) \in Nat  BY <2>2, Joining, LenProperties DEF Bytes
  <2>4. Len(e) \in Nat /\ Len(e) <= Len(c.output)
    BY <1>1, <1>3, <2>1, <2>2, CutOff
  <2>5. e = SubSeq(o, 1, Len(e))
    <3>1. PICK p \in Bytes : e \o p = o
      <4>1. PICK r \in Bytes : r = b \o t  BY Joining
      <4>2. Contains(r, End) /\ e \o Preceding(r, End) = o
        BY <1>1, <1>5, <2>1, <2>2, <4>1 DEF Ahead
      <4>3. Preceding(r, End) \in Bytes  BY <4>2, Pieces, Constants
      <4>4. QED  BY <4>2, <4>3
    <3>2. SubSeq(e \o p, 1, Len(e)) = e  BY Beginning
    <3>3. QED  BY <3>1, <3>2
  <2>6. Len(e) \in Len(d) .. Len(o)  BY <1>3, <1>5, <1>6, <2>3, <2>4
  <2>7. Passing' = SubSeq(o, 1, Len(e)) /\ Over' = "no"  BY <1>9, <2>2, <2>5 DEF Passing, Over
  <2>8. Extends(d, o)  BY <1>4, <1>5, <2>6, <2>7 DEF Extends
  <2>9. QED  BY <2>8, Passes
<1>10. CASE Finish(s) /\ ~ok'
  <2>1. dst' = o
    <3>1. Contains(s, End) /\ dst' = dst \o Preceding(s, End)  BY <1>10 DEF Finish
    <3>2. dst \o Preceding(s, End) = command.output  BY <1>2, <3>1, Finishing
    <3>3. QED  BY <1>5, <3>1, <3>2
  <2>2. o = SubSeq(o, 1, Len(o)) /\ Len(o) \in Len(d) .. Len(o)  BY <1>6, SubSeqFull DEF Bytes
  <2>3. Take(o, Len(o)) = o  BY <1>6, <2>2 DEF Take, Least
  <2>4. exec' \in {"read", "over"}  BY <1>2, <1>10 DEF Finish, Returns
  <2>5. Passing' = o /\ Over' \in {"no", "cut"}  BY <1>5, <1>10, <2>1, <2>3, <2>4 DEF Passing, Over
  <2>6. Extends(d, o)  BY <1>4, <1>5, <2>2, <2>5 DEF Extends
  <2>7. QED  BY <2>6, Passes
<1>11. CASE PassingFails(s)
  <2>1. PICK n \in 0 .. Len(Written(s)) : dst' = dst \o Take(s, n)
    BY <1>11 DEF PassingFails
  <2>2. exec' = "over" /\ ~ok' /\ n \in Nat  BY <1>11, <2>1 DEF PassingFails, Returns
  <2>3. PICK x \in Bytes, y \in Bytes : x = Take(s, n) /\ y = Drop(s, n) /\ x \o y = s
    BY <1>2, <2>2, SplitAny
  <2>4. PICK w \in Bytes : w = y \o t  BY Joining
  <2>5. Regroups(x, y, t)  BY Association
  <2>6. x \o w = s \o t  BY <2>3, <2>4, <2>5 DEF Regroups
  <2>7. Ahead(d, c, x \o w)  BY <1>2, <1>3, <2>6
  <2>8. \E k \in Len(d) .. Len(c.output) : Take(d \o x, Len(c.output)) = SubSeq(c.output, 1, k)
    BY <2>7, CutOff
  <2>9. dst' = d \o x  BY <1>1, <2>1, <2>3
  <2>10. QED  BY <1>3, <1>5, <1>7, <2>2, <2>8, <2>9
<1>12. exec' \in {"read", "over"}  BY DEF IInv, Typed, PassOn, Finish, PassingFails, Returns, Taken
<1>13. CASE PassOn(s)
  <2>1. exec' = "read"  BY <1>2, <1>13 DEF PassOn
  <2>2. QED  BY <1>9, <1>13, <2>1
<1>14. CASE Finish(s)  BY <1>8, <1>10, <1>14, <1>12, <1>2 DEF Finish, Returns, answer
<1>15. QED  BY <1>11, <1>13, <1>14

LEMMA StepRelays ==
  ASSUME IInv, IInv', [Next]_vars
  PROVE  [Output!Pass]_<<command.output, Passing, Over>>
<1>1. CASE UNCHANGED <<command, exec, dst, ok>>  BY <1>1, PassesNothing
<1>2. CASE UNCHANGED vars  BY <1>1, <1>2 DEF vars, execVars, loop, answer
<1>3. CASE (Receive \/ Break \/ Copy) /\ UNCHANGED execVars
  BY <1>1, <1>3 DEF execVars, loop, answer
<1>4. CASE TimerFires \/ TimerCloses
  BY <1>1, <1>4 DEF TimerFires, TimerCloses, loop, answer
<1>5. CASE Exec
  <2>1. /\ UNCHANGED <<command, dst>> /\ exec = "start"
        /\ \/ exec' = "read" /\ UNCHANGED ok
           \/ exec' = "over" /\ ok' = FALSE
    BY <1>5 DEF Exec, Returns, answer, loop
  <2>2. dst = <<>> /\ ~ok /\ command # Shell  BY <2>1 DEF IInv, Typed, Unanswered
  <2>3. PICK o \in Bytes : o = command.output
    BY Constants, Nothing DEF IInv, Typed, Refused, Shell
  <2>4. Len(o) \in Nat /\ 0 \in 0 .. Len(o)  BY LenProperties DEF Bytes
  <2>5. Take(<<>>, Len(o)) = <<>> /\ SubSeq(o, 1, 0) = <<>>
    <3>1. <<>> \in Bytes /\ <<>> \o o = o /\ Len(<<>>) = 0  BY Nothing
    <3>2. SubSeq(o, 1, 0) = <<>>
      <4>1. SubSeq(<<>> \o o, 1, Len(<<>>)) = <<>>  BY <3>1, Beginning
      <4>2. QED  BY <3>1, <4>1
    <3>3. Take(<<>>, Len(o)) = SubSeq(o, 1, Least(Len(<<>>), Len(o)))
      <4>1. PICK n \in Bytes : n = <<>>  BY <3>1
      <4>2. n \o o = o \o n  BY <4>1, Nothing
      <4>3. Take(n, Len(o)) = SubSeq(o, 1, Least(Len(n), Len(o)))
        <5>1. Joins(n, o, n \o o) /\ Joins(o, n, n \o o)  BY <4>2 DEF Joins
        <5>2. QED  BY <5>1, Limited
      <4>4. QED  BY <4>1, <4>3
    <3>4. Least(0, Len(o)) = 0  BY <2>4 DEF Least
    <3>5. QED  BY <3>1, <3>2, <3>3, <3>4
  <2>6. Over = "no" /\ Passing = <<>> /\ Len(Passing) = 0  BY <2>1, <2>2, Nothing DEF Over, Passing
  <2>7. Over' \in {"no", "cut"} /\ Passing' = <<>>
    BY <2>1, <2>2, <2>3, <2>5 DEF Over, Passing
  <2>8. Passing' = SubSeq(command.output, 1, 0)  BY <2>3, <2>5, <2>7
  <2>9. Extends(<<>>, o)  BY <2>1, <2>3, <2>4, <2>6, <2>7, <2>8 DEF Extends
  <2>10. Output!Pass  BY <2>9, Passes
  <2>11. QED  BY <2>10
<1>6. CASE Round
  <2>1. UNCHANGED <<command, dst, ok>> /\ exec = "read" /\ exec' \in {"read", "pass"}
    BY <1>6 DEF Round, Begun, Skip, answer
  <2>2. QED  BY <2>1, PassesNothing
<1>8. CASE Pass
  <2>1. exec = "pass" /\ command' = command /\ started' = TRUE
    BY <1>8 DEF Pass, IInv, Typed
  <2>2. PICK s : s = buf  OBVIOUS
  <2>3. Taken(s)  BY <2>1, <2>2, HasTaken
  <2>4. PassOn(s) \/ Finish(s) \/ PassingFails(s)  BY <1>8, <2>2 DEF Pass
  <2>5. Output!Pass  BY <2>1, <2>3, <2>4, PassRelays
  <2>6. QED  BY <2>5
<1>7. CASE ReadError
  <2>1. /\ UNCHANGED command /\ exec = "read" /\ exec' = "over" /\ ok' = FALSE
    BY <1>7 DEF ReadError, Returns
  <2>2. command \in Commands /\ command # Shell /\ ~ok
    BY <2>1, Constants DEF IInv, Typed, Unanswered
  <2>3. PICK c \in Commands, o \in Bytes : c = command /\ o = c.output  BY <2>2, Constants
  <2>4. PICK d \in Bytes, b \in Bytes, p \in Bytes, a \in Bytes :
          d = dst /\ b = buf /\ p = pending /\ a = arriving
    BY DEF IInv, Typed
  <2>5. Over = "no" /\ Over' = "cut" /\ Passing = d /\ Passing' = Take(dst', Len(o))
    BY <2>1, <2>2, <2>3, <2>4 DEF Over, Passing
  <2>6. \E n \in Len(d) .. Len(o) : Take(dst', Len(o)) = SubSeq(o, 1, n)
    <3>0. PICK k \in Nat : dst' = IF started THEN d \o Take(b, k) ELSE d
      <4>1. PICK k \in 0 .. Len(buf) : dst' = IF started THEN dst \o Take(buf, k) ELSE dst
        BY <1>7 DEF ReadError
      <4>2. k \in Nat  BY <4>1
      <4>3. QED  BY <2>4, <4>1, <4>2
    <3>1. CASE started
      <4>1. Ahead(d, c, (b \o p) \o a)  BY <2>1, <2>2, <2>3, <2>4, <3>1 DEF IInv, Stream, Rest
      <4>2. PICK x \in Bytes, y \in Bytes : x = Take(b, k) /\ y = Drop(b, k) /\ x \o y = b
        BY <3>0, SplitAny
      <4>3. PICK v \in Bytes : v = p \o a  BY Joining
      <4>4. PICK w \in Bytes : w = y \o v  BY Joining
      <4>5. Regroups(b, p, a) /\ Regroups(x, y, v)  BY Association
      <4>6. Ahead(d, c, x \o w)  BY <4>1, <4>2, <4>3, <4>4, <4>5 DEF Regroups
      <4>7. \E n \in Len(d) .. Len(c.output) : Take(d \o x, Len(c.output)) = SubSeq(c.output, 1, n)
        BY <4>6, CutOff
      <4>8. QED  BY <2>3, <3>0, <3>1, <4>2, <4>7
    <3>2. CASE ~started
      <4>1. d = <<>> /\ dst' = d  BY <2>1, <2>2, <2>4, <3>0, <3>2 DEF IInv, Stream
      <4>2. d \o o = o \o d /\ Len(d) = 0 /\ Len(o) \in Nat
        BY <4>1, Nothing, LenProperties DEF Bytes
      <4>3. Take(d, Len(o)) = SubSeq(o, 1, Least(Len(d), Len(o)))
        <5>1. Joins(d, o, d \o o) /\ Joins(o, d, d \o o)  BY <4>2 DEF Joins
        <5>2. QED  BY <5>1, Limited
      <4>4. Least(Len(d), Len(o)) = 0 /\ 0 \in Len(d) .. Len(o)  BY <4>2 DEF Least
      <4>5. QED  BY <4>1, <4>3, <4>4
    <3>3. QED  BY <3>1, <3>2
  <2>7. Extends(d, o)  BY <2>1, <2>3, <2>5, <2>6 DEF Extends
  <2>8. Output!Pass  BY <2>7, Passes
  <2>9. QED  BY <2>8
<1>9. QED  BY <1>2, <1>3, <1>4, <1>5, <1>6, <1>7, <1>8 DEF Next

\* What the client gets is a beginning of the command's output at every moment,
\* all of it when a status is reported.
THEOREM OutputIsRelayed == Spec => RelaysOutput
<1>1. IInv /\ IInv' /\ [Next]_vars => [Output!Pass]_<<command.output, Passing, Over>>
  BY StepRelays
<1>2. QED
  BY <1>1, InitRelays, Invariance, PTL DEF Spec, RelaysOutput, Output!Spec, Passing, Over

-----------------------------------------------------------------------------
(* Whole characters *)

Part(x, s, a, b) ==
  /\ x \in Bytes /\ Len(x) = (IF a <= b THEN b - a + 1 ELSE 0)
  /\ \A i \in 1 .. b - a + 1 : x[i] = s[a + i - 1]

LEMMA Cut ==
  ASSUME NEW s \in Bytes, NEW a \in Nat \ {0}, NEW b \in Nat, b <= Len(s), NEW x, x = SubSeq(s, a, b)
  PROVE  Part(x, s, a, b)
<1>1. Len(s) \in Nat  BY LenProperties DEF Bytes
<1>2. \A i \in a .. b : s[i] \in Symbols  BY <1>1, ElementOfSeq DEF Bytes
<1>3. /\ SubSeq(s, a, b) \in Seq(Symbols) /\ Len(SubSeq(s, a, b)) = (IF a <= b THEN b - a + 1 ELSE 0)
      /\ \A i \in 1 .. b - a + 1 : SubSeq(s, a, b)[i] = s[a + i - 1]
  BY <1>1, <1>2, SubSeqProperties DEF Bytes
<1>4. QED  BY <1>3 DEF Part, Bytes

\* A part of what is joined is a part of the one or of the other.
LEMMA SamePart ==
  ASSUME NEW s \in Bytes, NEW u \in Bytes, NEW k \in Nat, NEW a \in Nat \ {0}, NEW b \in Nat,
         k + b <= Len(u), b <= Len(s), \A i \in a .. b : u[k + i] = s[i]
  PROVE  SubSeq(u, k + a, k + b) = SubSeq(s, a, b)
<1>1. PICK x : x = SubSeq(s, a, b)  OBVIOUS
<1>2. PICK m \in Nat \ {0}, n \in Nat : m = k + a /\ n = k + b /\ n <= Len(u)  OBVIOUS
<1>3. PICK y : y = SubSeq(u, m, n)  OBVIOUS
<1>4. Part(x, s, a, b)  BY <1>1, Cut
<1>5. Part(y, u, m, n)  BY <1>2, <1>3, Cut
<1>6. Len(y) = Len(x) /\ n - m + 1 = b - a + 1  BY <1>2, <1>4, <1>5 DEF Part
<1>7. ASSUME NEW i \in 1 .. Len(x) PROVE y[i] = x[i]
  <2>1. i \in 1 .. b - a + 1 /\ a + i - 1 \in a .. b /\ m + i - 1 = k + (a + i - 1)
    BY <1>2, <1>4 DEF Part
  <2>2. u[k + (a + i - 1)] = s[a + i - 1]  BY <2>1
  <2>3. QED  BY <1>4, <1>5, <1>6, <2>1, <2>2 DEF Part
<1>8. x = y  BY <1>4, <1>5, <1>6, <1>7, Same DEF Part
<1>9. QED  BY <1>1, <1>2, <1>3, <1>8

LEMMA Piece ==
  ASSUME NEW s \in Bytes, NEW t \in Bytes, NEW a \in Nat \ {0}, NEW b \in Nat
  PROVE  /\ b <= Len(s) => SubSeq(s \o t, a, b) = SubSeq(s, a, b)
         /\ b <= Len(t) => SubSeq(s \o t, Len(s) + a, Len(s) + b) = SubSeq(t, a, b)
<1>1. PICK u \in Bytes : /\ u = s \o t /\ Len(u) = Len(s) + Len(t)
                         /\ \A i \in 1 .. Len(s) : u[i] = s[i]
                         /\ \A i \in 1 .. Len(t) : u[Len(s) + i] = t[i]
  BY Joining
<1>2. PICK k \in Nat, n \in Nat : k = Len(s) /\ n = Len(t)  BY LenProperties DEF Bytes
<1>3. ASSUME b <= Len(s) PROVE SubSeq(u, a, b) = SubSeq(s, a, b)
  <2>1. \A i \in a .. b : u[0 + i] = s[i]  BY <1>1, <1>2, <1>3
  <2>2. 0 + b <= Len(u) /\ 0 + a = a /\ 0 + b = b  BY <1>1, <1>2, <1>3
  <2>3. SubSeq(u, 0 + a, 0 + b) = SubSeq(s, a, b)  BY <1>3, <2>1, <2>2, SamePart
  <2>4. QED  BY <2>2, <2>3
<1>4. ASSUME b <= Len(t) PROVE SubSeq(u, k + a, k + b) = SubSeq(t, a, b)
  <2>1. \A i \in a .. b : u[k + i] = t[i]  BY <1>1, <1>2, <1>4
  <2>2. k + b <= Len(u)  BY <1>1, <1>2, <1>4
  <2>3. QED  BY <1>4, <2>1, <2>2, SamePart
<1>5. QED  BY <1>1, <1>2, <1>3, <1>4

\* The function of WholeBytes: a place is the end of whole characters.
Ends(s, f, i) == i = 0 \/ \E w \in 1 .. Least(3, i) : f[i - w] /\ IsRune(SubSeq(s, i - w + 1, i))
Whole(s) == CHOOSE f : f = [i \in 0 .. Len(s) |-> Ends(s, f, i)]

LEMMA WholeBytesIs ==
  ASSUME NEW s PROVE WholeBytes(s) = Max({i \in 0 .. Len(s) : Whole(s)[i]})
BY DEF WholeBytes, Whole, Ends

\* It looks at earlier places only, so that there is one.
LEMMA EndsLooksBack ==
  ASSUME NEW s, NEW f, NEW g, NEW i \in Nat, \A j \in 0 .. i - 1 : f[j] = g[j]
  PROVE  Ends(s, f, i) = Ends(s, g, i)
<1>1. ASSUME NEW w \in 1 .. Least(3, i) PROVE i - w \in 0 .. i - 1  BY DEF Least
<1>2. ASSUME NEW w \in 1 .. Least(3, i) PROVE f[i - w] = g[i - w]  BY <1>1
<1>3. QED  BY <1>2 DEF Ends

LEMMA WholeIs ==
  ASSUME NEW s \in Bytes, NEW i \in 0 .. Len(s)
  PROVE  Whole(s)[i] = Ends(s, Whole(s), i)
<1> DEFINE Is(n, f) == f = [j \in 0 .. n |-> Ends(s, f, j)]
           T == {n \in Nat : ~\E f : Is(n, f)}
<1>1. Len(s) \in Nat  BY LenProperties DEF Bytes
<1>2. ASSUME T # {} PROVE FALSE
  <2>1. PICK n \in T : \A m \in T : n <= m  BY <1>2, Smallest
  <2>2. CASE n = 0
    <3>1. PICK f : f = [j \in 0 .. 0 |-> TRUE]  OBVIOUS
    <3>2. \A j \in 0 .. 0 : Ends(s, f, j) = TRUE  BY DEF Ends
    <3>3. f = [j \in 0 .. 0 |-> Ends(s, f, j)]  BY <3>1, <3>2
    <3>4. QED  BY <2>1, <2>2, <3>3
  <2>3. CASE n # 0
    <3>1. n - 1 \in Nat /\ ~(n <= n - 1) /\ n \in Nat  BY <2>1, <2>3
    <3>2. PICK g : Is(n - 1, g)  BY <2>1, <3>1
    <3>3. PICK f : f = [j \in 0 .. n |-> IF j < n THEN g[j] ELSE Ends(s, g, n)]  OBVIOUS
    <3>4. \A j \in 0 .. n - 1 : f[j] = g[j]  BY <3>1, <3>3
    <3>5. ASSUME NEW j \in 0 .. n PROVE f[j] = Ends(s, f, j)
      <4>1. \A k \in 0 .. j - 1 : f[k] = g[k]  BY <3>1, <3>4
      <4>2. Ends(s, f, j) = Ends(s, g, j)  BY <4>1, EndsLooksBack
      <4>3. CASE j < n
        <5>1. j \in 0 .. n - 1  BY <3>1, <4>3
        <5>2. g[j] = Ends(s, g, j)  BY <3>2, <5>1
        <5>3. QED  BY <3>4, <4>2, <5>1, <5>2
      <4>4. CASE ~(j < n)
        <5>1. j = n  BY <3>1, <4>4
        <5>2. f[j] = Ends(s, g, n)  BY <3>1, <3>3, <5>1
        <5>3. QED  BY <4>2, <5>1, <5>2
      <4>5. QED  BY <4>3, <4>4
    <3>6. f = [j \in 0 .. n |-> f[j]]  BY <3>3
    <3>7. f = [j \in 0 .. n |-> Ends(s, f, j)]  BY <3>5, <3>6
    <3>8. QED  BY <2>1, <3>7
  <2>4. QED  BY <2>2, <2>3
<1>3. \E f : Is(Len(s), f)  BY <1>1, <1>2
<1>4. Is(Len(s), Whole(s))  BY <1>3 DEF Whole
<1>5. QED  BY <1>4

LEMMA WholeBytesIn ==
  ASSUME NEW s \in Bytes
  PROVE  WholeBytes(s) \in 0 .. Len(s) /\ Whole(s)[WholeBytes(s)]
<1> DEFINE E == {i \in 0 .. Len(s) : Whole(s)[i]}
           T == {Len(s) - i : i \in E}
<1>1. Len(s) \in Nat  BY LenProperties DEF Bytes
<1>2. 0 \in E
  <2>1. 0 \in 0 .. Len(s)  BY <1>1
  <2>2. Whole(s)[0] = Ends(s, Whole(s), 0)  BY <2>1, WholeIs
  <2>3. Ends(s, Whole(s), 0)  BY DEF Ends
  <2>4. QED  BY <2>1, <2>2, <2>3
<1>3. \A i \in E : i \in Nat /\ i <= Len(s)  BY <1>1
<1> HIDE DEF E
<1>4. T \subseteq Nat /\ T # {}  BY <1>1, <1>2, <1>3
<1>5. PICK m \in T : \A y \in T : m <= y  BY <1>4, Smallest
<1>6. PICK x \in E : m = Len(s) - x  BY <1>5
<1>7. \A y \in E : x >= y
  <2>1. ASSUME NEW y \in E PROVE x >= y
    <3>1. Len(s) - y \in T  OBVIOUS
    <3>2. Len(s) - x <= Len(s) - y  BY <1>5, <1>6, <3>1
    <3>3. QED  BY <1>1, <1>3, <3>2
  <2>2. QED  BY <2>1
<1>8. Max(E) \in E  BY <1>7 DEF Max
<1>9. WholeBytes(s) \in E  BY <1>8, WholeBytesIs DEF E
<1>10. QED  BY <1>9 DEF E

LEMMA WholeBytesAll ==
  ASSUME NEW s \in Bytes, Whole(s)[Len(s)] PROVE WholeBytes(s) = Len(s)
<1> DEFINE E == {i \in 0 .. Len(s) : Whole(s)[i]}
<1>1. Len(s) \in Nat /\ Len(s) \in E  BY LenProperties DEF Bytes
<1>2. \A i \in E : i \in Nat /\ i <= Len(s)  BY <1>1
<1> HIDE DEF E
<1>3. \E x \in E : \A y \in E : x >= y  BY <1>1, <1>2
<1>4. Max(E) \in E /\ \A y \in E : Max(E) >= y  BY <1>3 DEF Max
<1>5. Max(E) = Len(s)  BY <1>1, <1>2, <1>4
<1>6. QED  BY <1>5, WholeBytesIs DEF E

\* Where a sequence ends does not depend on what follows.
LEMMA WholeBefore ==
  ASSUME NEW s \in Bytes, NEW t \in Bytes, NEW i \in 0 .. Len(s)
  PROVE  Whole(s \o t)[i] = Whole(s)[i]
<1> DEFINE T == {n \in 0 .. Len(s) : Whole(s \o t)[n] # Whole(s)[n]}
<1>1. Len(s) \in Nat /\ s \o t \in Bytes /\ Len(s \o t) \in Nat /\ Len(s) <= Len(s \o t)
  BY Joining, LenProperties DEF Bytes
<1>2. ASSUME T # {} PROVE FALSE
  <2>1. T \subseteq Nat  BY <1>1
  <2>2. PICK n \in T : \A m \in T : n <= m  BY <1>2, <2>1, Smallest
  <2>3. n \in 0 .. Len(s) /\ n \in 0 .. Len(s \o t) /\ n \in Nat /\ Whole(s \o t)[n] # Whole(s)[n]
    BY <1>1, <2>2
  <2>4. ASSUME NEW j \in 0 .. n - 1 PROVE Whole(s \o t)[j] = Whole(s)[j]
    <3>1. j \in 0 .. Len(s) /\ ~(n <= j)  BY <1>1, <2>3
    <3>2. QED  BY <2>2, <3>1
  <2>5. Ends(s \o t, Whole(s \o t), n) = Ends(s \o t, Whole(s), n)  BY <2>3, <2>4, EndsLooksBack
  <2>6. ASSUME NEW w \in 1 .. Least(3, n)
        PROVE  SubSeq(s \o t, n - w + 1, n) = SubSeq(s, n - w + 1, n)
    <3>1. PICK a \in Nat \ {0} : a = n - w + 1  BY <2>3 DEF Least
    <3>2. n <= Len(s)  BY <1>1, <2>3
    <3>3. QED  BY <2>3, <3>1, <3>2, Piece
  <2>7. Ends(s \o t, Whole(s), n) = Ends(s, Whole(s), n)  BY <2>6 DEF Ends
  <2>8. Whole(s \o t)[n] = Ends(s \o t, Whole(s \o t), n)
    <3>1. PICK u \in Bytes : u = s \o t  BY <1>1
    <3>2. n \in 0 .. Len(u)  BY <2>3, <3>1
    <3>3. Whole(u)[n] = Ends(u, Whole(u), n)  BY <3>2, WholeIs
    <3>4. QED  BY <3>1, <3>3
  <2>9. Whole(s)[n] = Ends(s, Whole(s), n)  BY <2>3, WholeIs
  <2>10. QED  BY <2>3, <2>5, <2>7, <2>8, <2>9
<1>3. QED  BY <1>2

\* Whole characters after whole characters.
LEMMA WholeJoined ==
  ASSUME NEW s \in Bytes, NEW t \in Bytes, Whole(s)[Len(s)], NEW i \in 0 .. Len(t), Whole(t)[i]
  PROVE  Whole(s \o t)[Len(s) + i]
<1> DEFINE T == {n \in 0 .. Len(t) : Whole(t)[n] /\ ~Whole(s \o t)[Len(s) + n]}
<1>1. PICK k \in Nat : k = Len(s)  BY LenProperties DEF Bytes
<1>2. PICK u \in Bytes : u = s \o t /\ Len(u) = k + Len(t) /\ Len(t) \in Nat
  BY <1>1, Joining, LenProperties DEF Bytes
<1>3. ASSUME T # {} PROVE FALSE
  <2>1. T \subseteq Nat  BY <1>2
  <2>2. PICK n \in T : \A m \in T : n <= m  BY <1>3, <2>1, Smallest
  <2>3. n \in 0 .. Len(t) /\ n \in Nat /\ Whole(t)[n] /\ ~Whole(u)[k + n]  BY <1>1, <1>2, <2>2
  <2>4. k + n \in 0 .. Len(u)  BY <1>2, <2>3
  <2>5. Whole(u)[k + n] = Ends(u, Whole(u), k + n)  BY <2>4, WholeIs
  <2>6. CASE n = 0
    <3>1. k \in 0 .. Len(s)  BY <1>1
    <3>2. Whole(s \o t)[k] = Whole(s)[k]  BY <3>1, WholeBefore
    <3>3. k + n = k  BY <2>6
    <3>4. QED  BY <1>1, <1>2, <2>3, <3>2, <3>3
  <2>7. CASE n # 0
    <3>1. Whole(t)[n] = Ends(t, Whole(t), n)  BY <2>3, WholeIs
    <3>2. PICK w \in 1 .. Least(3, n) : Whole(t)[n - w] /\ IsRune(SubSeq(t, n - w + 1, n))
      BY <2>3, <2>7, <3>1 DEF Ends
    <3>3. /\ n - w \in 0 .. Len(t) /\ ~(n <= n - w) /\ w \in 1 .. Least(3, k + n)
          /\ k + n - w = k + (n - w) /\ n <= Len(t)
      BY <1>2, <2>3 DEF Least
    <3>4. Whole(u)[k + (n - w)]  BY <1>1, <1>2, <2>2, <3>2, <3>3
    <3>5. SubSeq(u, k + n - w + 1, k + n) = SubSeq(t, n - w + 1, n)
      <4>1. PICK a \in Nat \ {0} : a = n - w + 1 /\ k + n - w + 1 = k + a
        BY <2>3 DEF Least
      <4>2. SubSeq(s \o t, Len(s) + a, Len(s) + n) = SubSeq(t, a, n)  BY <2>3, <3>3, Piece
      <4>3. QED  BY <1>1, <1>2, <4>1, <4>2
    <3>6. Ends(u, Whole(u), k + n)
      <4>1. PICK m : m = k + n  OBVIOUS
      <4>2. m - w = k + (n - w) /\ w \in 1 .. Least(3, m) /\ SubSeq(u, m - w + 1, m) = SubSeq(t, n - w + 1, n)
        BY <3>3, <3>5, <4>1
      <4>3. Ends(u, Whole(u), m)  BY <3>2, <3>4, <4>2 DEF Ends
      <4>4. QED  BY <4>1, <4>3
    <3>7. QED  BY <2>3, <2>5, <3>6
  <2>8. QED  BY <2>6, <2>7
<1>4. QED  BY <1>3

\* What Write sends is whole, and so is all that was sent.
LEMMA SentIsWhole ==
  ASSUME NEW s \in Bytes, NEW data \in Bytes, WholeBytes(s) = Len(s)
  PROVE  WholeBytes(s \o Take(data, WholeBytes(data))) = Len(s \o Take(data, WholeBytes(data)))
<1>1. PICK n \in 0 .. Len(data) : n = WholeBytes(data) /\ Whole(data)[n]  BY WholeBytesIn
<1>2. n \in Nat  BY LenProperties DEF Bytes
<1>3. PICK x \in Bytes, y \in Bytes : x = Take(data, n) /\ x \o y = data /\ Len(x) = n
  <2>1. PICK x \in Bytes, y \in Bytes :
          x = Take(data, n) /\ y = Drop(data, n) /\ Joins(x, y, data) /\ Len(x) = n
          /\ Len(y) = Len(data) - n
    BY <1>1, Halves
  <2>2. QED  BY <2>1 DEF Joins
<1>4. Whole(x)[n]
  <2>1. n \in 0 .. Len(x)  BY <1>2, <1>3
  <2>2. Whole(x \o y)[n] = Whole(x)[n]  BY <2>1, WholeBefore
  <2>3. QED  BY <1>1, <1>3, <2>2
<1>5. Whole(s)[Len(s)]  BY WholeBytesIn
<1>6. Whole(s \o x)[Len(s) + n]
  <2>1. n \in 0 .. Len(x)  BY <1>2, <1>3
  <2>2. QED  BY <1>4, <1>5, <2>1, WholeJoined
<1>7. PICK u \in Bytes : u = s \o x /\ Len(u) = Len(s) + n
  <2>1. s \o x \in Bytes /\ Len(s \o x) = Len(s) + Len(x)  BY Joining
  <2>2. QED  BY <1>3, <2>1
<1>8. WholeBytes(u) = Len(u)  BY <1>6, <1>7, WholeBytesAll
<1>9. QED  BY <1>1, <1>3, <1>7, <1>8

-----------------------------------------------------------------------------
(* The input *)

InputTyped ==
  /\ inputMode \in {"json", "binary"}
  /\ {input, incomplete, sent} \subseteq Bytes /\ typed \in 0 .. Len(input)

InputInv == InputTyped /\ InputIsWhole

\* What a Write adds to what was typed.
LEMMA TypedOn ==
  ASSUME NEW s \in Bytes, NEW k \in Nat, NEW n \in Nat, k + n <= Len(s)
  PROVE  \E p \in Bytes : p = SubSeq(s, k + 1, k + n) /\ Joins(Take(s, k), p, Take(s, k + n))
<1>1. PICK m \in Nat : m = k + n /\ m <= Len(s) /\ k <= m /\ k \in 0 .. m  OBVIOUS
<1>2. Len(s) \in Nat  BY LenProperties DEF Bytes
<1>3. PICK u \in Bytes : u = Take(s, m) /\ Len(u) = m /\ \A i \in 1 .. m : u[i] = s[i]
  BY <1>1, <1>2, Taking DEF Least
<1>4. k \in 0 .. Len(u) /\ Len(u) \in Nat  BY <1>1, <1>3
<1>5. Take(u, k) \o Drop(u, k) = u  BY <1>4, Split
<1>6. Take(u, k) = Take(s, k)
  <2>1. PICK x \in Bytes, y \in Bytes : /\ x = Take(u, k) /\ y = Take(s, k) /\ Len(x) = k /\ Len(y) = k
          /\ \A i \in 1 .. k : x[i] = u[i] /\ y[i] = s[i]
    BY <1>1, <1>2, <1>3, Taking DEF Least
  <2>2. \A i \in 1 .. k : x[i] = y[i]  BY <1>1, <1>3, <2>1
  <2>3. x = y  BY <2>1, <2>2, Same
  <2>4. QED  BY <2>1, <2>3
<1>7. Drop(u, k) = SubSeq(s, k + 1, m)
  <2>1. PICK a \in Nat \ {0} : a = k + 1  OBVIOUS
  <2>2. \A i \in a .. m : s[0 + i] = u[i]  BY <1>3, <2>1
  <2>3. SubSeq(s, 0 + a, 0 + m) = SubSeq(u, a, m)  BY <1>1, <1>3, <2>2, SamePart
  <2>4. QED  BY <1>3, <2>1, <2>3 DEF Drop
<1>8. Drop(u, k) \in Bytes  BY Dropping
<1>9. Joins(Take(s, k), Drop(u, k), u)  BY <1>5, <1>6 DEF Joins
<1>10. QED  BY <1>1, <1>3, <1>7, <1>8, <1>9

LEMMA InitInput == Init => InputInv
<1> SUFFICES ASSUME Init PROVE InputInv  OBVIOUS
<1>1. /\ inputMode \in {"json", "binary"} /\ typed = 0 /\ incomplete = <<>> /\ sent = <<>>
      /\ input = <<>> \/ input \in Inputs
  BY DEF Init
<1>2. <<>> \in Bytes /\ Len(<<>>) = 0 /\ <<>> \o <<>> = <<>>  BY Nothing
<1>3. PICK s \in Bytes : s = input  BY <1>1, <1>2, Constants
<1>4. 0 \in 0 .. Len(s) /\ Least(0, Len(s)) = 0 /\ Len(s) \in Nat  BY LenProperties DEF Bytes, Least
<1>5. Take(s, 0) = <<>>
  <2>1. Take(s, 0) \in Bytes /\ Len(Take(s, 0)) = 0  BY <1>4, Taking
  <2>2. QED  BY <2>1, Nothing
<1>6. WholeBytes(<<>>) = 0
  <2>1. WholeBytes(<<>>) \in 0 .. Len(<<>>)  BY <1>2, WholeBytesIn
  <2>2. QED  BY <1>2, <2>1
<1>7. InputTyped  BY <1>1, <1>2, <1>3, <1>4 DEF InputTyped
<1>8. InputIsWhole  BY <1>1, <1>2, <1>3, <1>5, <1>6 DEF InputIsWhole
<1>9. QED  BY <1>7, <1>8 DEF InputInv

LEMMA Unfinished ==
  ASSUME NEW s \in Bytes, ~FullRune(s) PROVE Len(s) < 3
<1>1. Len(s) \in Nat /\ ~(Len(s) >= Width(s[1]))  BY LenProperties DEF FullRune, Bytes
<1>2. Width(s[1]) \in {1, 2, 3}  BY DEF Width
<1>3. QED  BY <1>1, <1>2

\* A Write, with all that is not sent yet in `data'.
LEMMA Writing ==
  ASSUME InputInv, copier = "copying", NEW n \in Nat, typed + n <= Len(input),
         typed' = typed + n, Write(SubSeq(input, typed + 1, typed + n)),
         UNCHANGED <<inputMode, input>>
  PROVE  InputInv'
<1>1. PICK s \in Bytes, h \in Bytes, i \in Bytes, k \in Nat :
        s = sent /\ h = incomplete /\ i = input /\ k = typed /\ Len(i) \in Nat
  BY LenProperties DEF InputInv, InputTyped, Bytes
<1>2. PICK p \in Bytes : p = SubSeq(i, k + 1, k + n) /\ Take(i, k) \o p = Take(i, k + n)
  <2>1. PICK p \in Bytes : p = SubSeq(i, k + 1, k + n) /\ Joins(Take(i, k), p, Take(i, k + n))
    BY <1>1, TypedOn
  <2>2. QED  BY <2>1 DEF Joins
<1>3. s \o h = Take(i, k)  BY <1>1 DEF InputInv, InputIsWhole
<1>4. PICK data \in Bytes : data = (IF inputMode = "json" THEN h \o p ELSE p) /\ data = h \o p
  <2>1. inputMode = "binary" => h = <<>>  BY <1>1 DEF InputInv, InputIsWhole
  <2>2. h \o p \in Bytes /\ <<>> \o p = p  BY Joining, Nothing
  <2>3. QED  BY <2>1, <2>2 DEF InputInv, InputTyped
<1>5. PICK end \in Nat : /\ end = Sendable(data) /\ end \in 0 .. Len(data) /\ Len(data) \in Nat
                         /\ inputMode = "json" => end = WholeBytes(data)
                         /\ inputMode # "json" => end = Len(data)
  <2>1. WholeBytes(data) \in 0 .. Len(data) /\ Len(data) \in Nat
    BY WholeBytesIn, LenProperties DEF Bytes
  <2>2. QED  BY <2>1 DEF Sendable
<1>6. PICK x \in Bytes, rest \in Bytes :
        /\ x = Take(data, end) /\ rest = Drop(data, end) /\ x \o rest = data
        /\ Len(rest) = Len(data) - end
  <2>1. Take(data, end) \o Drop(data, end) = data  BY <1>5, Split
  <2>2. Take(data, end) \in Bytes /\ Drop(data, end) \in Bytes /\ Len(Drop(data, end)) = Len(data) - end
    BY <1>5, Taking, Dropping
  <2>3. QED  BY <2>1, <2>2
<1>7. \/ /\ rest # <<>> /\ FullRune(rest) /\ incomplete' = <<>> /\ copier' = "over" /\ sent' = s
      \/ /\ ~(rest # <<>> /\ FullRune(rest)) /\ incomplete' = rest
         /\ \/ sent' = s \o x
            \/ sent' = s /\ copier' = "over"
  BY <1>1, <1>2, <1>4, <1>5, <1>6 DEF Write, Keeps, Send, GivesUp
<1>8. sent' \in Bytes /\ incomplete' \in Bytes
  <2>1. s \o x \in Bytes  BY Joining
  <2>2. QED  BY <1>7, <2>1, Nothing
<1>9. InputTyped'  BY <1>1, <1>8 DEF InputInv, InputTyped
<1>10. copier' = "copying" => sent' \o incomplete' = Take(i, k + n)
  <2>1. Regroups(s, x, rest) /\ Regroups(s, h, p)  BY Association
  <2>2. (s \o x) \o rest = s \o data  BY <1>6, <2>1 DEF Regroups
  <2>3. s \o data = Take(i, k) \o p  BY <1>3, <1>4, <2>1 DEF Regroups
  <2>4. QED  BY <1>2, <1>7, <2>2, <2>3
<1>11. inputMode = "json" => WholeBytes(sent') = Len(sent') /\ Len(incomplete') < 3
  <2>1. SUFFICES ASSUME inputMode = "json" PROVE WholeBytes(sent') = Len(sent') /\ Len(incomplete') < 3
    OBVIOUS
  <2>2. WholeBytes(s) = Len(s)  BY <1>1, <2>1 DEF InputInv, InputIsWhole
  <2>3. WholeBytes(s \o x) = Len(s \o x)  BY <1>5, <1>6, <2>1, <2>2, SentIsWhole
  <2>4. Len(<<>>) = 0  BY Nothing
  <2>5. rest # <<>> /\ ~FullRune(rest) => Len(rest) < 3  BY <1>6, Unfinished
  <2>6. CASE incomplete' = <<>> /\ sent' = s  BY <2>2, <2>4, <2>6
  <2>7. CASE incomplete' = rest /\ ~(rest # <<>> /\ FullRune(rest)) /\ sent' \in {s, s \o x}
    <3>1. Len(rest) < 3
      <4>1. rest = <<>> => Len(rest) = 0  BY <2>4
      <4>2. QED  BY <2>5, <2>7, <4>1
    <3>2. WholeBytes(sent') = Len(sent')
      <4>1. CASE sent' = s  BY <2>2, <4>1
      <4>2. CASE sent' = s \o x  BY <2>3, <4>2
      <4>3. QED  BY <2>7, <4>1, <4>2
    <3>3. QED  BY <2>7, <3>1, <3>2
  <2>8. QED  BY <1>7, <2>6, <2>7
<1>12. inputMode = "binary" => incomplete' = <<>>
  <2>1. SUFFICES ASSUME inputMode = "binary" PROVE incomplete' = <<>>  OBVIOUS
  <2>2. Len(rest) = 0  BY <1>5, <1>6, <2>1
  <2>3. QED  BY <1>7, <2>2, Nothing
<1>13. InputIsWhole'  BY <1>1, <1>10, <1>11, <1>12 DEF InputIsWhole
<1>14. QED  BY <1>9, <1>13 DEF InputInv

LEMMA InputStep == ASSUME InputInv, [Next]_vars PROVE InputInv'
<1>1. CASE UNCHANGED <<inputMode, writing>>
  BY <1>1 DEF writing, InputInv, InputTyped, InputIsWhole
<1>2. CASE Copy
  <2>1. PICK n \in 1 .. Least(MaxWrite, Len(input) - typed) :
          typed' = typed + n /\ Write(SubSeq(input, typed + 1, typed + n))
    BY <1>2 DEF Copy
  <2>2. copier = "copying" /\ UNCHANGED <<inputMode, input>> /\ typed < Len(input)  BY <1>2 DEF Copy
  <2>3. n \in Nat /\ typed + n <= Len(input)
    <3>1. Len(input) \in Nat /\ typed \in Nat
      BY LenProperties DEF InputInv, InputTyped, Bytes
    <3>2. n <= Len(input) - typed  BY <2>1, <3>1, SizesAssumption DEF Least
    <3>3. QED  BY <2>1, <3>1, <3>2, SizesAssumption DEF Least
  <2>4. QED  BY <2>1, <2>2, <2>3, Writing
<1>3. CASE UNCHANGED vars  BY <1>1, <1>3 DEF vars, socketVars
<1>4. CASE Next
  BY <1>1, <1>2, <1>4
  DEF Next, Receive, Break, Exec, TimerFires, TimerCloses, Round, Pass, ReadError, socketVars
<1>5. QED  BY <1>3, <1>4

\* Whatever a client types, in whichever pieces, is sent in order and once, and
\* in JSON mode only in whole characters.
THEOREM InputArrivesWhole == Spec => []InputIsWhole
<1>1. InputInv /\ [Next]_vars => InputInv'  BY InputStep
<1>2. InputInv => InputIsWhole  BY DEF InputInv
<1>3. QED  BY <1>1, <1>2, InitInput, PTL DEF Spec
=============================================================================
