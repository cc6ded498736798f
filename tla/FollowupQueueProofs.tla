------------------------ MODULE FollowupQueueProofs ------------------------
(***************************************************************************)
(* Proofs about the follow-up queue for any number of messages, channels,  *)
(* senders, direct runs, failures and clears, and any cap.                 *)
(*                                                                         *)
(* A drain takes messages off its queue by their number, while drops and   *)
(* clears change the queue under it.  What makes this safe is where the    *)
(* messages of a batch can be: never further back in the queue than in the *)
(* batch, so that taking as many as were run takes every one of them, and  *)
(* without drops and clears exactly there, so that nothing else is taken.  *)
(***************************************************************************)
EXTENDS FollowupQueue, SequenceTheorems, FiniteSetTheorems, WellFoundedInduction, TLAPS

-----------------------------------------------------------------------------
(* The inductive invariant.                                                *)

Batches ==
    [kind : {"none", "item", "group", "head", "summary"}, msgs : Seq(Messages),
     rest : Seq(Messages), summary : Seq(Messages)]

\* What a batch and the groups after it will run.
Pend(b) == b.msgs \o b.rest

\* The messages of a queue and of its drain.
Own(s, b) == Elems(s) \cup Elems(Pend(b))

Distinct(s) == \A i, j \in 1..Len(s) : s[i] = s[j] => i = j

PrefixOf(p, s) == Len(p) <= Len(s) /\ \A j \in 1..Len(p) : s[j] = p[j]

\* Only a group has more to run after it, and only a summary given in place of
\* a message takes more than it runs.
BatchOK(b, lossy) ==
    /\ Len(b.msgs) <= Taken(b)
    /\ b.kind # "head" => Taken(b) = Len(b.msgs)
    /\ b.kind # "group" => b.rest = << >>
    /\ b.kind = "head" => lossy

\* A message of the batch is not further back in the queue than in the batch.
NotBehind(s, p) == \A i \in 1..Len(s), j \in 1..Len(p) : s[i] = p[j] => i <= j

QueueOK(s, b) == Distinct(s) /\ Distinct(Pend(b)) /\ NotBehind(s, Pend(b))

Batched(is, ba, lossy) ==
    /\ ba \in [Queues -> Batches]
    /\ \A q \in Queues : BatchOK(ba[q], lossy) /\ QueueOK(is[q], ba[q])

\* Every message is in one place: it is decided about, it is in one queue or
\* its drain, or it has been run.
OnePlace(is, ba, de, ra, n) ==
    /\ de \cup ra \subseteq 1..n
    /\ de \cap ra = {}
    /\ \A q \in Queues : /\ Own(is[q], ba[q]) \subseteq 1..n
                         /\ Own(is[q], ba[q]) \cap de = {}
                         /\ Own(is[q], ba[q]) \cap ra = {}
    /\ \A p, q \in Queues : p # q => Own(is[p], ba[p]) \cap Own(is[q], ba[q]) = {}

\* What is in a queue or a drain, or has been run, was queued.
Known(is, ba, ra, ac) == ra \subseteq ac /\ \A q \in Queues : Own(is[q], ba[q]) \subseteq ac

\* Drains of queues that are no longer registered: a clear leaves one behind.
Strays(reg, dr) == {q \in Queues : dr[q] # "none" /\ q # reg}

\* As long as no drop and no clear hit a drain, there is one queue, which is
\* registered, and its batch is what it has at the front.
Undisturbed(reg, dr, is, ls, ba) ==
    /\ \A q \in Queues : dr[q] # "none" => reg = q
    /\ \A q \in Queues : reg # q => is[q] = << >> /\ ls[q] = << >>
    /\ \A q \in Queues : /\ PrefixOf(Pend(ba[q]), is[q])
                         /\ ba[q].summary # << >> => ba[q].summary = ls[q]

Inv ==
    /\ QueueType
    /\ Batched(items, batch, Lossy)
    /\ policy # "summarize" => \A q \in Queues : lines[q] = << >>
    /\ OnePlace(items, batch, deciding, ran, arrived)
    /\ Known(items, batch, ran, accepted)
    /\ Cardinality(Strays(registry, drain)) <= clears
    /\ ~raced => Undisturbed(registry, drain, items, lines, batch)
    /\ NoSilentLoss

-----------------------------------------------------------------------------
(* Sequences of messages.                                                  *)

\* A sequence without its first k elements.
Drop(s, k) == SubSeq(s, k + 1, Len(s))

\* A set of natural numbers that is not empty has a least element.
LEMMA LeastNumber ==
    ASSUME NEW T \in SUBSET Nat, T # {}
    PROVE  \E i \in T : \A j \in T : i <= j
<1> DEFINE R == OpToRel(<, Nat)
<1>1. IsWellFoundedOn(R, Nat)
  BY NatLessThanWellFounded
<1> HIDE DEF R
<1>2. PICK x \in T : \A y \in T : ~(<<y, x>> \in R)
  BY <1>1, WFMin
<1>3. ASSUME NEW y \in T PROVE x <= y
  <2>1. ~(y < x)
    BY <1>2 DEF R, OpToRel
  <2>2. QED
    BY <2>1
<1>4. QED
  BY <1>3

LEMMA DropFacts ==
    ASSUME NEW S, NEW s \in Seq(S), NEW k \in Nat
    PROVE  /\ Drop(s, k) \in Seq(S)
           /\ Len(Drop(s, k)) = IF k <= Len(s) THEN Len(s) - k ELSE 0
           /\ Len(Drop(s, k)) \in Nat /\ Len(Drop(s, k)) <= Len(s)
           /\ \A i \in 1..Len(Drop(s, k)) : Drop(s, k)[i] = s[k + i] /\ k + i \in 1..Len(s)
<1> DEFINE lo == k + 1
           hi == Len(s)
           d  == SubSeq(s, lo, hi)
<1>1. Len(s) \in Nat /\ \A j \in 1..Len(s) : s[j] \in S
  BY LenProperties
<1>2. /\ lo \in Int /\ hi \in Int /\ (\A j \in lo..hi : s[j] \in S)
      /\ hi - lo + 1 = Len(s) - k
      /\ (lo <= hi <=> k < Len(s))
  BY <1>1
<1>3. \A i \in 1..(Len(s) - k) : i \in 1..(hi - lo + 1) /\ lo + i - 1 = k + i /\ k + i \in 1..Len(s)
  BY <1>1
<1>4. Drop(s, k) = d
  BY DEF Drop
<1> HIDE DEF lo, hi
<1>5. d \in Seq(S) /\ Len(d) = (IF lo <= hi THEN hi - lo + 1 ELSE 0)
      /\ \A i \in 1..(hi - lo + 1) : d[i] = s[lo + i - 1]
  BY <1>2, SubSeqProperties
<1> HIDE DEF d
<1>6. Len(d) = IF k <= Len(s) THEN Len(s) - k ELSE 0
  BY <1>1, <1>2, <1>5
<1>7. \A i \in 1..(Len(s) - k) : d[i] = s[k + i]
  BY <1>3, <1>5
<1>8. ASSUME NEW i \in 1..Len(d) PROVE d[i] = s[k + i] /\ k + i \in 1..Len(s)
  <2>1. i \in 1..(Len(s) - k)
    BY <1>1, <1>6
  <2>2. QED
    BY <1>3, <1>7, <2>1
<1>9. Len(d) \in Nat /\ Len(d) <= Len(s)
  BY <1>1, <1>6
<1>10. QED
  BY <1>4, <1>5, <1>6, <1>8, <1>9

LEMMA TailIsDrop ==
    ASSUME NEW S, NEW s \in Seq(S), s # << >>
    PROVE  Tail(s) = Drop(s, 1)
<1>1. Tail(s) = SubSeq(s, 2, Len(s))
  BY TailIsSubSeq
<1>2. Drop(s, 1) = SubSeq(s, 2, Len(s))
  BY DEF Drop
<1>3. QED
  BY <1>1, <1>2

\* The elements of a sequence.
LEMMA ElemsFacts ==
    ASSUME NEW S, NEW s \in Seq(S)
    PROVE  /\ Elems(s) \subseteq S
           /\ \A x : x \in Elems(s) <=> \E i \in 1..Len(s) : x = s[i]
           /\ \A m \in S : Elems(Append(s, m)) = Elems(s) \cup {m}
           /\ \A k \in Nat : Elems(Drop(s, k)) \subseteq Elems(s)
<1>1. Len(s) \in Nat /\ \A j \in 1..Len(s) : s[j] \in S
  BY LenProperties
<1>2. \A x : x \in Elems(s) <=> \E i \in 1..Len(s) : x = s[i]
  BY DEF Elems
<1>3. ASSUME NEW m \in S PROVE Elems(Append(s, m)) = Elems(s) \cup {m}
  <2> DEFINE a == Append(s, m)
             n == Len(s) + 1
  <2>1. Len(a) = n /\ a[n] = m /\ \A i \in 1..Len(s) : a[i] = s[i]
    BY AppendProperties
  <2>2. \A i \in 1..n : i \in 1..Len(s) \/ i = n
    BY <1>1
  <2>3. n \in 1..n /\ 1..Len(s) \subseteq 1..n
    BY <1>1
  <2> HIDE DEF a, n
  <2>4. \A x : x \in Elems(a) <=> \E i \in 1..n : x = a[i]
    BY <2>1 DEF Elems
  <2>5. \A x : x \in Elems(a) <=> x \in Elems(s) \/ x = m
    BY <1>2, <2>1, <2>2, <2>3, <2>4
  <2>6. QED
    BY <2>5 DEF a
<1>4. ASSUME NEW k \in Nat PROVE Elems(Drop(s, k)) \subseteq Elems(s)
  <2>1. \A i \in 1..Len(Drop(s, k)) : Drop(s, k)[i] = s[k + i] /\ k + i \in 1..Len(s)
    BY DropFacts
  <2>2. QED
    BY <2>1 DEF Elems
<1>5. QED
  BY <1>1, <1>2, <1>3, <1>4

\* The elements that Drop leaves out are the first ones.
LEMMA DropLeavesOut ==
    ASSUME NEW S, NEW s \in Seq(S), NEW k \in Nat, NEW x \in Elems(s)
    PROVE  x \in Elems(Drop(s, k)) \/ \E i \in 1..Len(s) : i <= k /\ x = s[i]
<1>1. PICK i \in 1..Len(s) : x = s[i]
  BY DEF Elems
<1>2. Len(s) \in Nat
  BY LenProperties
<1>3. CASE i > k
  <2> DEFINE d == Drop(s, k)
             j == i - k
  <2>1. Len(d) = IF k <= Len(s) THEN Len(s) - k ELSE 0
    BY DropFacts
  <2>2. j \in 1..Len(d) /\ k + j = i
    BY <1>2, <1>3, <2>1
  <2>3. d[j] = s[k + j]
    BY <2>2, DropFacts
  <2>4. d[j] = x
    BY <1>1, <2>2, <2>3
  <2> HIDE DEF d, j
  <2>5. x \in Elems(d)
    BY <2>2, <2>4 DEF Elems
  <2>6. QED
    BY <2>5 DEF d
<1>4. QED
  BY <1>1, <1>2, <1>3

LEMMA EmptyFacts ==
    ASSUME NEW S
    PROVE  /\ << >> \in Seq(S) /\ Len(<< >>) = 0 /\ Elems(<< >>) = {}
           /\ Distinct(<< >>)
           /\ \A s : NotBehind(s, << >>) /\ NotBehind(<< >>, s)
           /\ \A s \in Seq(S) : s \o << >> = s /\ PrefixOf(<< >>, s)
<1>1. << >> \in Seq(S) /\ Len(<< >>) = 0 /\ 1..0 = {}
  OBVIOUS
<1>2. Elems(<< >>) = {}
  BY <1>1 DEF Elems
<1>3. Distinct(<< >>) /\ \A s : NotBehind(s, << >>) /\ NotBehind(<< >>, s)
  BY <1>1 DEF Distinct, NotBehind
<1>4. ASSUME NEW s \in Seq(S) PROVE s \o << >> = s /\ PrefixOf(<< >>, s)
  <2>1. s \o << >> = s
    BY ConcatEmptySeq
  <2>2. Len(s) \in Nat
    BY LenProperties
  <2>3. QED
    BY <1>1, <2>1, <2>2 DEF PrefixOf
<1>5. QED
  BY <1>1, <1>2, <1>3, <1>4

\* Dropping from the front moves every message forward.
LEMMA DropKeeps ==
    ASSUME NEW S, NEW s \in Seq(S), NEW p \in Seq(S), NEW k \in Nat,
           Distinct(s), NotBehind(s, p)
    PROVE  Distinct(Drop(s, k)) /\ NotBehind(Drop(s, k), p) /\ NotBehind(Drop(s, k), Drop(p, k))
<1> DEFINE d == Drop(s, k)
           e == Drop(p, k)
<1>1. /\ Len(d) \in Nat /\ Len(d) <= Len(s)
      /\ \A i \in 1..Len(d) : d[i] = s[k + i] /\ k + i \in 1..Len(s)
  BY DropFacts
<1>2. /\ Len(e) \in Nat /\ Len(e) <= Len(p)
      /\ \A i \in 1..Len(e) : e[i] = p[k + i] /\ k + i \in 1..Len(p)
  BY DropFacts
<1>3. Len(s) \in Nat /\ Len(p) \in Nat
  BY LenProperties
<1> HIDE DEF d, e
<1>4. ASSUME NEW i \in 1..Len(d), NEW j \in 1..Len(d), d[i] = d[j] PROVE i = j
  <2>1. s[k + i] = s[k + j] /\ k + i \in 1..Len(s) /\ k + j \in 1..Len(s)
    BY <1>1, <1>4
  <2>2. k + i = k + j
    BY <2>1 DEF Distinct
  <2>3. QED
    BY <1>1, <2>2
<1>5. ASSUME NEW i \in 1..Len(d), NEW j \in 1..Len(p), d[i] = p[j] PROVE i <= j
  <2>1. s[k + i] = p[j] /\ k + i \in 1..Len(s)
    BY <1>1, <1>5
  <2>2. k + i <= j
    BY <2>1 DEF NotBehind
  <2>3. QED
    BY <1>1, <1>3, <2>2
<1>6. ASSUME NEW i \in 1..Len(d), NEW j \in 1..Len(e), d[i] = e[j] PROVE i <= j
  <2>1. s[k + i] = p[k + j] /\ k + i \in 1..Len(s) /\ k + j \in 1..Len(p)
    BY <1>1, <1>2, <1>6
  <2>2. k + i <= k + j
    BY <2>1 DEF NotBehind
  <2>3. QED
    BY <1>1, <1>2, <2>2
<1>7. Distinct(d) /\ NotBehind(d, p) /\ NotBehind(d, e)
  BY <1>4, <1>5, <1>6 DEF Distinct, NotBehind
<1>8. QED
  BY <1>7 DEF d, e

LEMMA DropDistinct ==
    ASSUME NEW S, NEW s \in Seq(S), NEW k \in Nat, Distinct(s)
    PROVE  Distinct(Drop(s, k))
<1> DEFINE e == << >>
<1>1. e \in Seq(S) /\ NotBehind(s, e)
  BY EmptyFacts
<1> HIDE DEF e
<1>2. QED
  BY <1>1, DropKeeps

\* A new message at the end.
LEMMA AppendKeeps ==
    ASSUME NEW S, NEW s \in Seq(S), NEW p \in Seq(S), NEW m \in S,
           Distinct(s), NotBehind(s, p), m \notin Elems(s), m \notin Elems(p)
    PROVE  Distinct(Append(s, m)) /\ NotBehind(Append(s, m), p)
<1> DEFINE a == Append(s, m)
           n == Len(s) + 1
<1>1. Len(a) = n /\ a[n] = m /\ \A i \in 1..Len(s) : a[i] = s[i]
  BY AppendProperties
<1>2. Len(s) \in Nat /\ Len(p) \in Nat
  BY LenProperties
<1>3. \A i \in 1..n : i \in 1..Len(s) \/ i = n
  BY <1>2
<1>4. (\A i \in 1..Len(s) : s[i] # m) /\ (\A i \in 1..Len(p) : p[i] # m)
  BY DEF Elems
<1> HIDE DEF a, n
<1>5. ASSUME NEW i \in 1..n, NEW j \in 1..n, a[i] = a[j] PROVE i = j
  <2>1. CASE i \in 1..Len(s) /\ j \in 1..Len(s)
    BY <1>1, <1>5, <2>1 DEF Distinct
  <2>2. CASE i = n \/ j = n
    BY <1>1, <1>3, <1>4, <1>5, <2>2
  <2>3. QED
    BY <1>3, <2>1, <2>2
<1>6. ASSUME NEW i \in 1..n, NEW j \in 1..Len(p), a[i] = p[j] PROVE i <= j
  <2>1. i # n
    BY <1>1, <1>4, <1>6
  <2>2. i \in 1..Len(s) /\ s[i] = p[j]
    BY <1>1, <1>3, <1>6, <2>1
  <2>3. QED
    BY <2>2 DEF NotBehind
<1>7. Distinct(a) /\ NotBehind(a, p)
  BY <1>1, <1>5, <1>6 DEF Distinct, NotBehind
<1>8. QED
  BY <1>7 DEF a

\* What is at the front of a queue is in its place.
LEMMA PrefixKeeps ==
    ASSUME NEW S, NEW s \in Seq(S), NEW p \in Seq(S), Distinct(s), PrefixOf(p, s)
    PROVE  Distinct(p) /\ NotBehind(s, p) /\ Elems(p) \subseteq Elems(s)
<1>1. Len(s) \in Nat /\ Len(p) \in Nat /\ Len(p) <= Len(s)
  BY LenProperties DEF PrefixOf
<1>2. \A j \in 1..Len(p) : j \in 1..Len(s) /\ p[j] = s[j]
  BY <1>1 DEF PrefixOf
<1>3. Distinct(p)
  BY <1>2 DEF Distinct
<1>4. NotBehind(s, p)
  <2>1. SUFFICES ASSUME NEW i \in 1..Len(s), NEW j \in 1..Len(p), s[i] = p[j] PROVE i <= j
    BY DEF NotBehind
  <2>2. i = j
    BY <1>2, <2>1 DEF Distinct
  <2>3. QED
    BY <2>2, <1>1
<1>5. Elems(p) \subseteq Elems(s)
  BY <1>2 DEF Elems
<1>6. QED
  BY <1>3, <1>4, <1>5

\* The front stays the front when the same number is taken from both, and when
\* a message joins the end.
LEMMA PrefixDrop ==
    ASSUME NEW S, NEW s \in Seq(S), NEW p \in Seq(S), NEW k \in Nat, PrefixOf(p, s), k <= Len(p)
    PROVE  PrefixOf(Drop(p, k), Drop(s, k))
<1> DEFINE d == Drop(s, k)
           e == Drop(p, k)
<1>1. Len(s) \in Nat /\ Len(p) \in Nat /\ Len(p) <= Len(s)
  BY LenProperties DEF PrefixOf
<1>2. /\ Len(d) = IF k <= Len(s) THEN Len(s) - k ELSE 0
      /\ \A i \in 1..Len(d) : d[i] = s[k + i] /\ k + i \in 1..Len(s)
  BY DropFacts
<1>3. /\ Len(e) = IF k <= Len(p) THEN Len(p) - k ELSE 0
      /\ \A i \in 1..Len(e) : e[i] = p[k + i] /\ k + i \in 1..Len(p)
  BY DropFacts
<1> HIDE DEF d, e
<1>4. Len(e) <= Len(d) /\ Len(e) \in Nat /\ Len(d) \in Nat
  BY <1>1, <1>2, <1>3
<1>5. ASSUME NEW j \in 1..Len(e) PROVE d[j] = e[j]
  <2>1. j \in 1..Len(d)
    BY <1>4
  <2>2. d[j] = s[k + j] /\ e[j] = p[k + j] /\ k + j \in 1..Len(p)
    BY <1>2, <1>3, <2>1
  <2>3. QED
    BY <2>2 DEF PrefixOf
<1>6. PrefixOf(e, d)
  BY <1>4, <1>5 DEF PrefixOf
<1>7. QED
  BY <1>6 DEF d, e

LEMMA PrefixAppend ==
    ASSUME NEW S, NEW s \in Seq(S), NEW p \in Seq(S), NEW m \in S, PrefixOf(p, s)
    PROVE  PrefixOf(p, Append(s, m))
<1> DEFINE a == Append(s, m)
<1>1. Len(a) = Len(s) + 1 /\ \A i \in 1..Len(s) : a[i] = s[i]
  BY AppendProperties
<1>2. Len(s) \in Nat /\ Len(p) \in Nat
  BY LenProperties
<1> HIDE DEF a
<1>3. PrefixOf(p, a)
  BY <1>1, <1>2 DEF PrefixOf
<1>4. QED
  BY <1>3 DEF a

\* Two sequences one after the other.
LEMMA ConcatFacts ==
    ASSUME NEW S, NEW a \in Seq(S), NEW b \in Seq(S)
    PROVE  /\ a \o b \in Seq(S)
           /\ Len(a \o b) = Len(a) + Len(b)
           /\ \A j \in 1..Len(a) : (a \o b)[j] = a[j]
           /\ Drop(a \o b, Len(a)) = b
           /\ Elems(a \o b) = Elems(a) \cup Elems(b)
<1> DEFINE c == a \o b
           k == Len(a)
           d == Drop(c, k)
<1>1. Len(a) \in Nat /\ Len(b) \in Nat
  BY LenProperties
<1>2. c \in Seq(S) /\ Len(c) = Len(a) + Len(b)
      /\ \A j \in 1..(Len(a) + Len(b)) : c[j] = IF j <= Len(a) THEN a[j] ELSE b[j - Len(a)]
  BY ConcatProperties
<1> HIDE DEF c
<1>3. \A j \in 1..Len(a) : c[j] = a[j]
  BY <1>1, <1>2
<1>4. \A j \in 1..Len(b) : c[k + j] = b[j]
  <2>1. \A j \in 1..Len(b) : k + j \in 1..(Len(a) + Len(b)) /\ ~(k + j <= Len(a)) /\ (k + j) - Len(a) = j
    BY <1>1
  <2>2. QED
    BY <1>2, <2>1
<1>5. k \in Nat
  BY <1>1
<1> HIDE DEF k
<1>6. d \in Seq(S) /\ (\A i \in 1..Len(d) : d[i] = c[k + i])
      /\ Len(d) = IF k <= Len(c) THEN Len(c) - k ELSE 0
  BY <1>2, <1>5, DropFacts
<1> HIDE DEF d
<1>7. Len(d) = Len(b)
  BY <1>1, <1>2, <1>6 DEF k
<1>8. d = b
  <2>1. \A i \in 1..Len(b) : d[i] = b[i]
    BY <1>4, <1>6, <1>7
  <2>2. QED
    BY <1>6, <1>7, <2>1, SeqEqual
<1>9. Elems(c) = Elems(a) \cup Elems(b)
  <2>1. ASSUME NEW x \in Elems(c) PROVE x \in Elems(a) \cup Elems(b)
    <3>1. PICK j \in 1..Len(c) : x = c[j]
      BY DEF Elems
    <3>2. CASE j <= Len(a)
      BY <1>1, <1>2, <1>3, <3>1, <3>2 DEF Elems
    <3>3. CASE ~(j <= Len(a))
      <4>1. j - Len(a) \in 1..Len(b) /\ x = b[j - Len(a)]
        BY <1>1, <1>2, <3>1, <3>3
      <4>2. QED
        BY <4>1 DEF Elems
    <3>4. QED
      BY <3>2, <3>3
  <2>2. ASSUME NEW x \in Elems(a) PROVE x \in Elems(c)
    <3>1. PICK j \in 1..Len(a) : x = a[j]
      BY <2>2 DEF Elems
    <3>2. j \in 1..Len(c) /\ x = c[j]
      BY <1>1, <1>2, <1>3, <3>1
    <3>3. QED
      BY <3>2 DEF Elems
  <2>3. ASSUME NEW x \in Elems(b) PROVE x \in Elems(c)
    <3>1. PICK j \in 1..Len(b) : x = b[j]
      BY <2>3 DEF Elems
    <3>2. k + j \in 1..Len(c) /\ x = c[k + j]
      BY <1>1, <1>2, <1>4, <3>1 DEF k
    <3>3. QED
      BY <3>2 DEF Elems
  <2>4. QED
    BY <2>1, <2>2, <2>3
<1>10. QED
  BY <1>2, <1>3, <1>8, <1>9 DEF c, d, k

-----------------------------------------------------------------------------
(* Batches.                                                                *)

\* A group is at least empty and at most all (splitCollectItemsByAuthorization).
LEMMA GroupLengthType ==
    ASSUME NEW s \in Seq(Messages)
    PROVE  GroupLength(s) \in 0..Len(s)
<1> DEFINE T == {i \in 1..Len(s) : sender[s[i]] # sender[s[1]]}
           P(i) == /\ sender[s[i]] # sender[s[1]]
                   /\ \A j \in 1..(i - 1) : sender[s[j]] = sender[s[1]]
           c == CHOOSE i \in 1..Len(s) : P(i)
<1>1. Len(s) \in Nat
  BY LenProperties
<1>2. CASE T = {}
  <2>1. GroupLength(s) = Len(s)
    BY <1>2 DEF GroupLength
  <2>2. QED
    BY <1>1, <2>1
<1>3. CASE T # {}
  <2>1. T \in SUBSET Nat
    BY <1>1
  <2>2. PICK i \in T : \A j \in T : i <= j
    <3> HIDE DEF T
    <3>1. QED
      BY <1>3, <2>1, LeastNumber
  <2>3. i \in 1..Len(s) /\ sender[s[i]] # sender[s[1]]
    BY <2>2
  <2>4. ASSUME NEW j \in 1..(i - 1) PROVE sender[s[j]] = sender[s[1]]
    <3>1. j \in 1..Len(s) /\ ~(i <= j)
      BY <1>1, <2>3
    <3>2. QED
      BY <2>2, <3>1
  <2>5. P(i)
    BY <2>3, <2>4
  <2>6. GroupLength(s) = c - 1
    BY <1>3 DEF GroupLength
  <2> HIDE DEF P
  <2>7. c \in 1..Len(s)
    BY <2>3, <2>5
  <2> HIDE DEF c
  <2>8. QED
    BY <1>1, <2>6, <2>7
<1>4. QED
  BY <1>2, <1>3

LEMMA GroupFacts ==
    ASSUME NEW s \in Seq(Messages), NEW sm \in Seq(Messages)
    PROVE  /\ GroupBatch(s, sm) \in Batches
           /\ GroupBatch(s, sm).kind = "group" /\ GroupBatch(s, sm).summary = sm
           /\ Pend(GroupBatch(s, sm)) = s
           /\ BatchOK(GroupBatch(s, sm), Lossy)
<1> DEFINE g == GroupLength(s)
           a == SubSeq(s, 1, g)
           b == SubSeq(s, g + 1, Len(s))
           r == GroupBatch(s, sm)
<1>1. g \in 0..Len(s)
  BY GroupLengthType
<1>2. Len(s) \in Nat
  BY LenProperties
<1> HIDE DEF g
<1>3. a \in Seq(Messages) /\ b \in Seq(Messages) /\ a \o b = s
  <2>1. a \in Seq(Messages)
    BY <1>1, <1>2
  <2>2. b \in Seq(Messages)
    BY <1>1, <1>2
  <2>3. a \o b = s
    <3> DEFINE o == 1
               n == Len(s)
    <3>1. o \in 1..(Len(s) + 1) /\ g \in (o - 1)..Len(s) /\ n \in g..Len(s)
      BY <1>1, <1>2
    <3> HIDE DEF o, n
    <3>2. SubSeq(s, o, g) \o SubSeq(s, g + 1, n) = SubSeq(s, o, n)
      BY <3>1, ConcatAdjacentSubSeq
    <3>3. SubSeq(s, o, n) = s
      BY SubSeqFull DEF o, n
    <3>4. QED
      BY <3>2, <3>3 DEF o, n
  <2>4. QED
    BY <2>1, <2>2, <2>3
<1>4. r = [kind |-> "group", msgs |-> a, rest |-> b, summary |-> sm]
  BY DEF GroupBatch, g
<1> HIDE DEF a, b, r
<1>5. r \in Batches /\ r.kind = "group" /\ r.summary = sm /\ r.msgs = a /\ r.rest = b
  BY <1>3, <1>4 DEF Batches
<1>6. Len(a) \in Nat
  BY <1>3, LenProperties
<1>7. Taken(r) = Len(a)
  BY <1>5 DEF Taken
<1>8. BatchOK(r, Lossy)
  BY <1>5, <1>6, <1>7 DEF BatchOK
<1>9. Pend(r) = s
  BY <1>3, <1>5 DEF Pend
<1>10. QED
  BY <1>5, <1>8, <1>9 DEF r

\* The batches with one message or none.
Single(kind, ms, sm) == [kind |-> kind, msgs |-> ms, rest |-> << >>, summary |-> sm]

IsSingle(kind, ms, sm, lossy) ==
    /\ kind \in {"none", "item", "head", "summary"}
    /\ ms \in Seq(Messages) /\ sm \in Seq(Messages)
    /\ Len(ms) = IF kind = "item" THEN 1 ELSE 0
    /\ kind = "head" => lossy

LEMMA SmallBatch ==
    ASSUME NEW kind, NEW ms, NEW sm, IsSingle(kind, ms, sm, Lossy),
           NEW b, b = Single(kind, ms, sm)
    PROVE  /\ b \in Batches /\ BatchOK(b, Lossy) /\ Pend(b) = ms
           /\ b.kind = kind /\ b.summary = sm /\ b.msgs = ms
<1> DEFINE e == << >>
<1> kind \in {"none", "item", "head", "summary"} /\ ms \in Seq(Messages) /\ sm \in Seq(Messages)
  BY DEF IsSingle
<1>1. e \in Seq(Messages) /\ ms \o e = ms
  BY EmptyFacts
<1>2. b = [kind |-> kind, msgs |-> ms, rest |-> e, summary |-> sm]
  BY DEF Single
<1> HIDE DEF e
<1>3. b \in Batches /\ b.kind = kind /\ b.summary = sm /\ b.msgs = ms /\ b.rest = e
  BY <1>1, <1>2 DEF Batches
<1>4. Pend(b) = ms
  BY <1>1, <1>3 DEF Pend
<1>5. Taken(b) = IF kind \in {"item", "head"} THEN 1 ELSE 0
  BY <1>3 DEF Taken
<1>6. BatchOK(b, Lossy)
  <2>1. Len(b.msgs) = (IF kind = "item" THEN 1 ELSE 0) /\ (kind = "head" => Lossy)
    BY <1>3 DEF IsSingle
  <2>2. Len(b.msgs) <= Taken(b) /\ (kind # "head" => Taken(b) = Len(b.msgs))
    <3> DEFINE l == Len(b.msgs)
               k == Taken(b)
    <3>1. l = (IF kind = "item" THEN 1 ELSE 0) /\ k = (IF kind \in {"item", "head"} THEN 1 ELSE 0)
      BY <1>5, <2>1
    <3> HIDE DEF l, k
    <3>2. CASE kind = "item"
      <4>1. l = 1 /\ k = 1
        BY <3>1, <3>2
      <4>2. l <= k /\ k = l
        BY <4>1
      <4>3. QED
        BY <4>2 DEF l, k
    <3>3. CASE kind = "head"
      <4>1. l = 0 /\ k = 1
        BY <3>1, <3>3
      <4>2. l <= k
        BY <4>1
      <4>3. QED
        BY <3>3, <4>2 DEF l, k
    <3>4. CASE kind \notin {"item", "head"}
      <4>1. l = 0 /\ k = 0
        BY <3>1, <3>4
      <4>2. l <= k /\ k = l
        BY <4>1
      <4>3. QED
        BY <4>2 DEF l, k
    <3>5. QED
      BY <3>2, <3>3, <3>4
  <2>3. b.rest = << >>
    BY <1>3 DEF e
  <2>4. QED
    BY <1>3, <2>1, <2>2, <2>3 DEF BatchOK
<1>7. QED
  BY <1>3, <1>4, <1>6


LEMMA BatchUpdates ==
    ASSUME NEW k \in {"none", "item", "head", "summary"}, NEW ms \in Seq(Messages)
    PROVE  /\ [NoBatch EXCEPT !.kind = k, !.msgs = ms]
                = [kind |-> k, msgs |-> ms, rest |-> << >>, summary |-> << >>]
           /\ [NoBatch EXCEPT !.kind = k, !.summary = ms]
                = [kind |-> k, msgs |-> << >>, rest |-> << >>, summary |-> ms]
<1> DEFINE x == NoBatch
           e == << >>
           n == "none"
           y == [x EXCEPT !.kind = k, !.msgs = ms]
           z == [kind |-> k, msgs |-> ms, rest |-> e, summary |-> e]
           u == [x EXCEPT !.kind = k, !.summary = ms]
           v == [kind |-> k, msgs |-> e, rest |-> e, summary |-> ms]
<1>1. e \in Seq(Messages) /\ x = [kind |-> n, msgs |-> e, rest |-> e, summary |-> e]
  BY EmptyFacts DEF NoBatch
<1>2. n \in {"none", "item", "group", "head", "summary"} /\ k \in {"none", "item", "group", "head", "summary"}
  OBVIOUS
<1> HIDE DEF x, e, n
<1>3. x \in Batches
  BY <1>1, <1>2 DEF Batches
<1>4. y \in Batches /\ u \in Batches
  BY <1>2, <1>3 DEF Batches
<1>5. /\ y.kind = k /\ y.msgs = ms /\ y.rest = e /\ y.summary = e
      /\ u.kind = k /\ u.msgs = e /\ u.rest = e /\ u.summary = ms
  BY <1>1, <1>3 DEF Batches
<1>6. /\ z \in Batches /\ z.kind = k /\ z.msgs = ms /\ z.rest = e /\ z.summary = e
      /\ v \in Batches /\ v.kind = k /\ v.msgs = e /\ v.rest = e /\ v.summary = ms
  BY <1>1, <1>2 DEF Batches
<1> HIDE DEF y, z, u, v
<1>7. y = z /\ u = v
  BY <1>4, <1>5, <1>6 DEF Batches
<1>8. QED
  BY <1>7 DEF y, z, u, v, x, e

LEMMA NoBatchFacts ==
    /\ NoBatch \in Batches /\ BatchOK(NoBatch, Lossy) /\ Pend(NoBatch) = << >>
    /\ NoBatch.kind = "none" /\ NoBatch.summary = << >> /\ NoBatch.msgs = << >>
<1> DEFINE e == << >>
           n == "none"
<1>1. e \in Seq(Messages) /\ Len(e) = 0
  BY EmptyFacts
<1>2. NoBatch = Single(n, e, e)
  BY DEF NoBatch, Single
<1>3. n \in {"none", "item", "head", "summary"} /\ n # "item" /\ n # "head"
  OBVIOUS
<1> HIDE DEF e, n
<1>4. IsSingle(n, e, e, Lossy)
  BY <1>1, <1>3 DEF IsSingle
<1>5. /\ NoBatch \in Batches /\ BatchOK(NoBatch, Lossy) /\ Pend(NoBatch) = e
      /\ NoBatch.kind = n /\ NoBatch.summary = e /\ NoBatch.msgs = e
  BY <1>2, <1>4, SmallBatch
<1>6. QED
  BY <1>5 DEF e, n

\* What is known of the work of a round: it is at the front of the queue, and a
\* summary is of the lines.
RoundOK(b, s, l, lossy) ==
    /\ b \in Batches /\ BatchOK(b, lossy) /\ PrefixOf(Pend(b), s)
    /\ b.summary # << >> => b.summary = l

LEMMA RoundNone ==
    ASSUME NEW s \in Seq(Messages), NEW l
    PROVE  RoundOK(NoBatch, s, l, Lossy)
<1>1. PrefixOf(<< >>, s)
  BY EmptyFacts
<1>2. QED
  BY <1>1, NoBatchFacts DEF RoundOK

LEMMA RoundItem ==
    ASSUME NEW q, items[q] \in Seq(Messages), items[q] # << >>, NEW l
    PROVE  RoundOK(ItemBatch(q), items[q], l, Lossy)
<1> DEFINE s == items[q]
           h == <<Head(s)>>
           e == << >>
           b == ItemBatch(q)
           k == "item"
<1>1. s \in Seq(Messages) /\ s # << >>
  OBVIOUS
<1>2. b = [NoBatch EXCEPT !.kind = k, !.msgs = h]
  BY DEF ItemBatch
<1> HIDE DEF s
<1>3. Len(s) \in Nat /\ Len(s) >= 1 /\ Head(s) \in Messages /\ Head(s) = s[1]
  BY <1>1
<1>4. h \in Seq(Messages) /\ Len(h) = 1 /\ h[1] = s[1]
  BY <1>3
<1>5. e \in Seq(Messages)
  BY EmptyFacts
<1>6. k \in {"none", "item", "head", "summary"} /\ k = "item" /\ k # "head"
  OBVIOUS
<1> HIDE DEF h, e, b, k
<1>7. IsSingle(k, h, e, Lossy)
  BY <1>4, <1>5, <1>6 DEF IsSingle
<1>8. b \in Batches /\ BatchOK(b, Lossy) /\ Pend(b) = h /\ b.summary = e
  <2>1. b = Single(k, h, e)
    BY <1>2, <1>4, <1>6, BatchUpdates DEF e, Single
  <2>2. QED
    BY <1>7, <2>1, SmallBatch
<1>9. PrefixOf(h, s)
  BY <1>3, <1>4 DEF PrefixOf
<1>10. RoundOK(b, s, l, Lossy)
  BY <1>8, <1>9 DEF RoundOK, e
<1>11. QED
  BY <1>10 DEF b, s

LEMMA RoundSummary ==
    ASSUME NEW q, items[q] \in Seq(Messages), lines[q] \in Seq(Messages)
    PROVE  /\ RoundOK(SummaryBatch(q), items[q], lines[q], Lossy)
           /\ Lossy => RoundOK(HeadBatch(q), items[q], lines[q], Lossy)
<1> DEFINE e == << >>
           s == items[q]
           l == lines[q]
<1>1. e \in Seq(Messages) /\ Len(e) = 0 /\ PrefixOf(e, s)
  BY EmptyFacts
<1>2. l \in Seq(Messages)
  OBVIOUS
<1>3. SummaryBatch(q) = [NoBatch EXCEPT !.kind = "summary", !.summary = l]
  BY DEF SummaryBatch, Summary
<1>4. HeadBatch(q) = [NoBatch EXCEPT !.kind = "head", !.summary = l]
  BY DEF HeadBatch, Summary
<1> HIDE DEF e, l, s
<1>5. ASSUME NEW k \in {"summary", "head"}, k = "head" => Lossy, NEW b,
             b = [NoBatch EXCEPT !.kind = k, !.summary = l]
      PROVE  RoundOK(b, s, l, Lossy)
  <2>1. k \in {"none", "item", "head", "summary"} /\ k # "item"
    BY <1>5
  <2>2. IsSingle(k, e, l, Lossy)
    BY <1>1, <1>2, <1>5, <2>1 DEF IsSingle
  <2>3. b \in Batches /\ BatchOK(b, Lossy) /\ Pend(b) = e /\ b.summary = l
    <3>1. b = Single(k, e, l)
      BY <1>2, <1>5, <2>1, BatchUpdates DEF e, Single
    <3>2. QED
      BY <2>2, <3>1, SmallBatch
  <2>4. QED
    BY <1>1, <2>3 DEF RoundOK
<1>6. RoundOK(SummaryBatch(q), s, l, Lossy)
  <2> DEFINE k == "summary"
  <2>1. k \in {"summary", "head"} /\ k # "head"
    OBVIOUS
  <2>2. SummaryBatch(q) = [NoBatch EXCEPT !.kind = k, !.summary = l]
    BY <1>3
  <2> HIDE DEF k
  <2>3. QED
    BY <1>5, <2>1, <2>2
<1>7. ASSUME Lossy PROVE RoundOK(HeadBatch(q), s, l, Lossy)
  <2> DEFINE k == "head"
  <2>1. k \in {"summary", "head"}
    OBVIOUS
  <2>2. HeadBatch(q) = [NoBatch EXCEPT !.kind = k, !.summary = l]
    BY <1>4
  <2> HIDE DEF k
  <2>3. QED
    BY <1>5, <1>7, <2>1, <2>2
<1>8. QED
  BY <1>6, <1>7 DEF s, l

\* RoundBatch: the drain's choice of what to run.
LEMMA RoundBatchFacts ==
    ASSUME NEW q, items[q] \in Seq(Messages), lines[q] \in Seq(Messages),
           policy # "summarize" => lines[q] = << >>
    PROVE  RoundOK(RoundBatch(q), items[q], lines[q], Lossy)
<1> DEFINE OK(b) == RoundOK(b, items[q], lines[q], Lossy)
<1>1. OK(NoBatch)
  BY RoundNone
<1>2. items[q] # << >> => OK(ItemBatch(q))
  BY RoundItem
<1>3. OK(SummaryBatch(q)) /\ (Lossy => OK(HeadBatch(q)))
  BY RoundSummary
<1>4. OK(GroupBatch(items[q], Summary(q)))
  <2> DEFINE s == items[q]
             l == lines[q]
             b == GroupBatch(s, l)
  <2>1. s \in Seq(Messages) /\ l \in Seq(Messages)
    OBVIOUS
  <2> HIDE DEF s, l
  <2>2. b \in Batches /\ b.summary = l /\ Pend(b) = s /\ BatchOK(b, Lossy)
    BY <2>1, GroupFacts
  <2>3. PrefixOf(s, s)
    BY <2>1, LenProperties DEF PrefixOf
  <2> HIDE DEF b
  <2>4. RoundOK(b, s, l, Lossy)
    BY <2>2, <2>3 DEF RoundOK
  <2>5. QED
    BY <2>4 DEF b, s, l, Summary
<1>5. mode # "collect" /\ Summary(q) # << >> => Lossy
  BY DEF Lossy, Summary
<1> HIDE DEF OK
<1>6. OK(RoundBatch(q))
  <2>1. CASE mode = "collect"
    BY <1>1, <1>2, <1>3, <1>4, <2>1 DEF RoundBatch
  <2>2. CASE mode # "collect"
    BY <1>1, <1>2, <1>3, <1>5, <2>2 DEF RoundBatch
  <2>3. QED
    BY <2>1, <2>2
<1>7. QED
  BY <1>6 DEF OK

-----------------------------------------------------------------------------
(* Drains.                                                                 *)

DrainStates == {"none", "debounce", "starting", "running"}
Busy == {"starting", "running"}

\* The bookkeeping of the drains after a step.
DrainsTyped ==
    /\ registry' \in Queues \cup {None}
    /\ drain' \in [Queues -> DrainStates] /\ force' \in [Queues -> BOOLEAN]

LEMMA StraysFinite ==
    ASSUME NEW reg, NEW dr
    PROVE  /\ IsFiniteSet(Strays(reg, dr))
           /\ Cardinality(Strays(reg, dr)) \in Nat
<1>1. MaxClears + 1 \in Int /\ 1 \in Int
  BY QueueAssumption
<1>2. IsFiniteSet(Queues)
  BY <1>1, FS_Interval DEF Queues
<1>3. Strays(reg, dr) \subseteq Queues
  BY DEF Strays
<1>4. IsFiniteSet(Strays(reg, dr))
  BY <1>2, <1>3, FS_Subset
<1>5. QED
  BY <1>4, FS_CardinalityType

\* Fewer strays, and one in the place of another.
LEMMA FewerStrays ==
    ASSUME NEW reg, NEW dr, NEW reg2, NEW dr2, Strays(reg2, dr2) \subseteq Strays(reg, dr)
    PROVE  Cardinality(Strays(reg2, dr2)) <= Cardinality(Strays(reg, dr))
BY StraysFinite, FS_Subset

LEMMA OneMoreStray ==
    ASSUME NEW reg, NEW dr, NEW reg2, NEW dr2, NEW x,
           Strays(reg2, dr2) \subseteq Strays(reg, dr) \cup {x}
    PROVE  Cardinality(Strays(reg2, dr2)) <= Cardinality(Strays(reg, dr)) + 1
<1> DEFINE S == Strays(reg, dr)
           T == S \cup {x}
<1>1. IsFiniteSet(S) /\ Cardinality(S) \in Nat
  BY StraysFinite
<1> HIDE DEF S
<1>2. IsFiniteSet(T) /\ Cardinality(T) <= Cardinality(S) + 1 /\ Cardinality(T) \in Nat
  <2>1. IsFiniteSet(T) /\ Cardinality(T) = IF x \in S THEN Cardinality(S) ELSE Cardinality(S) + 1
    BY <1>1, FS_AddElement
  <2>2. QED
    BY <1>1, <2>1
<1> HIDE DEF T
<1>3. Strays(reg2, dr2) \subseteq T
  BY DEF S, T
<1>4. Cardinality(Strays(reg2, dr2)) <= Cardinality(T)
  BY <1>2, <1>3, FS_Subset
<1>5. Cardinality(Strays(reg2, dr2)) \in Nat
  BY StraysFinite
<1>6. Cardinality(Strays(reg2, dr2)) <= Cardinality(S) + 1
  BY <1>1, <1>2, <1>4, <1>5
<1>7. QED
  BY <1>6 DEF S

LEMMA ReplacedStray ==
    ASSUME NEW reg, NEW dr, NEW reg2, NEW dr2, NEW q \in Strays(reg, dr), NEW x,
           Strays(reg2, dr2) \subseteq (Strays(reg, dr) \ {q}) \cup {x}
    PROVE  Cardinality(Strays(reg2, dr2)) <= Cardinality(Strays(reg, dr))
<1> DEFINE S == Strays(reg, dr)
           R == S \ {q}
           T == R \cup {x}
<1>1. IsFiniteSet(S) /\ Cardinality(S) \in Nat /\ q \in S
  BY StraysFinite
<1> HIDE DEF S
<1>2. IsFiniteSet(R) /\ Cardinality(R) = Cardinality(S) - 1
  BY <1>1, FS_RemoveElement
<1>3. Cardinality(R) \in Nat
  BY <1>2, FS_CardinalityType
<1> HIDE DEF R
<1>4. IsFiniteSet(T) /\ Cardinality(T) = IF x \in R THEN Cardinality(R) ELSE Cardinality(R) + 1
  BY <1>2, FS_AddElement
<1>5. Cardinality(T) <= Cardinality(S) /\ Cardinality(T) \in Nat
  BY <1>1, <1>2, <1>3, <1>4
<1> HIDE DEF T
<1>6. Strays(reg2, dr2) \subseteq T
  BY DEF S, R, T
<1>7. Cardinality(Strays(reg2, dr2)) <= Cardinality(T) /\ Cardinality(Strays(reg2, dr2)) \in Nat
  BY <1>4, <1>6, FS_Subset, StraysFinite
<1>8. Cardinality(Strays(reg2, dr2)) <= Cardinality(S)
  BY <1>1, <1>5, <1>7
<1>9. QED
  BY <1>8 DEF S

\* scheduleFollowupDrain has three outcomes.
LEMMA Schedules ==
    ASSUME NEW reg \in Queues \cup {None}, NEW is, NEW ls,
           NEW dr \in [Queues -> DrainStates], force \in [Queues -> BOOLEAN],
           scheduleFollowupDrain(reg, is, ls, dr)
    PROVE  /\ DrainsTyped
           /\ \/ registry' = reg /\ drain' = dr
              \/ /\ reg \in Queues /\ dr[reg] = "none"
                 /\ registry' = reg /\ drain' = [dr EXCEPT ![reg] = "debounce"]
              \/ /\ reg \in Queues /\ dr[reg] = "none" /\ ~Pending(is, ls, reg)
                 /\ registry' = None /\ drain' = dr
<1>1. CASE reg = None \/ dr[reg] # "none"
  BY <1>1 DEF scheduleFollowupDrain, DrainsTyped
<1>2. CASE reg # None /\ dr[reg] = "none"
  <2>1. reg \in Queues
    BY <1>2
  <2>2. CASE Pending(is, ls, reg)
    BY <1>2, <2>1, <2>2 DEF scheduleFollowupDrain, DrainsTyped, DrainStates
  <2>3. CASE ~Pending(is, ls, reg)
    BY <1>2, <2>1, <2>3 DEF scheduleFollowupDrain, DrainsTyped, DrainStates
  <2>4. QED
    BY <2>2, <2>3
<1>3. QED
  BY <1>1, <1>2

\* What is left when a round of q's drain is over and its queue has s and l: no
\* other drain goes on or stops, and as long as q is the registered queue and
\* has the only drain, that stays so unless nothing is left to be done.
RoundOver(q, s, l) ==
    /\ DrainsTyped
    /\ drain'[q] \notin Busy
    /\ \A p \in Queues : p # q => (drain'[p] \in Busy <=> drain[p] \in Busy)
    /\ Cardinality(Strays(registry', drain')) <= Cardinality(Strays(registry, drain))
    /\ registry = q /\ (\A p \in Queues : drain[p] # "none" => p = q)
         => /\ \A p \in Queues : drain'[p] # "none" => registry' = p
            /\ registry' = q \/ (s = << >> /\ l = << >>)

LEMMA DrainEndsFacts ==
    ASSUME NEW q \in Queues, drain[q] # "none", NEW is, NEW ls,
           registry \in Queues \cup {None}, drain \in [Queues -> DrainStates],
           force \in [Queues -> BOOLEAN], DrainEnds(q, is, ls)
    PROVE  RoundOver(q, is[q], ls[q])
<1> DEFINE idle == [drain EXCEPT ![q] = "none"]
<1>0. None \notin Queues
  BY QueueAssumption DEF Queues
<1>1. idle \in [Queues -> DrainStates] /\ idle[q] = "none" /\ \A p \in Queues : p # q => idle[p] = drain[p]
  BY DEF DrainStates
<1>2. CASE Pending(is, ls, q)
  <2>1. scheduleFollowupDrain(registry, is, ls, idle)
    BY <1>2 DEF DrainEnds
  <2> HIDE DEF idle
  <2>2. /\ DrainsTyped
        /\ \/ registry' = registry /\ drain' = idle
           \/ /\ registry \in Queues /\ idle[registry] = "none"
              /\ registry' = registry /\ drain' = [idle EXCEPT ![registry] = "debounce"]
           \/ /\ registry \in Queues /\ idle[registry] = "none" /\ ~Pending(is, ls, registry)
              /\ registry' = None /\ drain' = idle
    BY <1>1, <2>1, Schedules
  <2>3. CASE registry' = registry /\ drain' = idle
    <3>1. Strays(registry', drain') \subseteq Strays(registry, drain)
      BY <1>1, <2>3 DEF Strays
    <3>2. QED
      BY <1>1, <2>2, <2>3, <3>1, FewerStrays DEF RoundOver, Busy
  <2>4. CASE /\ registry \in Queues /\ idle[registry] = "none"
             /\ registry' = registry /\ drain' = [idle EXCEPT ![registry] = "debounce"]
    <3>1. drain'[registry] = "debounce" /\ \A p \in Queues : p # registry => drain'[p] = idle[p]
      BY <1>1, <2>4
    <3>2. Strays(registry', drain') \subseteq Strays(registry, drain)
      BY <1>1, <2>4, <3>1 DEF Strays
    <3>3. Cardinality(Strays(registry', drain')) <= Cardinality(Strays(registry, drain))
      BY <3>2, FewerStrays
    <3>4. drain'[q] \notin Busy /\ \A p \in Queues : p # q => (drain'[p] \in Busy <=> drain[p] \in Busy)
      BY <1>1, <2>4, <3>1 DEF Busy
    <3>5. QED
      BY <1>1, <2>2, <2>4, <3>1, <3>3, <3>4 DEF RoundOver
  <2>5. CASE /\ registry \in Queues /\ idle[registry] = "none" /\ ~Pending(is, ls, registry)
             /\ registry' = None /\ drain' = idle
    <3>1. Strays(registry', drain') \subseteq Strays(registry, drain)
      BY <1>1, <2>5 DEF Strays
    <3>2. registry # q
      BY <1>2, <2>5
    <3>3. QED
      BY <1>1, <2>2, <2>5, <3>1, <3>2, FewerStrays DEF RoundOver, Busy
  <2>6. QED
    BY <2>2, <2>3, <2>4, <2>5
<1>3. CASE ~Pending(is, ls, q)
  <2>1. registry' = None /\ drain' = idle /\ force' = force
    BY <1>3 DEF DrainEnds
  <2> HIDE DEF idle
  <2>2. DrainsTyped
    BY <1>1, <2>1 DEF DrainsTyped
  <2>3. Cardinality(Strays(registry', drain')) <= Cardinality(Strays(registry, drain))
    <3>1. CASE registry = q
      <4>1. Strays(registry', drain') \subseteq Strays(registry, drain)
        BY <1>1, <2>1, <3>1 DEF Strays
      <4>2. QED
        BY <4>1, FewerStrays
    <3>2. CASE registry # q
      <4>1. q \in Strays(registry, drain)
        BY <3>2 DEF Strays
      <4>2. Strays(registry', drain') \subseteq (Strays(registry, drain) \ {q}) \cup {registry}
        BY <1>1, <2>1 DEF Strays
      <4>3. QED
        BY <4>1, <4>2, ReplacedStray
    <3>3. QED
      BY <3>1, <3>2
  <2>4. is[q] = << >> /\ ls[q] = << >>
    BY <1>3 DEF Pending
  <2>5. QED
    BY <1>1, <2>1, <2>2, <2>3, <2>4 DEF RoundOver, Busy
<1>4. QED
  BY <1>2, <1>3

LEMMA NextRoundFacts ==
    ASSUME NEW q \in Queues, drain[q] # "none", NEW is, NEW ls,
           registry \in Queues \cup {None}, drain \in [Queues -> DrainStates],
           force \in [Queues -> BOOLEAN], NextRound(q, is, ls)
    PROVE  RoundOver(q, is[q], ls[q])
<1>1. CASE Pending(is, ls, q)
  <2>1. drain' = [drain EXCEPT ![q] = "debounce"] /\ registry' = registry /\ force' = force
    BY <1>1 DEF NextRound
  <2>2. drain'[q] = "debounce" /\ \A p \in Queues : p # q => drain'[p] = drain[p]
    BY <2>1
  <2>3. DrainsTyped
    BY <2>1 DEF DrainsTyped, DrainStates
  <2>4. Strays(registry', drain') \subseteq Strays(registry, drain)
    BY <2>1, <2>2 DEF Strays
  <2>5. QED
    BY <2>1, <2>2, <2>3, <2>4, FewerStrays DEF RoundOver, Busy
<1>2. CASE ~Pending(is, ls, q)
  <2>1. DrainEnds(q, is, ls)
    BY <1>2 DEF NextRound
  <2>2. QED
    BY <2>1, DrainEndsFacts
<1>3. QED
  BY <1>1, <1>2

-----------------------------------------------------------------------------
(* A step that changes one queue.                                          *)

\* Queue q has the messages s, the lines l and the batch b after the step.
Change(q, s, l, b) ==
    /\ items' = [items EXCEPT ![q] = s] /\ lines' = [lines EXCEPT ![q] = l]
    /\ batch' = [batch EXCEPT ![q] = b]

RestTyped ==
    /\ op' \in Queues \cup {None, Direct} /\ lastRun' \in [Queues -> BOOLEAN]
    /\ accepted' \cup ran' \cup told' \cup discarded' \cup cleared' \subseteq Messages
    /\ raced' \in BOOLEAN /\ directs' \in 0..MaxDirects /\ failures' \in 0..MaxFailures
    /\ clears' \in 0..MaxClears

\* The batches and the drains stay in step.
InStep(q, b) ==
    /\ \A p \in Queues : p # q => (drain'[p] \in Busy <=> drain[p] \in Busy)
    /\ (b # NoBatch) <=> (drain'[q] \in Busy)

\* The messages of q come from q, or from D and are accepted now, and the ones
\* run now are of q.
Moved(q, s, b, D) ==
    /\ D \subseteq deciding /\ deciding' = deciding \ D /\ arrived' = arrived
    /\ Own(s, b) \subseteq Own(items[q], batch[q]) \cup D
    /\ Own(s, b) \subseteq Own(items[q], batch[q]) \cup accepted' /\ accepted \subseteq accepted'
    /\ ran \subseteq ran' /\ ran' \subseteq ran \cup Own(items[q], batch[q])
    /\ Own(s, b) \cap ran' = {}

\* q is the one queue, its batch is at its front, and it is empty when it is
\* no longer registered.
Calm(q, s, l, b) ==
    /\ ~raced /\ (registry = q \/ registry = None)
    /\ \A p \in Queues : drain'[p] # "none" => registry' = p
    /\ registry' = q \/ (s = << >> /\ l = << >>)
    /\ PrefixOf(Pend(b), s)
    /\ b.summary # << >> => b.summary = l

\* What q had or accepts, it has or is accounted for.
NothingGone(q, s, l) ==
    /\ Answered \subseteq Answered'
    /\ Elems(items[q]) \cup Elems(lines[q]) \subseteq Elems(s) \cup Elems(l) \cup Answered'
    /\ accepted' \subseteq accepted \cup Elems(s) \cup Elems(l) \cup Answered'

LEMMA BatchedStep ==
    ASSUME NEW is \in [Queues -> Seq(Messages)], NEW ba, NEW lossy, Batched(is, ba, lossy),
           NEW q \in Queues, NEW s \in Seq(Messages), NEW b \in Batches,
           BatchOK(b, lossy), QueueOK(s, b)
    PROVE  Batched([is EXCEPT ![q] = s], [ba EXCEPT ![q] = b], lossy)
<1> DEFINE is2 == [is EXCEPT ![q] = s]
           ba2 == [ba EXCEPT ![q] = b]
<1>1. ba \in [Queues -> Batches] /\ \A p \in Queues : BatchOK(ba[p], lossy) /\ QueueOK(is[p], ba[p])
  BY DEF Batched
<1>2. ba2 \in [Queues -> Batches] /\ is2[q] = s /\ ba2[q] = b
      /\ \A p \in Queues : p # q => is2[p] = is[p] /\ ba2[p] = ba[p]
  BY <1>1
<1> HIDE DEF is2, ba2
<1>3. \A p \in Queues : BatchOK(ba2[p], lossy) /\ QueueOK(is2[p], ba2[p])
  BY <1>1, <1>2
<1>4. Batched(is2, ba2, lossy)
  BY <1>2, <1>3 DEF Batched
<1>5. QED
  BY <1>4 DEF is2, ba2

LEMMA OnePlaceStep ==
    ASSUME NEW is, NEW ba, NEW is2, NEW ba2, NEW de, NEW ra, NEW n, NEW q \in Queues,
           \A p \in Queues : p # q => is2[p] = is[p] /\ ba2[p] = ba[p],
           OnePlace(is, ba, de, ra, n), NEW D \in SUBSET de, NEW ra2,
           Own(is2[q], ba2[q]) \subseteq Own(is[q], ba[q]) \cup D,
           ra \subseteq ra2, ra2 \subseteq ra \cup Own(is[q], ba[q]),
           Own(is2[q], ba2[q]) \cap ra2 = {}
    PROVE  OnePlace(is2, ba2, de \ D, ra2, n)
<1> DEFINE O(p) == Own(is[p], ba[p])
           N(p) == Own(is2[p], ba2[p])
<1>1. /\ de \cup ra \subseteq 1..n /\ de \cap ra = {}
      /\ \A p \in Queues : O(p) \subseteq 1..n /\ O(p) \cap de = {} /\ O(p) \cap ra = {}
      /\ \A p, r \in Queues : p # r => O(p) \cap O(r) = {}
  BY DEF OnePlace
<1>2. \A p \in Queues : p # q => N(p) = O(p)
  OBVIOUS
<1>3. /\ N(q) \subseteq O(q) \cup D /\ ra2 \subseteq ra \cup O(q) /\ N(q) \cap ra2 = {}
  OBVIOUS
<1> HIDE DEF O, N
<1>4. (de \ D) \cup ra2 \subseteq 1..n /\ (de \ D) \cap ra2 = {}
  BY <1>1, <1>3
<1>5. ASSUME NEW p \in Queues
      PROVE  N(p) \subseteq 1..n /\ N(p) \cap (de \ D) = {} /\ N(p) \cap ra2 = {}
  <2>1. CASE p = q
    BY <1>1, <1>3, <2>1
  <2>2. CASE p # q
    BY <1>1, <1>2, <1>3, <2>2
  <2>3. QED
    BY <2>1, <2>2
<1>6. ASSUME NEW p \in Queues, NEW r \in Queues, p # r PROVE N(p) \cap N(r) = {}
  <2>1. CASE p = q
    BY <1>1, <1>2, <1>3, <1>6, <2>1
  <2>2. CASE r = q
    BY <1>1, <1>2, <1>3, <1>6, <2>2
  <2>3. CASE p # q /\ r # q
    BY <1>1, <1>2, <1>6, <2>3
  <2>4. QED
    BY <2>1, <2>2, <2>3
<1>7. QED
  BY <1>4, <1>5, <1>6 DEF OnePlace, N

LEMMA UndisturbedStep ==
    ASSUME NEW reg, NEW dr, NEW is, NEW ls, NEW ba, Undisturbed(reg, dr, is, ls, ba),
           NEW reg2, NEW dr2, NEW is2, NEW ls2, NEW ba2, NEW q \in Queues,
           \A p \in Queues : p # q => is2[p] = is[p] /\ ls2[p] = ls[p] /\ ba2[p] = ba[p],
           reg = q \/ reg \notin Queues,
           \A p \in Queues : dr2[p] # "none" => reg2 = p,
           reg2 = q \/ (is2[q] = << >> /\ ls2[q] = << >>),
           PrefixOf(Pend(ba2[q]), is2[q]),
           ba2[q].summary # << >> => ba2[q].summary = ls2[q]
    PROVE  Undisturbed(reg2, dr2, is2, ls2, ba2)
<1>1. \A p \in Queues : reg2 # p => is2[p] = << >> /\ ls2[p] = << >>
  BY DEF Undisturbed
<1>2. \A p \in Queues : /\ PrefixOf(Pend(ba2[p]), is2[p])
                        /\ ba2[p].summary # << >> => ba2[p].summary = ls2[p]
  BY DEF Undisturbed
<1>3. QED
  BY <1>1, <1>2 DEF Undisturbed

\* All the messages that are in some queue.
Somewhere(is, ls) == UNION {Elems(is[q]) \cup Elems(ls[q]) : q \in Queues}

LEMMA HeldSomewhere ==
    /\ Held \subseteq Somewhere(items, lines)
    /\ Undisturbed(registry, drain, items, lines, batch) => Somewhere(items, lines) \subseteq Held
<1>1. Held \subseteq Somewhere(items, lines)
  BY DEF Held, Somewhere
<1>2. ASSUME Undisturbed(registry, drain, items, lines, batch), NEW x \in Somewhere(items, lines)
      PROVE  x \in Held
  <2>1. PICK q \in Queues : x \in Elems(items[q]) \cup Elems(lines[q])
    BY <1>2 DEF Somewhere
  <2>2. Elems(<< >>) = {}
    BY EmptyFacts
  <2>3. registry = q
    BY <1>2, <2>1, <2>2 DEF Undisturbed
  <2>4. ~Free(q)
    BY <2>3 DEF Free
  <2>5. QED
    BY <2>1, <2>4 DEF Held
<1>3. QED
  BY <1>1, <1>2

LEMMA HeldSomewhereNext ==
    (Undisturbed(registry, drain, items, lines, batch) => Somewhere(items, lines) \subseteq Held)'
<1>1. Undisturbed(registry, drain, items, lines, batch) => Somewhere(items, lines) \subseteq Held
  BY HeldSomewhere
<1>2. QED
  BY <1>1, PTL

\* Inv is kept by any step that changes one queue under these conditions.
LEMMA QueueStep ==
    ASSUME Inv, NEW q \in Queues, NEW s \in Seq(Messages), NEW l \in Seq(Messages),
           NEW b \in Batches, NEW D, UNCHANGED setting,
           Change(q, s, l, b), DrainsTyped, RestTyped,
           Len(s) <= Cap, Len(l) <= Cap, InStep(q, b),
           BatchOK(b, Lossy), QueueOK(s, b), policy # "summarize" => l = << >>,
           Moved(q, s, b, D),
           Cardinality(Strays(registry', drain')) <= clears',
           ~raced' => Calm(q, s, l, b),
           ~raced' /\ ~Lossy => NothingGone(q, s, l)
    PROVE  Inv'
<1>1. /\ items \in [Queues -> Seq(Messages)] /\ lines \in [Queues -> Seq(Messages)]
      /\ batch \in [Queues -> Batches]
  BY DEF Inv, QueueType, Batched
<1>2. /\ items' \in [Queues -> Seq(Messages)] /\ lines' \in [Queues -> Seq(Messages)]
      /\ items'[q] = s /\ lines'[q] = l /\ batch'[q] = b
      /\ \A p \in Queues : p # q => items'[p] = items[p] /\ lines'[p] = lines[p] /\ batch'[p] = batch[p]
  BY <1>1 DEF Change
<1>3. mode' = mode /\ policy' = policy /\ (Lossy' <=> Lossy)
  BY DEF setting, Lossy
<1>4. QueueType'
  <2>1. \A p \in Queues : Len(items'[p]) <= Cap /\ Len(lines'[p]) <= Cap
    BY <1>2 DEF Inv, QueueType
  <2>2. \A p \in Queues : (batch'[p] # NoBatch) <=> (drain'[p] \in {"starting", "running"})
    BY <1>2 DEF Inv, QueueType, InStep, Busy
  <2>3. deciding' \subseteq Messages /\ arrived' \in 0..MaxMessages
    BY DEF Inv, QueueType, Moved
  <2>4. mode' \in {"followup", "collect"} /\ policy' \in {"old", "new", "summarize"}
    BY <1>3 DEF Inv, QueueType
  <2>5. QED
    BY <1>2, <2>1, <2>2, <2>3, <2>4 DEF QueueType, DrainsTyped, DrainStates, RestTyped
<1>5. Batched(items, batch, Lossy)'
  <2>1. Batched(items, batch, Lossy)
    BY DEF Inv
  <2>2. Batched([items EXCEPT ![q] = s], [batch EXCEPT ![q] = b], Lossy)
    BY <1>1, <2>1, BatchedStep
  <2>3. Batched(items', batch', Lossy)
    BY <2>2 DEF Change
  <2>4. QED
    BY <1>3, <2>3 DEF Batched, BatchOK
<1>6. (policy # "summarize" => \A p \in Queues : lines[p] = << >>)'
  BY <1>2, <1>3 DEF Inv
<1>7. OnePlace(items, batch, deciding, ran, arrived)'
  <2>1. OnePlace(items, batch, deciding, ran, arrived)
    BY DEF Inv
  <2>2. /\ D \in SUBSET deciding /\ deciding' = deciding \ D /\ arrived' = arrived
        /\ Own(items'[q], batch'[q]) \subseteq Own(items[q], batch[q]) \cup D
        /\ ran \subseteq ran' /\ ran' \subseteq ran \cup Own(items[q], batch[q])
        /\ Own(items'[q], batch'[q]) \cap ran' = {}
    BY <1>2 DEF Moved
  <2>3. OnePlace(items', batch', deciding \ D, ran', arrived)
    <3> DEFINE is2 == items'
               ba2 == batch'
               ra2 == ran'
    <3>1. \A p \in Queues : p # q => is2[p] = items[p] /\ ba2[p] = batch[p]
      BY <1>2
    <3>2. /\ D \in SUBSET deciding
          /\ Own(is2[q], ba2[q]) \subseteq Own(items[q], batch[q]) \cup D
          /\ ran \subseteq ra2 /\ ra2 \subseteq ran \cup Own(items[q], batch[q])
          /\ Own(is2[q], ba2[q]) \cap ra2 = {}
      BY <2>2
    <3> HIDE DEF is2, ba2, ra2
    <3>3. OnePlace(is2, ba2, deciding \ D, ra2, arrived)
      BY <2>1, <3>1, <3>2, OnePlaceStep
    <3>4. QED
      BY <3>3 DEF is2, ba2, ra2
  <2>4. OnePlace(items', batch', deciding', ran', arrived')
    BY <2>2, <2>3
  <2>5. QED
    BY <2>4
<1>8. ASSUME ~raced' PROVE Undisturbed(registry, drain, items, lines, batch)'
  <2>1. Calm(q, s, l, b)
    BY <1>8
  <2>2. Undisturbed(registry, drain, items, lines, batch)
    BY <2>1 DEF Inv, Calm
  <2>3. registry = q \/ registry \notin Queues
    BY <2>1, QueueAssumption DEF Calm, Queues
  <2>4. /\ \A p \in Queues : drain'[p] # "none" => registry' = p
        /\ registry' = q \/ (items'[q] = << >> /\ lines'[q] = << >>)
        /\ PrefixOf(Pend(batch'[q]), items'[q])
        /\ batch'[q].summary # << >> => batch'[q].summary = lines'[q]
    BY <1>2, <2>1 DEF Calm
  <2>5. Undisturbed(registry', drain', items', lines', batch')
    <3> DEFINE is2 == items'
               ls2 == lines'
               ba2 == batch'
               dr2 == drain'
               reg2 == registry'
    <3>1. \A p \in Queues : p # q => is2[p] = items[p] /\ ls2[p] = lines[p] /\ ba2[p] = batch[p]
      BY <1>2
    <3>2. /\ \A p \in Queues : dr2[p] # "none" => reg2 = p
          /\ reg2 = q \/ (is2[q] = << >> /\ ls2[q] = << >>)
          /\ PrefixOf(Pend(ba2[q]), is2[q])
          /\ ba2[q].summary # << >> => ba2[q].summary = ls2[q]
      BY <2>4
    <3> HIDE DEF is2, ls2, ba2, dr2, reg2
    <3>3. Undisturbed(reg2, dr2, is2, ls2, ba2)
      BY <2>2, <2>3, <3>1, <3>2, UndisturbedStep
    <3>4. QED
      BY <3>3 DEF is2, ls2, ba2, dr2, reg2
  <2>6. QED
    BY <2>5
<1>9. NoSilentLoss'
  <2>1. SUFFICES ASSUME ~raced', ~Lossy' PROVE accepted' \subseteq Held' \cup Answered'
    BY DEF NoSilentLoss
  <2>2. ~raced /\ ~Lossy /\ NothingGone(q, s, l)
    BY <1>3, <2>1 DEF Calm
  <2>3. accepted \subseteq Somewhere(items, lines) \cup Answered
    <3>1. accepted \subseteq Held \cup Answered
      BY <2>2 DEF Inv, NoSilentLoss
    <3>2. QED
      BY <3>1, HeldSomewhere
  <2>4. accepted' \subseteq Somewhere(items', lines') \cup Answered'
    <3> DEFINE ans2 == Answered'
               is2 == items'
               ls2 == lines'
               old == Elems(items[q]) \cup Elems(lines[q])
               new == Elems(is2[q]) \cup Elems(ls2[q])
    <3>1. \A p \in Queues : p # q => is2[p] = items[p] /\ ls2[p] = lines[p]
      BY <1>2
    <3>2. Answered \subseteq ans2 /\ old \subseteq new \cup ans2 /\ accepted' \subseteq accepted \cup new \cup ans2
      BY <1>2, <2>2 DEF NothingGone
    <3> HIDE DEF ans2, is2, ls2
    <3>3. Somewhere(items, lines) \subseteq Somewhere(is2, ls2) \cup old /\ new \subseteq Somewhere(is2, ls2)
      <4>1. \A p \in Queues : Elems(is2[p]) \cup Elems(ls2[p]) \subseteq Somewhere(is2, ls2)
        BY DEF Somewhere
      <4>2. ASSUME NEW x \in Somewhere(items, lines) PROVE x \in Somewhere(is2, ls2) \cup old
        <5>1. PICK p \in Queues : x \in Elems(items[p]) \cup Elems(lines[p])
          BY <4>2 DEF Somewhere
        <5>2. CASE p = q
          BY <5>1, <5>2
        <5>3. CASE p # q
          BY <3>1, <4>1, <5>1, <5>3
        <5>4. QED
          BY <5>2, <5>3
      <4>3. QED
        BY <4>1, <4>2
    <3> HIDE DEF old, new
    <3>4. accepted' \subseteq Somewhere(is2, ls2) \cup ans2
      BY <2>3, <3>2, <3>3
    <3>5. QED
      BY <3>4 DEF ans2, is2, ls2
  <2>5. Somewhere(items', lines') \subseteq Held'
    BY <1>8, <2>1, HeldSomewhereNext
  <2>6. QED
    BY <2>4, <2>5
<1>10. Known(items, batch, ran, accepted)'
  <2>1. ran \subseteq accepted /\ \A p \in Queues : Own(items[p], batch[p]) \subseteq accepted
    BY DEF Inv, Known
  <2>2. /\ Own(items'[q], batch'[q]) \subseteq Own(items[q], batch[q]) \cup accepted'
        /\ accepted \subseteq accepted' /\ ran' \subseteq ran \cup Own(items[q], batch[q])
    BY <1>2 DEF Moved
  <2>3. ASSUME NEW p \in Queues PROVE Own(items'[p], batch'[p]) \subseteq accepted'
    <3>1. CASE p = q
      BY <2>1, <2>2, <3>1
    <3>2. CASE p # q
      <4>1. items'[p] = items[p] /\ batch'[p] = batch[p]
        BY <1>2, <3>2
      <4>2. QED
        BY <2>1, <2>2, <4>1
    <3>3. QED
      BY <3>1, <3>2
  <2>4. ran' \subseteq accepted'
    BY <2>1, <2>2
  <2>5. QED
    BY <2>3, <2>4 DEF Known
<1>11. QED
  BY <1>4, <1>5, <1>6, <1>7, <1>8, <1>9, <1>10 DEF Inv

-----------------------------------------------------------------------------
(* The drain's steps.                                                      *)

LEMMA NoBatchQueue ==
    ASSUME NEW s \in Seq(Messages), Distinct(s)
    PROVE  QueueOK(s, NoBatch) /\ Own(s, NoBatch) = Elems(s) /\ PrefixOf(Pend(NoBatch), s)
<1>1. Pend(NoBatch) = << >>
  BY NoBatchFacts
<1>2. Elems(<< >>) = {} /\ Distinct(<< >>) /\ NotBehind(s, << >>) /\ PrefixOf(<< >>, s)
  BY EmptyFacts
<1>3. QED
  BY <1>1, <1>2 DEF QueueOK, Own

\* What the invariant says of one queue.
LEMMA QueueFacts ==
    ASSUME Inv, NEW q \in Queues
    PROVE  /\ items[q] \in Seq(Messages) /\ lines[q] \in Seq(Messages) /\ batch[q] \in Batches
           /\ Len(items[q]) <= Cap /\ Len(lines[q]) <= Cap
           /\ BatchOK(batch[q], Lossy) /\ QueueOK(items[q], batch[q])
           /\ drain[q] \notin Busy <=> batch[q] = NoBatch
           /\ policy # "summarize" => lines[q] = << >>
           /\ Own(items[q], batch[q]) \cap ran = {}
           /\ Own(items[q], batch[q]) \cap deciding = {}
           /\ items = [items EXCEPT ![q] = items[q]] /\ lines = [lines EXCEPT ![q] = lines[q]]
           /\ batch = [batch EXCEPT ![q] = batch[q]]
<1>1. /\ items \in [Queues -> Seq(Messages)] /\ lines \in [Queues -> Seq(Messages)]
      /\ batch \in [Queues -> Batches]
  BY DEF Inv, QueueType, Batched
<1>2. items[q] \in Seq(Messages) /\ lines[q] \in Seq(Messages) /\ batch[q] \in Batches
  BY <1>1
<1>3. /\ items = [items EXCEPT ![q] = items[q]] /\ lines = [lines EXCEPT ![q] = lines[q]]
      /\ batch = [batch EXCEPT ![q] = batch[q]]
  BY <1>1
<1>4. /\ Len(items[q]) <= Cap /\ Len(lines[q]) <= Cap
      /\ drain[q] \notin Busy <=> batch[q] = NoBatch
  BY DEF Inv, QueueType, Busy
<1>5. BatchOK(batch[q], Lossy) /\ QueueOK(items[q], batch[q])
  BY DEF Inv, Batched
<1>6. Own(items[q], batch[q]) \cap ran = {} /\ Own(items[q], batch[q]) \cap deciding = {}
  BY DEF Inv, OnePlace
<1>7. policy # "summarize" => lines[q] = << >>
  BY DEF Inv
<1>8. QED
  BY <1>2, <1>3, <1>4, <1>5, <1>6, <1>7

LEMMA StateTypes ==
    ASSUME Inv
    PROVE  /\ registry \in Queues \cup {None} /\ drain \in [Queues -> DrainStates]
           /\ force \in [Queues -> BOOLEAN] /\ lastRun \in [Queues -> BOOLEAN]
           /\ op \in Queues \cup {None, Direct}
           /\ accepted \cup ran \cup told \cup discarded \cup cleared \subseteq Messages
           /\ raced \in BOOLEAN /\ directs \in 0..MaxDirects /\ failures \in 0..MaxFailures
           /\ clears \in 0..MaxClears
           /\ Cardinality(Strays(registry, drain)) <= clears
           /\ ~raced => Undisturbed(registry, drain, items, lines, batch)
BY DEF Inv, QueueType, DrainStates

\* Undisturbed: the queue with a drain is the registered one.
LEMMA OneDrain ==
    ASSUME Undisturbed(registry, drain, items, lines, batch), NEW q \in Queues, drain[q] # "none"
    PROVE  registry = q /\ \A p \in Queues : drain[p] # "none" => p = q
BY DEF Undisturbed

\* A round that ends without a run having returned: nothing is taken.
LEMMA RoundGivenUp ==
    ASSUME Inv, NEW q \in Queues, drain[q] # "none", RoundOver(q, items[q], lines[q]),
           batch' = [batch EXCEPT ![q] = NoBatch],
           op' \in Queues \cup {None, Direct}, failures' \in 0..MaxFailures,
           UNCHANGED <<setting, items, lines, lastRun, deciding, arrived, history, directs, clears>>
    PROVE  Inv'
<1> DEFINE s == items[q]
           l == lines[q]
           D == {}
<1>1. /\ s \in Seq(Messages) /\ l \in Seq(Messages) /\ Len(s) <= Cap /\ Len(l) <= Cap
      /\ QueueOK(s, batch[q]) /\ (policy # "summarize" => l = << >>)
      /\ Own(s, batch[q]) \cap ran = {}
      /\ items = [items EXCEPT ![q] = s] /\ lines = [lines EXCEPT ![q] = l]
  BY QueueFacts
<1>2. /\ accepted' = accepted /\ ran' = ran /\ told' = told /\ discarded' = discarded
      /\ cleared' = cleared /\ raced' = raced /\ directs' = directs /\ clears' = clears
      /\ lastRun' = lastRun /\ items' = items /\ lines' = lines /\ deciding' = deciding
      /\ arrived' = arrived /\ UNCHANGED setting
  BY DEF history
<1>3. Change(q, s, l, NoBatch)
  BY <1>1, <1>2 DEF Change
<1>4. DrainsTyped /\ InStep(q, NoBatch)
  BY DEF RoundOver, InStep
<1>5. RestTyped
  BY <1>2, StateTypes DEF RestTyped
<1>6. Cardinality(Strays(registry', drain')) <= clears'
  <2>1. Cardinality(Strays(registry', drain')) \in Nat /\ Cardinality(Strays(registry, drain)) \in Nat
    BY StraysFinite
  <2>2. Cardinality(Strays(registry', drain')) <= Cardinality(Strays(registry, drain))
    BY DEF RoundOver
  <2>3. Cardinality(Strays(registry, drain)) <= clears /\ clears \in Nat
    BY StateTypes, QueueAssumption
  <2>4. QED
    BY <1>2, <2>1, <2>2, <2>3
<1> HIDE DEF s, l, D
<1>7. QueueOK(s, NoBatch) /\ Own(s, NoBatch) = Elems(s) /\ PrefixOf(Pend(NoBatch), s)
  BY <1>1, NoBatchQueue DEF QueueOK
<1>8. Moved(q, s, NoBatch, D)
  BY <1>1, <1>2, <1>7 DEF Moved, Own, s, D
<1>9. ASSUME ~raced' PROVE Calm(q, s, l, NoBatch)
  <2>1. Undisturbed(registry, drain, items, lines, batch) /\ ~raced
    BY <1>2, <1>9, StateTypes
  <2>2. registry = q /\ \A p \in Queues : drain[p] # "none" => p = q
    BY <2>1, OneDrain
  <2>3. /\ \A p \in Queues : drain'[p] # "none" => registry' = p
        /\ registry' = q \/ (s = << >> /\ l = << >>)
    BY <2>2 DEF RoundOver, s, l
  <2>4. QED
    BY <1>7, <2>1, <2>2, <2>3, NoBatchFacts DEF Calm
<1>10. NothingGone(q, s, l)
  BY <1>2 DEF NothingGone, Answered, s, l
<1>11. QED
  BY <1>1, <1>2, <1>3, <1>4, <1>5, <1>6, <1>7, <1>8, <1>9, <1>10, NoBatchFacts, QueueStep

LEMMA DrainRoundStep ==
    ASSUME Inv, NEW q \in Queues, DrainRound(q)
    PROVE  Inv'
<1> DEFINE s == items[q]
           l == lines[q]
           b == RoundBatch(q)
           D == {}
<1>1. /\ drain[q] = "debounce" /\ batch' = [batch EXCEPT ![q] = b]
      /\ UNCHANGED <<setting, items, lines, lastRun, op, deciding, arrived, history, counts>>
  BY DEF DrainRound
<1>2. /\ s \in Seq(Messages) /\ l \in Seq(Messages) /\ Len(s) <= Cap /\ Len(l) <= Cap
      /\ QueueOK(s, batch[q]) /\ (policy # "summarize" => l = << >>)
      /\ Own(s, batch[q]) \cap ran = {}
      /\ items = [items EXCEPT ![q] = s] /\ lines = [lines EXCEPT ![q] = l]
  BY QueueFacts
<1>3. /\ accepted' = accepted /\ ran' = ran /\ told' = told /\ discarded' = discarded
      /\ cleared' = cleared /\ raced' = raced /\ directs' = directs /\ clears' = clears
      /\ failures' = failures /\ op' = op
      /\ lastRun' = lastRun /\ items' = items /\ lines' = lines /\ deciding' = deciding
      /\ arrived' = arrived /\ UNCHANGED setting
  BY <1>1 DEF history, counts
<1>4. /\ registry \in Queues \cup {None} /\ drain \in [Queues -> DrainStates]
      /\ force \in [Queues -> BOOLEAN] /\ op \in Queues \cup {None, Direct}
      /\ failures \in 0..MaxFailures
  BY StateTypes
<1>5. CASE b = NoBatch
  <2>1. DrainEnds(q, items, lines)
    BY <1>5 DEF DrainRound
  <2>2. RoundOver(q, items[q], lines[q])
    BY <1>1, <1>4, <2>1, DrainEndsFacts
  <2>3. UNCHANGED <<setting, items, lines, lastRun, deciding, arrived, history, directs, clears>>
    BY <1>1 DEF counts
  <2>4. batch' = [batch EXCEPT ![q] = NoBatch] /\ drain[q] # "none"
    BY <1>1, <1>5
  <2>5. op' \in Queues \cup {None, Direct} /\ failures' \in 0..MaxFailures
    BY <1>3, <1>4
  <2>6. QED
    BY <2>2, <2>3, <2>4, <2>5, RoundGivenUp
<1>6. CASE b # NoBatch
  <2>1. /\ drain' = [drain EXCEPT ![q] = "starting"]
        /\ force' = [force EXCEPT ![q] = @ \/ (mode = "collect" /\ isCrossChannel(items[q]))]
        /\ registry' = registry
    BY <1>6 DEF DrainRound
  <2>2. RoundOK(b, s, l, Lossy)
    BY <1>2, RoundBatchFacts
  <2>3. Change(q, s, l, b)
    BY <1>1, <1>2, <1>3 DEF Change
  <2> HIDE DEF b, s, l, D
  <2>4. b \in Batches /\ BatchOK(b, Lossy) /\ PrefixOf(Pend(b), s) /\ (b.summary # << >> => b.summary = l)
    BY <2>2 DEF RoundOK
  <2>5. Pend(b) \in Seq(Messages)
    BY <2>4, ConcatFacts DEF Pend, Batches
  <2>6. Distinct(Pend(b)) /\ NotBehind(s, Pend(b)) /\ Elems(Pend(b)) \subseteq Elems(s)
    BY <1>2, <2>4, <2>5, PrefixKeeps DEF QueueOK
  <2>7. QueueOK(s, b) /\ Own(s, b) = Elems(s)
    BY <1>2, <2>6 DEF QueueOK, Own
  <2>8. Moved(q, s, b, D)
    BY <1>2, <1>3, <2>7 DEF Moved, Own, s, D
  <2>9. drain'[q] = "starting" /\ \A p \in Queues : p # q => drain'[p] = drain[p]
    BY <1>4, <2>1
  <2>10. DrainsTyped
    <3>1. drain' \in [Queues -> DrainStates]
      BY <1>4, <2>1 DEF DrainStates
    <3>2. force' \in [Queues -> BOOLEAN]
      BY <1>4, <2>1
    <3>3. QED
      BY <1>4, <2>1, <3>1, <3>2 DEF DrainsTyped
  <2>11. InStep(q, b)
    BY <1>6, <2>9 DEF InStep, Busy
  <2>12. RestTyped
    BY <1>3, StateTypes DEF RestTyped
  <2>13. Cardinality(Strays(registry', drain')) <= clears'
    <3>1. Strays(registry', drain') = Strays(registry, drain)
      BY <1>1, <2>1, <2>9 DEF Strays
    <3>2. QED
      BY <1>3, <3>1, StateTypes
  <2>14. ASSUME ~raced' PROVE Calm(q, s, l, b)
    <3>1. Undisturbed(registry, drain, items, lines, batch) /\ ~raced
      BY <1>3, <2>14, StateTypes
    <3>2. registry = q /\ \A p \in Queues : drain[p] # "none" => p = q
      BY <1>1, <3>1, OneDrain
    <3>3. QED
      BY <2>1, <2>4, <2>9, <3>1, <3>2 DEF Calm
  <2>15. NothingGone(q, s, l)
    BY <1>3 DEF NothingGone, Answered, s, l
  <2>16. QED
    BY <1>2, <1>3, <2>3, <2>4, <2>7, <2>8, <2>10, <2>11, <2>12, <2>13, <2>14, <2>15, QueueStep
<1>7. QED
  BY <1>5, <1>6

LEMMA FollowupStartsStep ==
    ASSUME Inv, NEW q \in Queues, FollowupStarts(q)
    PROVE  Inv'
<1>1. /\ drain[q] = "starting"
      /\ UNCHANGED <<setting, items, lines, lastRun, deciding, arrived, history, counts>>
  BY DEF FollowupStarts
<1>2. /\ registry \in Queues \cup {None} /\ drain \in [Queues -> DrainStates]
      /\ force \in [Queues -> BOOLEAN] /\ op \in Queues \cup {None, Direct}
      /\ failures \in 0..MaxFailures
  BY StateTypes
<1>3. CASE op = None
  <2> DEFINE s == items[q]
             l == lines[q]
             b == batch[q]
             D == {}
  <2>1. op' = q /\ drain' = [drain EXCEPT ![q] = "running"] /\ registry' = registry /\ force' = force /\ batch' = batch
    BY <1>3 DEF FollowupStarts
  <2>2. /\ s \in Seq(Messages) /\ l \in Seq(Messages) /\ b \in Batches /\ Len(s) <= Cap /\ Len(l) <= Cap
        /\ BatchOK(b, Lossy) /\ QueueOK(s, b) /\ (policy # "summarize" => l = << >>)
        /\ Own(s, b) \cap ran = {} /\ (drain[q] \notin Busy <=> b = NoBatch)
        /\ items = [items EXCEPT ![q] = s] /\ lines = [lines EXCEPT ![q] = l]
        /\ batch = [batch EXCEPT ![q] = b]
    BY QueueFacts
  <2>3. /\ accepted' = accepted /\ ran' = ran /\ told' = told /\ discarded' = discarded
        /\ cleared' = cleared /\ raced' = raced /\ directs' = directs /\ clears' = clears
        /\ failures' = failures
        /\ lastRun' = lastRun /\ items' = items /\ lines' = lines /\ deciding' = deciding
        /\ arrived' = arrived /\ UNCHANGED setting
    BY <1>1 DEF history, counts
  <2>4. Change(q, s, l, b)
    BY <2>1, <2>2, <2>3 DEF Change
  <2>5. drain'[q] = "running" /\ \A p \in Queues : p # q => drain'[p] = drain[p]
    BY <1>2, <2>1
  <2>6. DrainsTyped
    BY <1>2, <2>1 DEF DrainsTyped, DrainStates
  <2>7. RestTyped
    BY <2>1, <2>3, StateTypes DEF RestTyped
  <2>8. Cardinality(Strays(registry', drain')) <= clears'
    <3>1. Strays(registry', drain') = Strays(registry, drain)
      BY <1>1, <2>1, <2>5 DEF Strays
    <3>2. QED
      BY <2>3, <3>1, StateTypes
  <2>9. ASSUME ~raced' PROVE Calm(q, s, l, b)
    <3>1. Undisturbed(registry, drain, items, lines, batch) /\ ~raced
      BY <2>3, <2>9, StateTypes
    <3>2. registry = q /\ \A p \in Queues : drain[p] # "none" => p = q
      BY <1>1, <3>1, OneDrain
    <3>3. PrefixOf(Pend(b), s) /\ (b.summary # << >> => b.summary = l)
      BY <3>1 DEF Undisturbed
    <3> HIDE DEF b, s, l
    <3>4. QED
      BY <2>1, <2>5, <3>1, <3>2, <3>3 DEF Calm
  <2>10. NothingGone(q, s, l)
    BY <2>3 DEF NothingGone, Answered
  <2>11. Moved(q, s, b, D)
    BY <2>2, <2>3 DEF Moved
  <2> HIDE DEF b, s, l, D
  <2>12. InStep(q, b)
    BY <1>1, <2>2, <2>5 DEF InStep, Busy
  <2>13. QED
    BY <2>2, <2>3, <2>4, <2>6, <2>7, <2>8, <2>9, <2>10, <2>11, <2>12, QueueStep
<1>4. CASE op # None
  <2>1. DrainEnds(q, items, lines) /\ batch' = [batch EXCEPT ![q] = NoBatch] /\ op' = op
    BY <1>4 DEF FollowupStarts
  <2>2. RoundOver(q, items[q], lines[q])
    BY <1>1, <1>2, <2>1, DrainEndsFacts
  <2>3. /\ UNCHANGED <<setting, items, lines, lastRun, deciding, arrived, history, directs, clears>>
        /\ failures' = failures
    BY <1>1 DEF counts
  <2>4. op' \in Queues \cup {None, Direct} /\ failures' \in 0..MaxFailures /\ drain[q] # "none"
    BY <1>1, <1>2, <2>1, <2>3
  <2>5. QED
    BY <2>1, <2>2, <2>3, <2>4, RoundGivenUp
<1>5. QED
  BY <1>3, <1>4

LEMMA FollowupThrowsStep ==
    ASSUME Inv, NEW q \in Queues, FollowupThrows(q)
    PROVE  Inv'
<1>1. /\ drain[q] # "none" /\ failures < MaxFailures /\ failures' = failures + 1 /\ op' = None
      /\ batch' = [batch EXCEPT ![q] = NoBatch] /\ DrainEnds(q, items, lines)
      /\ UNCHANGED <<setting, items, lines, lastRun, deciding, arrived, history, directs, clears>>
  BY DEF FollowupThrows
<1>2. /\ registry \in Queues \cup {None} /\ drain \in [Queues -> DrainStates]
      /\ force \in [Queues -> BOOLEAN] /\ failures \in 0..MaxFailures
  BY StateTypes
<1>3. RoundOver(q, items[q], lines[q])
  BY <1>1, <1>2, DrainEndsFacts
<1>4. op' \in Queues \cup {None, Direct} /\ failures' \in 0..MaxFailures
  BY <1>1, <1>2, QueueAssumption
<1>5. QED
  BY <1>1, <1>3, <1>4, RoundGivenUp

\* Taking as many messages off the queue as a run had takes every one of them
\* that is there, and from an undisturbed queue nothing else.
LEMMA TakenGone ==
    ASSUME NEW S, NEW s \in Seq(S), NEW a \in Seq(S), NEW c \in Seq(S), NEW k \in Nat,
           NotBehind(s, a \o c), Len(a) <= k
    PROVE  Elems(Drop(s, k)) \cap Elems(a) = {}
<1> DEFINE d == Drop(s, k)
           p == a \o c
<1>1. Len(d) \in Nat /\ \A i \in 1..Len(d) : d[i] = s[k + i] /\ k + i \in 1..Len(s)
  BY DropFacts
<1>2. Len(p) = Len(a) + Len(c) /\ \A j \in 1..Len(a) : p[j] = a[j]
  BY ConcatFacts
<1>3. Len(a) \in Nat /\ Len(c) \in Nat
  BY LenProperties
<1>4. NotBehind(s, p)
  OBVIOUS
<1> HIDE DEF d, p
<1>5. ASSUME NEW i \in 1..Len(d), NEW j \in 1..Len(a), d[i] = a[j] PROVE FALSE
  <2>1. k + i \in 1..Len(s) /\ j \in 1..Len(p) /\ s[k + i] = p[j]
    BY <1>1, <1>2, <1>3, <1>5
  <2>2. k + i <= j
    BY <1>4, <2>1 DEF NotBehind
  <2>3. QED
    BY <1>1, <1>3, <2>2
<1>6. Elems(d) \cap Elems(a) = {}
  BY <1>5 DEF Elems
<1>7. QED
  BY <1>6 DEF d

LEMMA DistinctParts ==
    ASSUME NEW S, NEW a \in Seq(S), NEW c \in Seq(S), Distinct(a \o c)
    PROVE  Elems(a) \cap Elems(c) = {} /\ Distinct(c)
<1> DEFINE p == a \o c
           k == Len(a)
           d == Drop(p, k)
<1>1. p \in Seq(S) /\ Len(p) = k + Len(c) /\ (\A j \in 1..Len(a) : p[j] = a[j]) /\ d = c
  BY ConcatFacts
<1>2. k \in Nat /\ Len(c) \in Nat /\ Distinct(p)
  BY LenProperties
<1> HIDE DEF p
<1>3. Distinct(d)
  BY <1>1, <1>2, DropDistinct
<1>4. \A i \in 1..Len(d) : d[i] = p[k + i] /\ k + i \in 1..Len(p)
  BY <1>1, <1>2, DropFacts
<1>5. ASSUME NEW i \in 1..Len(d), NEW j \in 1..Len(a), d[i] = a[j] PROVE FALSE
  <2>1. k + i \in 1..Len(p) /\ j \in 1..Len(p) /\ p[k + i] = p[j]
    BY <1>1, <1>2, <1>4, <1>5
  <2>2. k + i = j
    BY <1>2, <2>1 DEF Distinct
  <2>3. i \in Nat /\ i >= 1 /\ j <= k
    BY <1>1, <1>2
  <2>4. QED
    BY <1>2, <2>2, <2>3
<1>6. Elems(a) \cap Elems(d) = {}
  BY <1>5 DEF Elems
<1>7. QED
  BY <1>1, <1>3, <1>6

LEMMA TakenAreRun ==
    ASSUME NEW S, NEW s \in Seq(S), NEW a \in Seq(S), NEW c \in Seq(S), PrefixOf(a \o c, s)
    PROVE  /\ Elems(s) \subseteq Elems(Drop(s, Len(a))) \cup Elems(a)
           /\ PrefixOf(c, Drop(s, Len(a)))
<1> DEFINE p == a \o c
           k == Len(a)
<1>1. p \in Seq(S) /\ Len(p) = k + Len(c) /\ (\A j \in 1..Len(a) : p[j] = a[j]) /\ Drop(p, k) = c
  BY ConcatFacts
<1>2. k \in Nat /\ Len(c) \in Nat /\ PrefixOf(p, s) /\ Len(s) \in Nat
  BY LenProperties
<1> HIDE DEF p
<1>3. k <= Len(p)
  BY <1>1, <1>2
<1>4. PrefixOf(Drop(p, k), Drop(s, k))
  BY <1>1, <1>2, <1>3, PrefixDrop
<1>5. ASSUME NEW x \in Elems(s) PROVE x \in Elems(Drop(s, k)) \cup Elems(a)
  <2>1. x \in Elems(Drop(s, k)) \/ \E i \in 1..Len(s) : i <= k /\ x = s[i]
    BY <1>2, <1>5, DropLeavesOut
  <2>2. ASSUME NEW i \in 1..Len(s), i <= k, x = s[i] PROVE x \in Elems(a)
    <3>1. i \in 1..Len(a) /\ i \in 1..Len(p)
      BY <1>1, <1>2, <2>2
    <3>2. x = a[i]
      BY <1>1, <1>2, <2>2, <3>1 DEF PrefixOf
    <3>3. QED
      BY <3>1, <3>2 DEF Elems
  <2>3. QED
    BY <2>1, <2>2
<1>6. QED
  BY <1>1, <1>4, <1>5

\* The queue and the batch after a run that returned: what is left of both.
LEMMA AfterRun ==
    ASSUME NEW s \in Seq(Messages), NEW b \in Batches, BatchOK(b, Lossy), QueueOK(s, b)
    PROVE  /\ Taken(b) \in Nat /\ Drop(s, Taken(b)) \in Seq(Messages)
           /\ Len(Drop(s, Taken(b))) <= Len(s)
           /\ Elems(Drop(s, Taken(b))) \subseteq Elems(s)
           /\ Elems(b.msgs) \subseteq Own(s, b) /\ Elems(b.rest) \subseteq Own(s, b)
           /\ Distinct(Drop(s, Taken(b)))
           /\ Elems(Drop(s, Taken(b))) \cap Elems(b.msgs) = {}
           /\ Elems(b.rest) \cap Elems(b.msgs) = {}
           /\ b.rest # << >> => Distinct(b.rest) /\ NotBehind(Drop(s, Taken(b)), b.rest)
<1> DEFINE a == b.msgs
           c == b.rest
           p == a \o c
           k == Taken(b)
           d == Drop(s, k)
<1>1. a \in Seq(Messages) /\ c \in Seq(Messages)
  BY DEF Batches
<1>2. Len(a) \in Nat
  BY <1>1, LenProperties
<1>3. k \in Nat /\ Len(a) <= k /\ (c # << >> => k = Len(a))
  <2>1. k \in Nat
    BY <1>2 DEF Taken
  <2>2. Len(a) <= k
    BY DEF BatchOK
  <2>3. ASSUME c # << >> PROVE k = Len(a)
    <3>1. b.kind = "group"
      BY <2>3 DEF BatchOK
    <3>2. QED
      BY <3>1 DEF Taken
  <2>4. QED
    BY <2>1, <2>2, <2>3
<1>4. p = Pend(b)
  BY DEF Pend
<1> HIDE DEF a, c, k
<1>5. p \in Seq(Messages) /\ Drop(p, Len(a)) = c /\ Elems(p) = Elems(a) \cup Elems(c)
  BY <1>1, ConcatFacts
<1>6. Distinct(s) /\ Distinct(p) /\ NotBehind(s, p)
  BY <1>4 DEF QueueOK
<1>7. Elems(d) \cap Elems(a) = {}
  BY <1>1, <1>3, <1>6, TakenGone
<1>8. Elems(a) \cap Elems(c) = {} /\ Distinct(c)
  BY <1>1, <1>6, DistinctParts
<1> HIDE DEF p
<1>9. Distinct(d) /\ NotBehind(d, Drop(p, k))
  BY <1>3, <1>5, <1>6, DropKeeps
<1>10. d \in Seq(Messages) /\ Len(d) <= Len(s) /\ Elems(d) \subseteq Elems(s)
  BY <1>3, DropFacts, ElemsFacts
<1>11. Elems(a) \subseteq Own(s, b) /\ Elems(c) \subseteq Own(s, b)
  BY <1>4, <1>5 DEF Own
<1>12. c # << >> => NotBehind(d, c)
  BY <1>3, <1>5, <1>9
<1>13. QED
  BY <1>3, <1>7, <1>8, <1>9, <1>10, <1>11, <1>12 DEF a, c, k

\* The batch after a run is the next group, or none.
LEMMA NextBatch ==
    ASSUME NEW s \in Seq(Messages), NEW b \in Batches, BatchOK(b, Lossy), QueueOK(s, b), NEW nb,
           nb = IF b.rest # << >> THEN GroupBatch(b.rest, << >>) ELSE NoBatch
    PROVE  LET d == Drop(s, Taken(b))
           IN  /\ nb \in Batches /\ BatchOK(nb, Lossy) /\ QueueOK(d, nb)
               /\ nb.summary = << >> /\ (nb = NoBatch <=> b.rest = << >>)
               /\ Own(d, nb) \subseteq Own(s, b) /\ Own(d, nb) \cap Elems(b.msgs) = {}
               /\ Pend(nb) = b.rest
<1> DEFINE d == Drop(s, Taken(b))
           c == b.rest
           e == << >>
<1>1. /\ d \in Seq(Messages) /\ Elems(d) \subseteq Own(s, b) /\ Elems(c) \subseteq Own(s, b)
      /\ Distinct(d) /\ Elems(d) \cap Elems(b.msgs) = {} /\ Elems(c) \cap Elems(b.msgs) = {}
      /\ c # << >> => Distinct(c) /\ NotBehind(d, c)
  BY AfterRun DEF Own
<1>2. c \in Seq(Messages)
  BY DEF Batches
<1>3. e \in Seq(Messages)
  BY EmptyFacts
<1>4. CASE c # << >>
  <2>1. nb = GroupBatch(c, e)
    BY <1>4
  <2> HIDE DEF d, c, e
  <2>2. nb \in Batches /\ nb.kind = "group" /\ nb.summary = e /\ Pend(nb) = c /\ BatchOK(nb, Lossy)
    BY <1>2, <1>3, <2>1, GroupFacts
  <2>3. nb # NoBatch
    BY <2>2, NoBatchFacts
  <2>4. QueueOK(d, nb) /\ Own(d, nb) = Elems(d) \cup Elems(c)
    BY <1>1, <1>4, <2>2 DEF QueueOK, Own
  <2>5. QED
    BY <1>1, <1>4, <2>2, <2>3, <2>4 DEF d, c, e
<1>5. CASE c = << >>
  <2>1. nb = NoBatch
    BY <1>5
  <2> HIDE DEF d
  <2>2. QueueOK(d, nb) /\ Own(d, nb) = Elems(d)
    BY <1>1, <2>1, NoBatchQueue
  <2>3. QED
    BY <1>1, <1>5, <2>1, <2>2, NoBatchFacts DEF d
<1>6. QED
  BY <1>4, <1>5

LEMMA FollowupReturnsStep ==
    ASSUME Inv, NEW q \in Queues, FollowupReturns(q)
    PROVE  Inv'
<1> DEFINE s == items[q]
           l == lines[q]
           b == batch[q]
           s2 == Drop(s, Taken(b))
           l2 == IF b.summary # << >> THEN << >> ELSE l
           nb == IF b.rest # << >> THEN GroupBatch(b.rest, << >>) ELSE NoBatch
           D == {}
<1>1. /\ s \in Seq(Messages) /\ l \in Seq(Messages) /\ b \in Batches /\ Len(s) <= Cap /\ Len(l) <= Cap
      /\ BatchOK(b, Lossy) /\ QueueOK(s, b) /\ (policy # "summarize" => l = << >>)
      /\ Own(s, b) \cap ran = {} /\ (drain[q] \notin Busy <=> b = NoBatch)
      /\ lines = [lines EXCEPT ![q] = l]
  BY QueueFacts
<1>2. /\ registry \in Queues \cup {None} /\ drain \in [Queues -> DrainStates]
      /\ force \in [Queues -> BOOLEAN] /\ clears \in 0..MaxClears
      /\ items \in [Queues -> Seq(Messages)] /\ lines \in [Queues -> Seq(Messages)]
  BY StateTypes DEF Inv, QueueType
<1>3. /\ drain[q] = "running" /\ op' = None
      /\ ran' = ran \cup Elems(b.msgs) /\ told' = told \cup Elems(b.summary)
      /\ accepted' = accepted /\ discarded' = discarded
      /\ cleared' = cleared /\ raced' = raced /\ directs' = directs /\ clears' = clears
      /\ failures' = failures /\ lastRun' = lastRun /\ deciding' = deciding
      /\ arrived' = arrived /\ UNCHANGED setting
  BY DEF FollowupReturns, counts
<1>4. items' = [items EXCEPT ![q] = s2]
  BY DEF FollowupReturns, Drop
<1>5. lines' = [lines EXCEPT ![q] = l2]
  <2>1. lines' = IF b.summary # << >> THEN [lines EXCEPT ![q] = << >>] ELSE lines
    BY DEF FollowupReturns
  <2>2. QED
    BY <1>1, <2>1
<1>6. batch' = [batch EXCEPT ![q] = nb]
  BY DEF FollowupReturns
<1>7. items'[q] = s2 /\ lines'[q] = l2
  BY <1>2, <1>4, <1>5
<1>8. Change(q, s2, l2, nb)
  BY <1>4, <1>5, <1>6 DEF Change
<1>9. /\ s2 \in Seq(Messages) /\ Len(s2) <= Len(s) /\ Taken(b) \in Nat
      /\ Elems(b.msgs) \subseteq Own(s, b)
  BY <1>1, AfterRun
<1>10. /\ nb \in Batches /\ BatchOK(nb, Lossy) /\ QueueOK(s2, nb)
       /\ nb.summary = << >> /\ (nb = NoBatch <=> b.rest = << >>)
       /\ Own(s2, nb) \subseteq Own(s, b) /\ Own(s2, nb) \cap Elems(b.msgs) = {}
       /\ Pend(nb) = b.rest
  <2> HIDE DEF s, b
  <2>1. QED
    BY <1>1, NextBatch
<1>11. Len(s2) <= Cap
  BY <1>1, <1>9, QueueAssumption, LenProperties
<1>12. l2 \in Seq(Messages) /\ Len(l2) <= Cap /\ (policy # "summarize" => l2 = << >>)
  <2>1. << >> \in Seq(Messages) /\ Len(<< >>) = 0 /\ 0 <= Cap
    BY EmptyFacts, QueueAssumption
  <2>2. QED
    BY <1>1, <2>1
<1>13. /\ DrainsTyped /\ InStep(q, nb)
       /\ Cardinality(Strays(registry', drain')) <= Cardinality(Strays(registry, drain))
       /\ registry = q /\ (\A p \in Queues : drain[p] # "none" => p = q)
            => /\ \A p \in Queues : drain'[p] # "none" => registry' = p
               /\ registry' = q \/ (s2 = << >> /\ l2 = << >>)
  <2>1. CASE b.rest # << >>
    <3>1. drain' = [drain EXCEPT ![q] = "starting"] /\ registry' = registry /\ force' = force
      BY <2>1 DEF FollowupReturns
    <3>2. nb # NoBatch
      BY <1>10, <2>1
    <3> HIDE DEF nb, s2, l2, b
    <3>3. drain'[q] = "starting" /\ \A p \in Queues : p # q => drain'[p] = drain[p]
      BY <1>2, <3>1
    <3>4. DrainsTyped
      BY <1>2, <3>1 DEF DrainsTyped, DrainStates
    <3>5. InStep(q, nb)
      BY <3>2, <3>3 DEF InStep, Busy
    <3>6. Strays(registry', drain') \subseteq Strays(registry, drain)
      BY <1>3, <3>1, <3>3 DEF Strays
    <3>7. QED
      BY <3>1, <3>3, <3>4, <3>5, <3>6, FewerStrays
  <2>2. CASE b.rest = << >>
    <3> DEFINE is == [items EXCEPT ![q] = SubSeq(@, Taken(b) + 1, Len(@))]
               ls == IF b.summary # << >> THEN [lines EXCEPT ![q] = << >>] ELSE lines
    <3>1. NextRound(q, is, ls)
      BY <2>2 DEF FollowupReturns
    <3>2. is[q] = s2
      BY <1>2 DEF Drop
    <3>3. ls[q] = l2
      BY <1>2
    <3>4. nb = NoBatch
      BY <2>2
    <3> HIDE DEF nb, s2, l2, b, is, ls
    <3>5. RoundOver(q, is[q], ls[q])
      BY <1>2, <1>3, <3>1, NextRoundFacts
    <3>6. RoundOver(q, s2, l2)
      BY <3>2, <3>3, <3>5
    <3>7. InStep(q, nb)
      BY <3>4, <3>6 DEF RoundOver, InStep
    <3>8. QED
      BY <3>6, <3>7 DEF RoundOver
  <2>3. QED
    BY <2>1, <2>2
<1>14. RestTyped
  <2>1. b.msgs \in Seq(Messages) /\ b.summary \in Seq(Messages)
    BY <1>1 DEF Batches
  <2>2. Elems(b.msgs) \subseteq Messages /\ Elems(b.summary) \subseteq Messages
    BY <2>1, ElemsFacts
  <2> HIDE DEF b
  <2>3. QED
    BY <1>3, <2>2, StateTypes DEF RestTyped
<1>15. Cardinality(Strays(registry', drain')) <= clears'
  <2>1. Cardinality(Strays(registry', drain')) \in Nat /\ Cardinality(Strays(registry, drain)) \in Nat
    BY StraysFinite
  <2>2. Cardinality(Strays(registry, drain)) <= clears /\ clears \in Nat
    BY StateTypes, QueueAssumption
  <2>3. QED
    BY <1>3, <1>13, <2>1, <2>2
<1>16. ASSUME ~raced' PROVE PrefixOf(b.msgs \o b.rest, s) /\ (b.summary # << >> => b.summary = l)
  BY <1>3, <1>16, StateTypes DEF Undisturbed, Pend
<1>17. ~raced' /\ ~Lossy => NothingGone(q, s2, l2)
  <2> SUFFICES ASSUME ~raced', ~Lossy PROVE NothingGone(q, s2, l2)
    OBVIOUS
  <2>1. Taken(b) = Len(b.msgs)
    BY <1>1 DEF BatchOK
  <2>2. Elems(s) \subseteq Elems(s2) \cup Elems(b.msgs)
    <3>1. b.msgs \in Seq(Messages) /\ b.rest \in Seq(Messages)
      BY <1>1 DEF Batches
    <3> HIDE DEF b, s
    <3>2. Elems(s) \subseteq Elems(Drop(s, Len(b.msgs))) \cup Elems(b.msgs)
      BY <1>1, <1>16, <3>1, TakenAreRun
    <3>3. QED
      BY <2>1, <3>2
  <2>3. Elems(l) \subseteq Elems(l2) \cup Elems(b.summary)
    BY <1>16
  <2> HIDE DEF s2, l2, b
  <2>4. QED
    BY <1>3, <2>2, <2>3 DEF NothingGone, Answered
<1>18. ASSUME ~raced' PROVE Calm(q, s2, l2, nb)
  <2>1. Undisturbed(registry, drain, items, lines, batch) /\ ~raced
    BY <1>3, <1>18, StateTypes
  <2>2. registry = q /\ \A p \in Queues : drain[p] # "none" => p = q
    BY <1>3, <2>1, OneDrain
  <2>3. PrefixOf(Pend(nb), s2)
    <3>1. b.msgs \in Seq(Messages) /\ b.rest \in Seq(Messages)
      BY <1>1 DEF Batches
    <3>2. CASE b.rest # << >>
      <4>1. Taken(b) = Len(b.msgs)
        BY <1>1, <3>2 DEF BatchOK, Taken
      <4> HIDE DEF b, s, nb
      <4>2. PrefixOf(b.rest, Drop(s, Len(b.msgs)))
        BY <1>1, <1>16, <1>18, <3>1, TakenAreRun
      <4>3. QED
        BY <1>10, <4>1, <4>2
    <3>3. CASE b.rest = << >>
      <4> HIDE DEF b, s, nb, s2
      <4>1. PrefixOf(<< >>, s2)
        BY <1>9, EmptyFacts
      <4>2. QED
        BY <1>10, <3>3, <4>1
    <3>4. QED
      BY <3>2, <3>3
  <2> HIDE DEF s2, l2, b, nb
  <2>4. QED
    BY <1>10, <1>13, <2>1, <2>2, <2>3 DEF Calm
<1>19. Moved(q, s2, nb, D)
  <2>1. /\ D \subseteq deciding /\ deciding' = deciding \ D /\ arrived' = arrived
        /\ ran \subseteq ran' /\ ran' \subseteq ran \cup Own(s, b)
        /\ Own(s2, nb) \subseteq Own(s, b) \cup D
        /\ Own(s2, nb) \subseteq Own(s, b) \cup accepted' /\ accepted \subseteq accepted'
    BY <1>3, <1>9, <1>10
  <2>2. Own(s2, nb) \cap ran' = {}
    BY <1>1, <1>3, <1>10
  <2> HIDE DEF s2, nb, D
  <2>3. QED
    BY <2>1, <2>2 DEF Moved
<1> HIDE DEF s2, l2, nb, D, s, l, b
<1>20. QED
  BY <1>3, <1>8, <1>10, <1>9, <1>11, <1>12, <1>13, <1>14, <1>15, <1>17, <1>18, <1>19, QueueStep

-----------------------------------------------------------------------------
(* Direct runs and messages.                                               *)

\* A step that leaves the queues and their drains alone.
LEMMA QuietStep ==
    ASSUME Inv, UNCHANGED <<setting, queueVars, history, clears>>,
           OnePlace(items, batch, deciding', ran, arrived'),
           deciding' \subseteq Messages, arrived' \in 0..MaxMessages,
           op' \in Queues \cup {None, Direct}, directs' \in 0..MaxDirects,
           failures' \in 0..MaxFailures
    PROVE  Inv'
<1>1. /\ mode' = mode /\ policy' = policy /\ registry' = registry /\ items' = items
      /\ lines' = lines /\ lastRun' = lastRun /\ drain' = drain /\ force' = force /\ batch' = batch
      /\ accepted' = accepted /\ ran' = ran /\ told' = told /\ discarded' = discarded
      /\ cleared' = cleared /\ raced' = raced /\ clears' = clears
  BY DEF setting, queueVars, history
<1>2. QueueType'
  BY <1>1 DEF Inv, QueueType
<1>3. Lossy' <=> Lossy
  BY <1>1 DEF Lossy
<1>4. Batched(items, batch, Lossy)'
  BY <1>1, <1>3 DEF Inv, Batched, BatchOK
<1>5. (policy # "summarize" => \A q \in Queues : lines[q] = << >>)'
  BY <1>1 DEF Inv
<1>6. OnePlace(items, batch, deciding, ran, arrived)'
  BY <1>1
<1>7. (Cardinality(Strays(registry, drain)) <= clears)'
  BY <1>1 DEF Inv
<1>8. (~raced => Undisturbed(registry, drain, items, lines, batch))'
  BY <1>1 DEF Inv
<1>9. NoSilentLoss'
  <2>1. Held' = Held
    BY <1>1 DEF Held, Free
  <2>2. QED
    BY <1>1, <1>3, <2>1 DEF Inv, NoSilentLoss, Answered
<1>10. Known(items, batch, ran, accepted)'
  BY <1>1 DEF Inv
<1>11. QED
  BY <1>2, <1>4, <1>5, <1>6, <1>7, <1>8, <1>9, <1>10 DEF Inv

LEMMA DirectRunStep ==
    ASSUME Inv, DirectRun
    PROVE  Inv'
<1>1. /\ directs < MaxDirects /\ directs' = directs + 1 /\ op' = Direct
      /\ deciding' = deciding /\ arrived' = arrived /\ failures' = failures
      /\ UNCHANGED <<setting, queueVars, history, clears>>
  BY DEF DirectRun
<1>2. directs' \in 0..MaxDirects /\ op' \in Queues \cup {None, Direct} /\ failures' \in 0..MaxFailures
  BY <1>1, StateTypes, QueueAssumption
<1>3. OnePlace(items, batch, deciding', ran, arrived') /\ deciding' \subseteq Messages /\ arrived' \in 0..MaxMessages
  BY <1>1 DEF Inv, QueueType
<1>4. QED
  BY <1>1, <1>2, <1>3, QuietStep

LEMMA ArriveStep ==
    ASSUME Inv, Arrive
    PROVE  Inv'
<1> DEFINE n == arrived + 1
<1>1. /\ arrived < MaxMessages /\ arrived' = n /\ deciding' = deciding \cup {n}
      /\ op' = op /\ directs' = directs /\ failures' = failures
      /\ UNCHANGED <<setting, queueVars, history, clears>>
  BY DEF Arrive, counts
<1>2. directs' \in 0..MaxDirects /\ op' \in Queues \cup {None, Direct} /\ failures' \in 0..MaxFailures
  BY <1>1, StateTypes
<1>3. arrived \in 0..MaxMessages /\ deciding \subseteq Messages /\ OnePlace(items, batch, deciding, ran, arrived)
  BY DEF Inv, QueueType
<1>4. n \in Messages /\ n \in 0..MaxMessages /\ n \notin 1..arrived /\ 1..arrived \subseteq 1..n /\ n \in 1..n
  BY <1>1, <1>3, QueueAssumption DEF Messages
<1> HIDE DEF n
<1>5. OnePlace(items, batch, deciding \cup {n}, ran, n)
  <2> DEFINE de == deciding \cup {n}
             O(q) == Own(items[q], batch[q])
  <2>1. /\ deciding \cup ran \subseteq 1..arrived /\ deciding \cap ran = {}
        /\ \A q \in Queues : O(q) \subseteq 1..arrived /\ O(q) \cap deciding = {} /\ O(q) \cap ran = {}
        /\ \A p, q \in Queues : p # q => O(p) \cap O(q) = {}
    BY <1>3 DEF OnePlace
  <2> HIDE DEF O
  <2>2. de \cup ran \subseteq 1..n /\ de \cap ran = {}
    BY <1>4, <2>1
  <2>3. \A q \in Queues : O(q) \subseteq 1..n /\ O(q) \cap de = {} /\ O(q) \cap ran = {}
    BY <1>4, <2>1
  <2> HIDE DEF de
  <2>4. OnePlace(items, batch, de, ran, n)
    BY <2>1, <2>2, <2>3 DEF OnePlace, O
  <2>5. QED
    BY <2>4 DEF de
<1>6. deciding' \subseteq Messages /\ arrived' \in 0..MaxMessages /\ OnePlace(items, batch, deciding', ran, arrived')
  BY <1>1, <1>3, <1>4, <1>5
<1>7. QED
  BY <1>1, <1>2, <1>6, QuietStep

\* The queue q after scheduleFollowupDrain, or left to the run that is active.
Served(q, s, l) ==
    /\ DrainsTyped
    /\ \A p \in Queues : drain'[p] \in Busy <=> drain[p] \in Busy
    /\ Cardinality(Strays(registry', drain')) <= Cardinality(Strays(registry, drain))
    /\ (\A p \in Queues : drain[p] # "none" => p = q)
         => \A p \in Queues : drain'[p] # "none" => registry' = p
    /\ registry' = q \/ (s = << >> /\ l = << >>)

LEMMA ServedFacts ==
    ASSUME Inv, NEW q \in Queues, registry \in {q, None}, registry = None => drain[q] = "none",
           NEW is, NEW ls,
           \/ scheduleFollowupDrain(q, is, ls, drain)
           \/ registry' = q /\ drain' = drain /\ force' = force
    PROVE  Served(q, is[q], ls[q])
<1>0. /\ None \notin Queues /\ drain \in [Queues -> DrainStates] /\ force \in [Queues -> BOOLEAN]
      /\ q \in Queues \cup {None}
  BY StateTypes, QueueAssumption DEF Queues
<1>1. /\ DrainsTyped
      /\ \/ registry' = q /\ drain' = drain
         \/ drain[q] = "none" /\ registry' = q /\ drain' = [drain EXCEPT ![q] = "debounce"]
         \/ drain[q] = "none" /\ ~Pending(is, ls, q) /\ registry' = None /\ drain' = drain
  <2>1. CASE scheduleFollowupDrain(q, is, ls, drain)
    BY <1>0, <2>1, Schedules
  <2>2. CASE registry' = q /\ drain' = drain /\ force' = force
    BY <1>0, <2>2 DEF DrainsTyped
  <2>3. QED
    BY <2>1, <2>2
<1>2. CASE registry' = q /\ drain' = drain
  <2>1. Strays(registry', drain') \subseteq Strays(registry, drain)
    BY <1>0, <1>2 DEF Strays
  <2>2. QED
    BY <1>1, <1>2, <2>1, FewerStrays DEF Served
<1>3. CASE drain[q] = "none" /\ registry' = q /\ drain' = [drain EXCEPT ![q] = "debounce"]
  <2>1. drain'[q] = "debounce" /\ \A p \in Queues : p # q => drain'[p] = drain[p]
    BY <1>0, <1>3
  <2>2. Strays(registry', drain') \subseteq Strays(registry, drain)
    BY <1>0, <1>3, <2>1 DEF Strays
  <2>3. \A p \in Queues : drain'[p] \in Busy <=> drain[p] \in Busy
    BY <1>3, <2>1 DEF Busy
  <2>4. QED
    BY <1>1, <1>3, <2>1, <2>2, <2>3, FewerStrays DEF Served
<1>4. CASE drain[q] = "none" /\ ~Pending(is, ls, q) /\ registry' = None /\ drain' = drain
  <2>1. Strays(registry', drain') \subseteq Strays(registry, drain)
    BY <1>0, <1>4 DEF Strays
  <2>2. is[q] = << >> /\ ls[q] = << >>
    BY <1>4 DEF Pending
  <2>3. QED
    BY <1>1, <1>4, <2>1, <2>2, FewerStrays DEF Served
<1>5. QED
  BY <1>1, <1>2, <1>3, <1>4

LEMMA DirectRunEndsStep ==
    ASSUME Inv, DirectRunEnds
    PROVE  Inv'
<1>1. /\ op' = None /\ scheduleFollowupDrain(registry, items, lines, drain)
      /\ UNCHANGED <<setting, items, lines, lastRun, batch, deciding, arrived, history, counts>>
  BY DEF DirectRunEnds
<1>2. /\ accepted' = accepted /\ ran' = ran /\ told' = told /\ discarded' = discarded
      /\ cleared' = cleared /\ raced' = raced /\ directs' = directs /\ clears' = clears
      /\ failures' = failures /\ batch' = batch
      /\ lastRun' = lastRun /\ items' = items /\ lines' = lines /\ deciding' = deciding
      /\ arrived' = arrived /\ UNCHANGED setting /\ UNCHANGED history
  BY <1>1 DEF history, counts
<1>3. RestTyped
  BY <1>1, <1>2, StateTypes DEF RestTyped
<1>4. CASE registry = None
  <2>1. registry' = registry /\ drain' = drain /\ force' = force
    BY <1>1, <1>4 DEF scheduleFollowupDrain
  <2>2. UNCHANGED <<setting, queueVars, history, clears>>
    BY <1>2, <2>1 DEF queueVars
  <2>3. OnePlace(items, batch, deciding', ran, arrived') /\ deciding' \subseteq Messages /\ arrived' \in 0..MaxMessages
    BY <1>2 DEF Inv, QueueType
  <2>4. op' \in Queues \cup {None, Direct} /\ directs' \in 0..MaxDirects /\ failures' \in 0..MaxFailures
    BY <1>3 DEF RestTyped
  <2>5. QED
    BY <2>2, <2>3, <2>4, QuietStep
<1>5. CASE registry # None
  <2> DEFINE q == registry
             s == items[q]
             l == lines[q]
             b == batch[q]
             D == {}
  <2>1. q \in Queues
    BY <1>5, StateTypes
  <2>2. /\ s \in Seq(Messages) /\ l \in Seq(Messages) /\ b \in Batches /\ Len(s) <= Cap /\ Len(l) <= Cap
        /\ BatchOK(b, Lossy) /\ QueueOK(s, b) /\ (policy # "summarize" => l = << >>)
        /\ Own(s, b) \cap ran = {} /\ (drain[q] \notin Busy <=> b = NoBatch)
        /\ items = [items EXCEPT ![q] = s] /\ lines = [lines EXCEPT ![q] = l]
        /\ batch = [batch EXCEPT ![q] = b]
    BY <2>1, QueueFacts
  <2>3. Served(q, s, l)
    BY <1>1, <1>5, <2>1, ServedFacts
  <2>4. Change(q, s, l, b)
    BY <1>2, <2>2 DEF Change
  <2>5. Moved(q, s, b, D)
    BY <1>2, <2>2 DEF Moved
  <2>6. NothingGone(q, s, l)
    BY <1>2 DEF NothingGone, Answered
  <2>7. Cardinality(Strays(registry', drain')) <= clears'
    <3>1. Cardinality(Strays(registry', drain')) \in Nat /\ Cardinality(Strays(registry, drain)) \in Nat
      BY StraysFinite
    <3>2. Cardinality(Strays(registry, drain)) <= clears /\ clears \in Nat
      BY StateTypes, QueueAssumption
    <3>3. Cardinality(Strays(registry', drain')) <= Cardinality(Strays(registry, drain))
      BY <2>3 DEF Served
    <3>4. QED
      BY <1>2, <3>1, <3>2, <3>3
  <2>8. ASSUME ~raced' PROVE Calm(q, s, l, b)
    <3>1. Undisturbed(registry, drain, items, lines, batch) /\ ~raced
      BY <1>2, <2>8, StateTypes
    <3>2. \A p \in Queues : drain[p] # "none" => p = q
      BY <3>1 DEF Undisturbed
    <3>3. PrefixOf(Pend(b), s) /\ (b.summary # << >> => b.summary = l)
      BY <2>1, <3>1 DEF Undisturbed
    <3>4. registry = q
      OBVIOUS
    <3> HIDE DEF q, b, s, l
    <3>5. QED
      BY <2>3, <3>1, <3>2, <3>3, <3>4 DEF Calm, Served
  <2> HIDE DEF q, b, s, l, D
  <2>9. DrainsTyped /\ InStep(q, b)
    BY <2>1, <2>2, <2>3 DEF InStep, Served
  <2>10. QED
    BY <1>2, <1>3, <2>1, <2>2, <2>4, <2>5, <2>6, <2>7, <2>8, <2>9, QueueStep
<1>6. QED
  BY <1>4, <1>5

\* getFollowupQueue: there is always a queue to be had, because a clear leaves
\* at most one drain behind.
LEMMA TheQueueFacts ==
    ASSUME Inv
    PROVE  /\ TheQueue \in Queues /\ registry \in {TheQueue, None}
           /\ registry = None => drain[TheQueue] = "none"
<1>0. registry \in Queues \cup {None} /\ None \notin Queues
  BY StateTypes, QueueAssumption DEF Queues
<1>1. CASE registry # None
  BY <1>0, <1>1 DEF TheQueue
<1>2. CASE registry = None
  <2>1. \E q \in Queues : Free(q)
    <3>1. SUFFICES ASSUME \A q \in Queues : ~Free(q) PROVE FALSE
      OBVIOUS
    <3>2. Strays(registry, drain) = Queues
      BY <1>0, <1>2, <3>1 DEF Strays, Free
    <3>3. Cardinality(Queues) = MaxClears + 1
      <4> DEFINE o == 1
                 n == MaxClears + 1
      <4>1. o \in Int /\ n \in Int /\ ~(o > n) /\ n - o + 1 = MaxClears + 1
        BY QueueAssumption
      <4> HIDE DEF o, n
      <4>2. Cardinality(o..n) = MaxClears + 1
        BY <4>1, FS_Interval
      <4>3. QED
        BY <4>2 DEF Queues, o, n
    <3>4. MaxClears + 1 <= clears /\ clears \in 0..MaxClears
      BY <3>2, <3>3, StateTypes
    <3>5. QED
      BY <3>4, QueueAssumption
  <2>2. TheQueue = CHOOSE q \in Queues : Free(q)
    BY <1>2 DEF TheQueue
  <2>3. TheQueue \in Queues /\ Free(TheQueue)
    BY <2>1, <2>2
  <2>4. QED
    BY <1>2, <2>3 DEF Free
<1>3. QED
  BY <1>1, <1>2

\* What a queue holds before a message is queued.
LEMMA ContentsFacts ==
    ASSUME Inv, NEW q, q = TheQueue
    PROVE  LET s == Contents(items)[q]
               l == Contents(lines)[q]
           IN  /\ s \in Seq(Messages) /\ l \in Seq(Messages) /\ Len(s) <= Cap /\ Len(l) <= Cap
               /\ QueueOK(s, batch[q]) /\ (policy # "summarize" => l = << >>)
               /\ Elems(s) \subseteq Elems(items[q])
               /\ ~raced => s = items[q] /\ l = lines[q]
               /\ \A x : /\ [Contents(items) EXCEPT ![q] = x] = [items EXCEPT ![q] = x]
                         /\ [Contents(lines) EXCEPT ![q] = x] = [lines EXCEPT ![q] = x]
<1> DEFINE s == Contents(items)[q]
           l == Contents(lines)[q]
           e == << >>
<1>1. q \in Queues /\ registry \in {q, None} /\ (registry = None => drain[q] = "none") /\ None \notin Queues
  BY TheQueueFacts, QueueAssumption DEF Queues
<1>2. items \in [Queues -> Seq(Messages)] /\ lines \in [Queues -> Seq(Messages)]
  BY DEF Inv, QueueType
<1>3. /\ items[q] \in Seq(Messages) /\ lines[q] \in Seq(Messages) /\ Len(items[q]) <= Cap /\ Len(lines[q]) <= Cap
      /\ QueueOK(items[q], batch[q]) /\ (policy # "summarize" => lines[q] = << >>)
      /\ (drain[q] \notin Busy <=> batch[q] = NoBatch)
  BY <1>1, QueueFacts
<1>4. CASE registry # None
  <2>1. Contents(items) = items /\ Contents(lines) = lines
    BY <1>4 DEF Contents
  <2>2. QED
    BY <1>3, <2>1
<1>5. CASE registry = None
  <2>1. Contents(items) = [items EXCEPT ![q] = e] /\ Contents(lines) = [lines EXCEPT ![q] = e]
    BY <1>5 DEF Contents
  <2>2. e \in Seq(Messages) /\ Len(e) = 0 /\ Elems(e) = {} /\ Distinct(e)
    BY EmptyFacts
  <2>3. batch[q] = NoBatch
    BY <1>1, <1>3, <1>5 DEF Busy
  <2>4. QueueOK(e, batch[q])
    <3> HIDE DEF e
    <3>1. QED
      BY <2>2, <2>3, NoBatchQueue
  <2>5. s = e /\ l = e
    BY <1>1, <1>2, <2>1
  <2>6. \A x : /\ [Contents(items) EXCEPT ![q] = x] = [items EXCEPT ![q] = x]
               /\ [Contents(lines) EXCEPT ![q] = x] = [lines EXCEPT ![q] = x]
    <3> HIDE DEF e
    <3>1. QED
      BY <1>1, <1>2, <2>1
  <2>7. ~raced => items[q] = e /\ lines[q] = e
    BY <1>1, <1>5, StateTypes DEF Undisturbed
  <2>8. Len(e) <= Cap
    BY <2>2, QueueAssumption
  <2>9. /\ s \in Seq(Messages) /\ l \in Seq(Messages) /\ Len(s) <= Cap /\ Len(l) <= Cap
        /\ QueueOK(s, batch[q]) /\ Elems(s) \subseteq Elems(items[q])
        /\ ~raced => s = items[q] /\ l = lines[q]
    <3> HIDE DEF s, l, e
    <3>1. QED
      BY <2>2, <2>4, <2>5, <2>7, <2>8
  <2>10. policy # "summarize" => l = << >>
    BY <2>5
  <2>11. QED
    BY <2>6, <2>9, <2>10
<1>6. QED
  BY <1>4, <1>5

\* A full queue gives up its head for the new message.
LEMMA TailAppend ==
    ASSUME NEW s \in Seq(Messages), s # << >>, NEW p \in Seq(Messages), NEW m \in Messages,
           Distinct(s), NotBehind(s, p), m \notin Elems(s), m \notin Elems(p)
    PROVE  LET a == Append(Tail(s), m)
           IN  /\ a \in Seq(Messages) /\ Len(a) = Len(s) /\ Head(s) \in Messages
               /\ Distinct(a) /\ NotBehind(a, p)
               /\ Elems(a) \subseteq Elems(s) \cup {m} /\ m \in Elems(a)
               /\ Elems(s) \subseteq Elems(a) \cup {Head(s)}
<1> DEFINE k == 1
           d == Drop(s, k)
           a == Append(d, m)
<1>1. Tail(s) = d
  BY TailIsDrop
<1>2. k \in Nat
  OBVIOUS
<1>3. Len(s) \in Nat /\ Len(s) >= 1 /\ Head(s) = s[1] /\ Head(s) \in Messages
  OBVIOUS
<1>4. d \in Seq(Messages) /\ Len(d) = Len(s) - 1 /\ Elems(d) \subseteq Elems(s)
  <2> HIDE DEF k
  <2>1. d \in Seq(Messages) /\ Len(d) = (IF k <= Len(s) THEN Len(s) - k ELSE 0) /\ Elems(d) \subseteq Elems(s)
    BY <1>2, DropFacts, ElemsFacts
  <2> HIDE DEF d
  <2>2. QED
    BY <1>3, <2>1 DEF k
<1>5. Distinct(d) /\ NotBehind(d, p)
  <2> HIDE DEF k
  <2>1. QED
    BY <1>2, DropKeeps
<1>6. ASSUME NEW x \in Elems(s) PROVE x \in Elems(d) \cup {Head(s)}
  <2>1. x \in Elems(d) \/ \E i \in 1..Len(s) : i <= k /\ x = s[i]
    <3> HIDE DEF k
    <3>1. QED
      BY <1>2, DropLeavesOut
  <2>2. QED
    BY <1>3, <2>1
<1> HIDE DEF d
<1>7. a \in Seq(Messages) /\ Len(a) = Len(d) + 1 /\ Elems(a) = Elems(d) \cup {m}
  BY <1>4, AppendProperties, ElemsFacts
<1>8. Distinct(a) /\ NotBehind(a, p)
  BY <1>4, <1>5, AppendKeeps
<1>9. Len(a) = Len(s)
  BY <1>3, <1>4, <1>7
<1> HIDE DEF a
<1>10. QED
  BY <1>1, <1>3, <1>4, <1>6, <1>7, <1>8, <1>9 DEF a

LEMMA LastLinesFacts ==
    ASSUME NEW s \in Seq(Messages), Len(s) <= Cap + 1
    PROVE  /\ LastLines(s) \in Seq(Messages) /\ Len(LastLines(s)) <= Cap
           /\ Len(s) <= Cap => LastLines(s) = s
<1>1. Len(s) \in Nat /\ Cap \in Nat /\ Cap >= 1
  BY LenProperties, QueueAssumption
<1>2. CASE Len(s) > Cap
  <2>1. s # << >>
    BY <1>1, <1>2
  <2>2. Tail(s) \in Seq(Messages) /\ Len(Tail(s)) = Len(s) - 1
    BY <2>1, HeadTailProperties
  <2>3. LastLines(s) = Tail(s)
    BY <1>2 DEF LastLines
  <2>4. Len(LastLines(s)) = Len(s) - 1 /\ LastLines(s) \in Seq(Messages)
    BY <2>2, <2>3
  <2>5. Len(LastLines(s)) <= Cap
    BY <1>1, <2>4
  <2>6. ~(Len(s) <= Cap)
    BY <1>1, <1>2
  <2>7. QED
    BY <2>4, <2>5, <2>6
<1>3. CASE ~(Len(s) > Cap)
  BY <1>1, <1>3 DEF LastLines
<1>4. QED
  BY <1>2, <1>3

\* The queue after a message was queued: s0, l0 and batch b become s and l, new
\* is what was accepted and disc what was discarded; hit when the head went.
Enqueued(s0, l0, b, m, s, l, new, disc, hit) ==
    /\ s \in Seq(Messages) /\ l \in Seq(Messages) /\ Len(s) <= Cap /\ Len(l) <= Cap
    /\ policy # "summarize" => l = << >>
    /\ Distinct(s) /\ NotBehind(s, Pend(b)) /\ Elems(s) \subseteq Elems(s0) \cup {m}
    /\ ~hit => l = l0 /\ (PrefixOf(Pend(b), s0) => PrefixOf(Pend(b), s))
    /\ new \subseteq Elems(s) /\ Elems(s) \subseteq Elems(s0) \cup new /\ disc \subseteq Messages
    /\ Elems(s0) \cup Elems(l0) \subseteq Elems(s) \cup Elems(l) \cup disc

\* A message that is in no queue, and what enqueueFollowupRun makes of the queue.
BeforeEnqueue(s0, l0, b, m) ==
    /\ s0 \in Seq(Messages) /\ l0 \in Seq(Messages) /\ Len(s0) <= Cap /\ Len(l0) <= Cap
    /\ policy \in {"old", "new", "summarize"} /\ (policy # "summarize" => l0 = << >>)
    /\ b \in Batches /\ QueueOK(s0, b)
    /\ m \in Messages /\ m \notin Elems(s0) /\ m \notin Elems(Pend(b))

Enqueues(s0, l0, m, s, l, new, disc, hit) ==
    LET full == Overflow(s0)
        kept == IF full THEN Tail(s0) ELSE s0
        note == IF full /\ policy = "summarize" THEN Append(l0, Head(s0)) ELSE l0
    IN  /\ s = IF full /\ policy = "new" THEN s0 ELSE Append(kept, m)
        /\ l = LastLines(note)
        /\ new = IF full /\ policy = "new" THEN {} ELSE {m}
        /\ disc = (IF full /\ policy = "old" THEN {Head(s0)} ELSE {})
                    \cup (Elems(note) \ Elems(LastLines(note)))
        /\ hit <=> (full /\ policy # "new")

LEMMA EnqueuedFacts ==
    ASSUME NEW s0, NEW l0, NEW b, NEW m, BeforeEnqueue(s0, l0, b, m),
           NEW s, NEW l, NEW new, NEW disc, NEW hit, Enqueues(s0, l0, m, s, l, new, disc, hit)
    PROVE  Enqueued(s0, l0, b, m, s, l, new, disc, hit)
<1> DEFINE full == Overflow(s0)
           kept == IF full THEN Tail(s0) ELSE s0
           note == IF full /\ policy = "summarize" THEN Append(l0, Head(s0)) ELSE l0
<1> USE DEF BeforeEnqueue
<1>s. s0 \in Seq(Messages) /\ l0 \in Seq(Messages) /\ b \in Batches /\ m \in Messages
  OBVIOUS
<1>e. /\ s = (IF full /\ policy = "new" THEN s0 ELSE Append(kept, m))
      /\ l = LastLines(note)
      /\ new = (IF full /\ policy = "new" THEN {} ELSE {m})
      /\ disc = (IF full /\ policy = "old" THEN {Head(s0)} ELSE {})
                  \cup (Elems(note) \ Elems(LastLines(note)))
      /\ hit <=> (full /\ policy # "new")
  BY DEF Enqueues
<1> DEFINE p == Pend(b)
           cut == Elems(note) \ Elems(l)
<1>1. p \in Seq(Messages)
  BY ConcatFacts DEF Pend, Batches
<1>2. Distinct(s0) /\ NotBehind(s0, p)
  BY DEF QueueOK
<1>3. Cap \in Nat /\ Cap >= 1 /\ Len(s0) \in Nat /\ Len(l0) \in Nat
  BY QueueAssumption, LenProperties
<1>4. full <=> Len(s0) >= Cap
  BY DEF Overflow
<1>5. full => s0 # << >>
  BY <1>3, <1>4
<1>6. full => Head(s0) \in Messages
  BY <1>5, HeadTailProperties
<1>u. policy \in {"old", "new", "summarize"} /\ (policy # "summarize" => l0 = << >>)
  OBVIOUS
<1>7. note \in Seq(Messages) /\ Len(note) <= Cap + 1 /\ Elems(l0) \subseteq Elems(note)
  <2>1. CASE full /\ policy = "summarize"
    <3> DEFINE h == Head(s0)
    <3>1. h \in Messages
      BY <1>6, <2>1
    <3>2. note = Append(l0, h)
      BY <2>1
    <3> HIDE DEF h
    <3>3. Append(l0, h) \in Seq(Messages) /\ Len(Append(l0, h)) = Len(l0) + 1
      BY <3>1, AppendProperties
    <3>4. Elems(Append(l0, h)) = Elems(l0) \cup {h}
      BY <3>1, ElemsFacts
    <3>5. QED
      BY <1>3, <3>2, <3>3, <3>4
  <2>2. CASE ~(full /\ policy = "summarize")
    BY <1>3, <2>2
  <2>3. QED
    BY <2>1, <2>2
<1>8. l \in Seq(Messages) /\ Len(l) <= Cap /\ (Len(note) <= Cap => l = note)
  BY <1>7, <1>e, LastLinesFacts
<1>9. ~(full /\ policy = "summarize") => note = l0 /\ l = l0
  BY <1>8
<1>10. Elems(note) \subseteq Elems(l) \cup cut /\ cut \subseteq Messages
  BY <1>7, ElemsFacts
<1>11. PrefixOf(p, s0) => PrefixOf(p, Append(s0, m))
  BY <1>1, PrefixAppend
<1>k. /\ m \notin Elems(s0) /\ m \notin Elems(p)
      /\ disc = (IF full /\ policy = "old" THEN {Head(s0)} ELSE {}) \cup cut
      /\ Len(s0) <= Cap
  BY <1>e
<1> HIDE DEF p, cut, full, kept, note, BeforeEnqueue
<1>12. CASE full /\ policy = "new"
  <2>1. s = s0 /\ new = {} /\ disc = cut /\ ~hit
    BY <1>12, <1>e, <1>k
  <2>2. l = l0 /\ (policy # "summarize" => l = << >>)
    BY <1>9, <1>12, <1>u
  <2>3. Elems(s0) \cup Elems(l0) \subseteq Elems(s0) \cup Elems(l) \cup cut /\ {} \subseteq Elems(s0)
    BY <2>2
  <2>4. QED
    BY <1>2, <1>8, <1>10, <1>k, <1>s, <2>1, <2>2, <2>3 DEF Enqueued, p
<1>13. CASE full /\ policy # "new"
  <2> DEFINE a == Append(Tail(s0), m)
             h == Head(s0)
  <2>1. /\ a \in Seq(Messages) /\ Len(a) = Len(s0) /\ h \in Messages
        /\ Distinct(a) /\ NotBehind(a, p)
        /\ Elems(a) \subseteq Elems(s0) \cup {m} /\ m \in Elems(a)
        /\ Elems(s0) \subseteq Elems(a) \cup {h}
    BY <1>1, <1>2, <1>5, <1>13, <1>k, <1>s, TailAppend
  <2>2. s = a /\ new = {m} /\ hit
    BY <1>13, <1>e DEF kept
  <2>3. policy = "summarize" => h \in Elems(note)
    <3>1. ASSUME policy = "summarize" PROVE h \in Elems(note)
      <4>1. note = Append(l0, h)
        BY <1>13, <3>1 DEF note
      <4> HIDE DEF h
      <4>2. Elems(Append(l0, h)) = Elems(l0) \cup {h}
        BY <1>s, <2>1, ElemsFacts
      <4>3. QED
        BY <4>1, <4>2
    <3>2. QED
      BY <3>1
  <2>4. disc = IF policy = "old" THEN {h} \cup cut ELSE cut
    BY <1>13, <1>k
  <2> HIDE DEF a, h
  <2>5. disc \subseteq Messages /\ Elems(s0) \cup Elems(l0) \subseteq Elems(a) \cup Elems(l) \cup disc
    <3>1. CASE policy = "old"
      BY <1>7, <1>10, <2>1, <2>4, <3>1
    <3>2. CASE policy = "summarize"
      BY <1>7, <1>10, <2>1, <2>3, <2>4, <3>2
    <3>3. QED
      BY <1>13, <1>u, <3>1, <3>2
  <2>6. policy # "summarize" => l = << >>
    BY <1>9, <1>u
  <2>7. {m} \subseteq Elems(a) /\ Len(a) <= Cap
    BY <2>1, <1>k
  <2>8. QED
    BY <1>8, <2>1, <2>2, <2>5, <2>6, <2>7 DEF Enqueued, p
<1>14. CASE ~full
  <2> DEFINE a == Append(s0, m)
  <2>1. a \in Seq(Messages) /\ Len(a) = Len(s0) + 1 /\ Elems(a) = Elems(s0) \cup {m}
    BY <1>s, AppendProperties, ElemsFacts
  <2>2. Distinct(a) /\ NotBehind(a, p)
    BY <1>1, <1>2, <1>k, <1>s, AppendKeeps
  <2>3. Len(a) <= Cap
    BY <1>3, <1>4, <1>14, <2>1
  <2>4. PrefixOf(p, s0) => PrefixOf(p, a)
    BY <1>11
  <2>5. s = a /\ new = {m} /\ disc = cut /\ ~hit
    BY <1>14, <1>e, <1>k DEF kept
  <2> HIDE DEF a
  <2>6. l = l0 /\ (policy # "summarize" => l = << >>)
    BY <1>9, <1>14, <1>u
  <2>7. {m} \subseteq Elems(a) /\ Elems(s0) \cup Elems(l0) \subseteq Elems(a) \cup Elems(l) \cup cut
    BY <2>1, <2>6
  <2>8. QED
    BY <1>8, <1>10, <2>1, <2>2, <2>3, <2>4, <2>5, <2>6, <2>7 DEF Enqueued, p
<1>15. QED
  BY <1>12, <1>13, <1>14

\* AfterEnqueue: the queue is served, or left to the run that is active.
LEMMA AfterEnqueueFacts ==
    ASSUME Inv, NEW q, q = TheQueue, NEW is, NEW ls, AfterEnqueue(q, is, ls)
    PROVE  Served(q, is[q], ls[q])
<1>1. q \in Queues /\ registry \in {q, None} /\ (registry = None => drain[q] = "none")
  BY TheQueueFacts
<1>2. \/ scheduleFollowupDrain(q, is, ls, drain)
      \/ registry' = q /\ drain' = drain /\ force' = force
  BY DEF AfterEnqueue
<1>3. QED
  BY <1>1, <1>2, ServedFacts

\* A step that gives the queue got from getFollowupQueue the messages s and the
\* lines l and leaves its batch alone.
LEMMA ServedStep ==
    ASSUME Inv, NEW q, q = TheQueue, NEW s \in Seq(Messages), NEW l \in Seq(Messages),
           Len(s) <= Cap, Len(l) <= Cap, Served(q, s, l), RestTyped, UNCHANGED setting,
           items' = [items EXCEPT ![q] = s], lines' = [lines EXCEPT ![q] = l],
           batch' = batch, clears' = clears, ran' = ran,
           QueueOK(s, batch[q]), policy # "summarize" => l = << >>,
           NEW D, Moved(q, s, batch[q], D),
           ~raced' => /\ ~raced /\ PrefixOf(Pend(batch[q]), s)
                      /\ batch[q].summary # << >> => batch[q].summary = l,
           ~raced' /\ ~Lossy => NothingGone(q, s, l)
    PROVE  Inv'
<1> DEFINE b == batch[q]
<1>1. q \in Queues /\ registry \in {q, None} /\ (registry = None => drain[q] = "none")
  BY TheQueueFacts
<1>2. /\ b \in Batches /\ BatchOK(b, Lossy) /\ (drain[q] \notin Busy <=> b = NoBatch)
      /\ batch = [batch EXCEPT ![q] = b]
  BY <1>1, QueueFacts
<1>3. Change(q, s, l, b)
  BY <1>2 DEF Change
<1>4. Cardinality(Strays(registry', drain')) <= clears'
  <2>1. Cardinality(Strays(registry', drain')) \in Nat /\ Cardinality(Strays(registry, drain)) \in Nat
    BY StraysFinite
  <2>2. Cardinality(Strays(registry, drain)) <= clears /\ clears \in Nat
    BY StateTypes, QueueAssumption
  <2>3. Cardinality(Strays(registry', drain')) <= Cardinality(Strays(registry, drain))
    BY DEF Served
  <2>4. QED
    BY <2>1, <2>2, <2>3
<1>5. ASSUME ~raced' PROVE Calm(q, s, l, b)
  <2>1. ~raced /\ PrefixOf(Pend(b), s) /\ (b.summary # << >> => b.summary = l)
    BY <1>5
  <2>2. Undisturbed(registry, drain, items, lines, batch)
    BY <2>1, StateTypes
  <2>3. \A p \in Queues : drain[p] # "none" => p = q
    BY <1>1, <2>2, QueueAssumption DEF Undisturbed, Queues
  <2> HIDE DEF b
  <2>4. QED
    BY <1>1, <2>1, <2>3 DEF Calm, Served
<1>6. DrainsTyped /\ InStep(q, b)
  <2> HIDE DEF b
  <2>1. QED
    BY <1>1, <1>2 DEF InStep, Served
<1>7. QueueOK(s, b) /\ Moved(q, s, b, D)
  OBVIOUS
<1> HIDE DEF b
<1>8. QED
  BY <1>1, <1>2, <1>3, <1>4, <1>5, <1>6, <1>7, QueueStep

LEMMA EnqueueStep ==
    ASSUME Inv, NEW m \in Messages, enqueueFollowupRun(m)
    PROVE  Inv'
<1> DEFINE q == TheQueue
           b == batch[q]
           s0 == Contents(items)[q]
           l0 == Contents(lines)[q]
           full == Overflow(s0)
           kept == IF full THEN Tail(s0) ELSE s0
           note == IF full /\ policy = "summarize" THEN Append(l0, Head(s0)) ELSE l0
           s == IF full /\ policy = "new" THEN s0 ELSE Append(kept, m)
           l == LastLines(note)
           new == IF full /\ policy = "new" THEN {} ELSE {m}
           disc == (IF full /\ policy = "old" THEN {Head(s0)} ELSE {}) \cup (Elems(note) \ Elems(l))
           hit == full /\ policy # "new"
           D == {m}
           is == [Contents(items) EXCEPT ![q] = s]
           ls == [Contents(lines) EXCEPT ![q] = l]
<1>1. /\ m \in deciding /\ deciding' = deciding \ D
      /\ lastRun' = [lastRun EXCEPT ![q] = TRUE]
      /\ UNCHANGED <<setting, batch, op, arrived, ran, told, cleared, counts>>
      /\ (raced' <=> (raced \/ (hit /\ drain[q] \in Busy)))
  BY DEF enqueueFollowupRun, Busy
<1>2. /\ q \in Queues /\ registry \in {q, None}
  BY TheQueueFacts
<1>3. /\ s0 \in Seq(Messages) /\ l0 \in Seq(Messages) /\ Len(s0) <= Cap /\ Len(l0) <= Cap
      /\ QueueOK(s0, b) /\ (policy # "summarize" => l0 = << >>)
      /\ Elems(s0) \subseteq Elems(items[q])
      /\ ~raced => s0 = items[q] /\ l0 = lines[q]
      /\ \A x : /\ [Contents(items) EXCEPT ![q] = x] = [items EXCEPT ![q] = x]
                /\ [Contents(lines) EXCEPT ![q] = x] = [lines EXCEPT ![q] = x]
  BY ContentsFacts
<1>4. items' = is /\ lines' = ls /\ AfterEnqueue(q, is, ls)
  BY DEF enqueueFollowupRun
<1>5. accepted' = accepted \cup new /\ discarded' = discarded \cup disc
  BY DEF enqueueFollowupRun
<1>6. raced' \in BOOLEAN
  BY DEF enqueueFollowupRun
<1>7. /\ b \in Batches /\ (drain[q] \notin Busy <=> b = NoBatch)
      /\ Own(items[q], b) \cap ran = {} /\ Own(items[q], b) \cap deciding = {}
  BY <1>2, QueueFacts
<1>8. m \notin Elems(items[q]) /\ m \notin Elems(s0) /\ m \notin Elems(Pend(b)) /\ m \notin ran
  <2>1. deciding \cap ran = {}
    BY DEF Inv, OnePlace
  <2> HIDE DEF q, b, s0
  <2>2. QED
    BY <1>1, <1>3, <1>7, <2>1 DEF Own
<1>9. policy \in {"old", "new", "summarize"}
  BY DEF Inv, QueueType
<1>10. Enqueued(s0, l0, b, m, s, l, new, disc, hit)
  <2> HIDE DEF q, b, s0, l0
  <2>1. Enqueues(s0, l0, m, s, l, new, disc, hit)
    BY DEF Enqueues
  <2>2. BeforeEnqueue(s0, l0, b, m)
    BY <1>3, <1>7, <1>8, <1>9 DEF BeforeEnqueue
  <2> HIDE DEF s, l, new, disc, hit
  <2>3. QED
    BY <2>1, <2>2, EnqueuedFacts
<1>11. is[q] = s /\ ls[q] = l /\ items' = [items EXCEPT ![q] = s] /\ lines' = [lines EXCEPT ![q] = l]
  <2>1. is = [items EXCEPT ![q] = s] /\ ls = [lines EXCEPT ![q] = l]
    <3> HIDE DEF s, l, q
    <3>1. QED
      BY <1>3
  <2>2. items \in [Queues -> Seq(Messages)] /\ lines \in [Queues -> Seq(Messages)]
    BY DEF Inv, QueueType
  <2> HIDE DEF is, ls, s, l, q
  <2>3. QED
    BY <1>2, <1>4, <2>1, <2>2
<1> HIDE DEF is, ls, s, l, new, disc, hit, full, kept, note, D
<1>12. Served(q, s, l)
  <2>1. Served(q, is[q], ls[q])
    <3> DEFINE r == q
    <3>1. r = TheQueue /\ AfterEnqueue(r, is, ls)
      BY <1>4
    <3> HIDE DEF r
    <3>2. Served(r, is[r], ls[r])
      BY <3>1, AfterEnqueueFacts
    <3>3. QED
      BY <3>2 DEF r
  <2>2. QED
    BY <1>11, <2>1
<1>13. q = TheQueue
  OBVIOUS
<1> HIDE DEF q, b, s0, l0
<1>14. /\ s \in Seq(Messages) /\ l \in Seq(Messages) /\ Len(s) <= Cap /\ Len(l) <= Cap
       /\ policy # "summarize" => l = << >>
       /\ Distinct(s) /\ NotBehind(s, Pend(b)) /\ Elems(s) \subseteq Elems(s0) \cup {m}
       /\ ~hit => l = l0 /\ (PrefixOf(Pend(b), s0) => PrefixOf(Pend(b), s))
       /\ new \subseteq Elems(s) /\ Elems(s) \subseteq Elems(s0) \cup new /\ disc \subseteq Messages
       /\ Elems(s0) \cup Elems(l0) \subseteq Elems(s) \cup Elems(l) \cup disc
  BY <1>10 DEF Enqueued
<1>15. batch[q] = b
  BY DEF b
<1>16. QueueOK(s, b)
  BY <1>3, <1>14 DEF QueueOK
<1>17. /\ batch' = batch /\ op' = op /\ arrived' = arrived /\ ran' = ran /\ told' = told
       /\ cleared' = cleared /\ directs' = directs /\ failures' = failures /\ clears' = clears
       /\ UNCHANGED setting
  BY <1>1 DEF counts
<1>18. RestTyped
  <2>1. lastRun' \in [Queues -> BOOLEAN]
    BY <1>1, StateTypes
  <2>2. Elems(s) \subseteq Messages
    BY <1>14, ElemsFacts
  <2>3. accepted' \cup ran' \cup told' \cup discarded' \cup cleared' \subseteq Messages
    BY <1>5, <1>14, <1>17, <2>2, StateTypes
  <2>4. QED
    BY <1>6, <1>17, <2>1, <2>3, StateTypes DEF RestTyped
<1>19. Moved(q, s, b, D)
  <2>1. /\ D \subseteq deciding /\ deciding' = deciding \ D
        /\ Own(s, b) \subseteq Own(items[q], b) \cup D
    BY <1>1, <1>3, <1>14 DEF Own, D
  <2>2. Own(s, b) \cap ran = {}
    BY <1>7, <1>8, <2>1 DEF D
  <2>3. Own(s, b) \subseteq Own(items[q], b) \cup accepted' /\ accepted \subseteq accepted'
    BY <1>3, <1>5, <1>14 DEF Own
  <2>4. QED
    BY <1>15, <1>17, <2>1, <2>2, <2>3 DEF Moved
<1>20. ASSUME ~raced' PROVE /\ ~raced /\ PrefixOf(Pend(b), s)
                            /\ b.summary # << >> => b.summary = l
  <2>1. ~raced /\ (hit => drain[q] \notin Busy)
    BY <1>1, <1>20
  <2>2. Undisturbed(registry, drain, items, lines, batch) /\ s0 = items[q] /\ l0 = lines[q]
    BY <1>3, <2>1, StateTypes
  <2>3. PrefixOf(Pend(b), s0) /\ (b.summary # << >> => b.summary = l0)
    BY <1>2, <1>15, <2>2 DEF Undisturbed
  <2>4. CASE hit
    <3>1. b = NoBatch
      BY <1>7, <2>1, <2>4
    <3>2. PrefixOf(<< >>, s)
      BY <1>14, EmptyFacts
    <3>3. QED
      BY <2>1, <3>1, <3>2, NoBatchFacts
  <2>5. CASE ~hit
    BY <1>14, <2>1, <2>3, <2>5
  <2>6. QED
    BY <2>4, <2>5
<1>21. ASSUME ~raced' PROVE NothingGone(q, s, l)
  <2>1. s0 = items[q] /\ l0 = lines[q]
    BY <1>3, <1>20, <1>21
  <2>2. Answered' = Answered \cup disc
    BY <1>5, <1>17 DEF Answered
  <2>3. QED
    BY <1>5, <1>14, <2>1, <2>2 DEF NothingGone
<1>22. QED
  BY <1>11, <1>12, <1>13, <1>14, <1>15, <1>16, <1>17, <1>18, <1>19, <1>20, <1>21, ServedStep

LEMMA SkipsDuplicateStep ==
    ASSUME Inv, NEW m \in Messages, SkipsDuplicate(m)
    PROVE  Inv'
<1> DEFINE q == TheQueue
           b == batch[q]
           s == Contents(items)[q]
           l == Contents(lines)[q]
           D == {m}
<1>1. /\ items' = Contents(items) /\ lines' = Contents(lines)
      /\ lastRun' = [lastRun EXCEPT ![q] = @ /\ registry # None]
      /\ m \in deciding /\ deciding' = deciding \ D
      /\ AfterEnqueue(q, Contents(items), Contents(lines))
      /\ UNCHANGED <<setting, batch, op, arrived, history, counts>>
  BY DEF SkipsDuplicate
<1>2. /\ s \in Seq(Messages) /\ l \in Seq(Messages) /\ Len(s) <= Cap /\ Len(l) <= Cap
      /\ QueueOK(s, b) /\ (policy # "summarize" => l = << >>)
      /\ Elems(s) \subseteq Elems(items[q])
      /\ ~raced => s = items[q] /\ l = lines[q]
      /\ \A x : /\ [Contents(items) EXCEPT ![q] = x] = [items EXCEPT ![q] = x]
                /\ [Contents(lines) EXCEPT ![q] = x] = [lines EXCEPT ![q] = x]
  BY ContentsFacts
<1>3. q \in Queues
  BY TheQueueFacts
<1>4. items' = [items EXCEPT ![q] = s] /\ lines' = [lines EXCEPT ![q] = l]
  <2>1. items \in [Queues -> Seq(Messages)] /\ lines \in [Queues -> Seq(Messages)]
    BY DEF Inv, QueueType
  <2>2. /\ Contents(items) \in [Queues -> Seq(Messages)]
        /\ Contents(lines) \in [Queues -> Seq(Messages)]
    BY <1>3, <2>1, EmptyFacts DEF Contents
  <2> DEFINE ci == Contents(items)
             cl == Contents(lines)
  <2> HIDE DEF ci, cl, q
  <2>3. ci = [ci EXCEPT ![q] = ci[q]] /\ cl = [cl EXCEPT ![q] = cl[q]]
    BY <1>3, <2>2 DEF ci, cl
  <2>4. QED
    BY <1>1, <1>2, <2>3 DEF ci, cl
<1>5. Served(q, s, l)
  <2> DEFINE r == q
             ci == Contents(items)
             cl == Contents(lines)
  <2>1. r = TheQueue /\ AfterEnqueue(r, ci, cl)
    BY <1>1
  <2> HIDE DEF r, ci, cl
  <2>2. Served(r, ci[r], cl[r])
    BY <2>1, AfterEnqueueFacts
  <2>3. QED
    BY <2>2 DEF r, ci, cl
<1>6. /\ Own(items[q], b) \cap ran = {}
  BY <1>3, QueueFacts
<1>7. ASSUME ~raced PROVE /\ PrefixOf(Pend(b), items[q])
                          /\ b.summary # << >> => b.summary = lines[q]
  BY <1>3, <1>7, StateTypes DEF Undisturbed
<1>8. /\ accepted' = accepted /\ ran' = ran /\ told' = told /\ discarded' = discarded
      /\ cleared' = cleared /\ raced' = raced /\ directs' = directs /\ clears' = clears
      /\ failures' = failures /\ batch' = batch /\ op' = op
      /\ arrived' = arrived /\ UNCHANGED setting
  BY <1>1 DEF history, counts
<1>9. RestTyped
  <2>1. lastRun' \in [Queues -> BOOLEAN]
    BY <1>1, StateTypes
  <2>2. QED
    BY <1>8, <2>1, StateTypes DEF RestTyped
<1>10. q = TheQueue /\ batch[q] = b
  OBVIOUS
<1> HIDE DEF q, b, s, l, D
<1>11. Moved(q, s, b, D)
  <2>1. Own(s, b) \subseteq Own(items[q], b)
    BY <1>2 DEF Own
  <2>2. QED
    BY <1>1, <1>6, <1>8, <1>10, <2>1 DEF Moved, D
<1>12. ~raced' => NothingGone(q, s, l)
  BY <1>2, <1>8 DEF NothingGone, Answered
<1>13. ~raced' => /\ ~raced /\ PrefixOf(Pend(b), s)
                  /\ b.summary # << >> => b.summary = l
  BY <1>2, <1>7, <1>8
<1>14. QED
  BY <1>2, <1>4, <1>5, <1>8, <1>9, <1>10, <1>11, <1>12, <1>13, ServedStep

LEMMA ClearStep ==
    ASSUME Inv, clearFollowupQueue
    PROVE  Inv'
<1> DEFINE q == registry
           b == batch[q]
           e == << >>
           D == {}
<1>1. /\ clears < MaxClears /\ q # None /\ clears' = clears + 1
      /\ cleared' = cleared \cup Elems(items[q]) \cup Elems(lines[q])
      /\ items' = [items EXCEPT ![q] = e] /\ lines' = [lines EXCEPT ![q] = e]
      /\ lastRun' = [lastRun EXCEPT ![q] = FALSE]
      /\ (raced' <=> (raced \/ drain[q] # "none")) /\ raced' \in BOOLEAN
      /\ registry' = None /\ UNCHANGED setting
      /\ drain' = drain /\ force' = force /\ batch' = batch /\ op' = op /\ deciding' = deciding
      /\ arrived' = arrived /\ accepted' = accepted /\ ran' = ran /\ told' = told
      /\ discarded' = discarded /\ directs' = directs /\ failures' = failures
  BY DEF clearFollowupQueue
<1>2. q \in Queues
  BY <1>1, StateTypes
<1>3. /\ items[q] \in Seq(Messages) /\ lines[q] \in Seq(Messages) /\ b \in Batches
      /\ BatchOK(b, Lossy) /\ QueueOK(items[q], b) /\ (drain[q] \notin Busy <=> b = NoBatch)
      /\ Own(items[q], b) \cap ran = {} /\ batch = [batch EXCEPT ![q] = b]
  BY <1>2, QueueFacts
<1>4. /\ e \in Seq(Messages) /\ Len(e) = 0 /\ Elems(e) = {} /\ Distinct(e)
      /\ NotBehind(e, Pend(b))
  BY EmptyFacts
<1>5. Len(e) <= Cap
  BY <1>4, QueueAssumption
<1>6. e = << >> /\ q = registry
  OBVIOUS
<1> HIDE DEF e, D, b
<1>7. Change(q, e, e, b)
  BY <1>1, <1>3 DEF Change
<1>8. DrainsTyped /\ InStep(q, b)
  BY <1>1, <1>2, <1>3, StateTypes DEF DrainsTyped, InStep
<1>9. RestTyped
  <2>1. Elems(items[q]) \subseteq Messages /\ Elems(lines[q]) \subseteq Messages
    BY <1>3, ElemsFacts
  <2>2. lastRun' \in [Queues -> BOOLEAN]
    BY <1>1, StateTypes
  <2>3. clears' \in 0..MaxClears
    BY <1>1, StateTypes, QueueAssumption
  <2>4. accepted' \cup ran' \cup told' \cup discarded' \cup cleared' \subseteq Messages
    BY <1>1, <2>1, StateTypes
  <2> HIDE DEF q
  <2>5. QED
    BY <1>1, <2>2, <2>3, <2>4, StateTypes DEF RestTyped
<1>10. QueueOK(e, b)
  BY <1>3, <1>4 DEF QueueOK
<1>11. Moved(q, e, b, D)
  <2>1. Own(e, b) \subseteq Own(items[q], b)
    BY <1>4 DEF Own
  <2>2. Own(items[q], batch[q]) = Own(items[q], b)
    BY DEF b
  <2>3. QED
    BY <1>1, <1>3, <2>1, <2>2 DEF Moved, D
<1>12. Cardinality(Strays(registry', drain')) <= clears'
  <2>1. Strays(None, drain) \subseteq Strays(q, drain) \cup {q}
    BY DEF Strays
  <2>2. Cardinality(Strays(None, drain)) <= Cardinality(Strays(q, drain)) + 1
    BY <2>1, OneMoreStray
  <2>3. Cardinality(Strays(None, drain)) \in Nat /\ Cardinality(Strays(q, drain)) \in Nat
    BY StraysFinite
  <2>4. Cardinality(Strays(q, drain)) <= clears /\ clears \in Nat
    BY StateTypes, QueueAssumption
  <2>5. QED
    BY <1>1, <2>2, <2>3, <2>4
<1>13. ASSUME ~raced' PROVE Calm(q, e, e, b)
  <2>1. ~raced /\ drain[q] = "none"
    BY <1>1, <1>13
  <2>2. b = NoBatch
    BY <1>3, <2>1 DEF Busy
  <2>3. \A p \in Queues : drain'[p] # "none" => registry' = p
    BY <1>1, <2>1, StateTypes DEF Undisturbed
  <2>4. PrefixOf(<< >>, e)
    BY <1>4, EmptyFacts
  <2>5. QED
    BY <1>6, <2>1, <2>2, <2>3, <2>4, NoBatchFacts DEF Calm
<1>14. NothingGone(q, e, e)
  BY <1>1, <1>4 DEF NothingGone, Answered
<1>15. policy # "summarize" => e = << >>
  BY <1>6
<1> HIDE DEF q
<1>16. QED
  BY <1>1, <1>2, <1>3, <1>4, <1>5, <1>7, <1>8, <1>9, <1>10, <1>11, <1>12, <1>13, <1>14, <1>15, QueueStep

-----------------------------------------------------------------------------
(* The theorems.                                                           *)

LEMMA InitInv == Init => Inv
<1> SUFFICES ASSUME Init PROVE Inv
  OBVIOUS
<1> DEFINE e == << >>
<1>1. e \in Seq(Messages) /\ Len(e) = 0 /\ Elems(e) = {} /\ Distinct(e)
  BY EmptyFacts
<1>2. /\ NoBatch \in Batches /\ BatchOK(NoBatch, Lossy) /\ NoBatch.summary = << >>
      /\ Pend(NoBatch) = << >>
  BY NoBatchFacts
<1>3. QueueOK(e, NoBatch) /\ Own(e, NoBatch) = {} /\ PrefixOf(Pend(NoBatch), e)
  <2> HIDE DEF e
  <2>1. QED
    BY <1>1, NoBatchQueue
<1>4. /\ mode \in {"followup", "collect"} /\ policy \in {"old", "new", "summarize"}
      /\ registry = None /\ items = [q \in Queues |-> e] /\ lines = [q \in Queues |-> e]
      /\ lastRun = [q \in Queues |-> FALSE] /\ drain = [q \in Queues |-> "none"]
      /\ force = [q \in Queues |-> FALSE] /\ batch = [q \in Queues |-> NoBatch]
      /\ op = None /\ deciding = {} /\ arrived = 0
      /\ accepted = {} /\ ran = {} /\ told = {} /\ discarded = {} /\ cleared = {}
      /\ raced = FALSE /\ directs = 0 /\ failures = 0 /\ clears = 0
  BY DEF Init
<1>5. \A q \in Queues : items[q] = e /\ lines[q] = e /\ batch[q] = NoBatch /\ drain[q] = "none"
  BY <1>4
<1>6. e = << >>
  OBVIOUS
<1> HIDE DEF e
<1>7. QueueType
  <2>1. items \in [Queues -> Seq(Messages)] /\ lines \in [Queues -> Seq(Messages)]
    BY <1>1, <1>4
  <2>2. \A q \in Queues : Len(items[q]) <= Cap /\ Len(lines[q]) <= Cap
    BY <1>1, <1>5, QueueAssumption
  <2>3. \A q \in Queues : (batch[q] # NoBatch) <=> (drain[q] \in {"starting", "running"})
    BY <1>5
  <2>4. /\ lastRun \in [Queues -> BOOLEAN] /\ force \in [Queues -> BOOLEAN]
        /\ drain \in [Queues -> {"none", "debounce", "starting", "running"}]
    BY <1>4
  <2>5. /\ arrived \in 0..MaxMessages /\ directs \in 0..MaxDirects /\ failures \in 0..MaxFailures
        /\ clears \in 0..MaxClears
    BY <1>4, QueueAssumption
  <2>6. QED
    BY <1>4, <2>1, <2>2, <2>3, <2>4, <2>5 DEF QueueType
<1>8. Batched(items, batch, Lossy)
  BY <1>2, <1>3, <1>4, <1>5 DEF Batched
<1>9. OnePlace(items, batch, deciding, ran, arrived)
  BY <1>3, <1>4, <1>5 DEF OnePlace
<1>10. Cardinality(Strays(registry, drain)) <= clears
  <2>1. Strays(registry, drain) = {}
    BY <1>5 DEF Strays
  <2>2. Cardinality({}) = 0
    BY FS_EmptySet
  <2>3. QED
    BY <1>4, <2>1, <2>2
<1>11. Undisturbed(registry, drain, items, lines, batch)
  BY <1>2, <1>3, <1>5, <1>6 DEF Undisturbed
<1>12. NoSilentLoss
  BY <1>4 DEF NoSilentLoss
<1>13. Known(items, batch, ran, accepted)
  BY <1>3, <1>4, <1>5 DEF Known
<1>14. QED
  BY <1>5, <1>6, <1>7, <1>8, <1>9, <1>10, <1>11, <1>12, <1>13 DEF Inv

\* A step of no queue: an entry of the recent ids goes, or nothing happens.
LEMMA IdleStep ==
    ASSUME Inv, UNCHANGED vars \/ \E m \in Messages : Expire(m)
    PROVE  Inv'
<1>1. /\ UNCHANGED <<setting, queueVars, history, clears>> /\ deciding' = deciding
      /\ arrived' = arrived /\ op' = op /\ directs' = directs /\ failures' = failures
  BY DEF vars, counts, Expire
<1>2. OnePlace(items, batch, deciding', ran, arrived') /\ deciding' \subseteq Messages /\ arrived' \in 0..MaxMessages
  BY <1>1 DEF Inv, QueueType
<1>3. op' \in Queues \cup {None, Direct} /\ directs' \in 0..MaxDirects /\ failures' \in 0..MaxFailures
  BY <1>1, StateTypes
<1>4. QED
  BY <1>1, <1>2, <1>3, QuietStep

LEMMA NextInv == Inv /\ [Next]_vars => Inv'
<1> SUFFICES ASSUME Inv, [Next]_vars PROVE Inv'
  OBVIOUS
<1>1. ASSUME NEW q \in Queues, DrainStep(q) PROVE Inv'
  BY <1>1, DrainRoundStep, FollowupStartsStep, FollowupReturnsStep, FollowupThrowsStep DEF DrainStep
<1>2. CASE DirectRun
  BY <1>2, DirectRunStep
<1>3. CASE DirectRunEnds
  BY <1>3, DirectRunEndsStep
<1>4. CASE Arrive
  BY <1>4, ArriveStep
<1>5. ASSUME NEW m \in Messages, enqueueFollowupRun(m) PROVE Inv'
  BY <1>5, EnqueueStep
<1>6. ASSUME NEW m \in Messages, SkipsDuplicate(m) PROVE Inv'
  BY <1>6, SkipsDuplicateStep
<1>7. CASE clearFollowupQueue
  BY <1>7, ClearStep
<1>8. CASE UNCHANGED vars \/ \E m \in Messages : Expire(m)
  BY <1>8, IdleStep
<1>9. QED
  BY <1>1, <1>2, <1>3, <1>4, <1>5, <1>6, <1>7, <1>8 DEF Next

\* Of two queued deliveries of one message id, the entry of one has gone.
OneOfTheId ==
    /\ channel \in [Messages -> Channels] /\ sender \in [Messages -> Senders]
    /\ id \in [Messages -> Messages] /\ expired \subseteq accepted
    /\ \A m, n \in accepted : m # n /\ id[m] = id[n] => {m, n} \cap expired # {}

LEMMA IdsStep == OneOfTheId /\ [Next]_vars => OneOfTheId'
<1> SUFFICES ASSUME OneOfTheId, [Next]_vars PROVE OneOfTheId'
  OBVIOUS
<1>1. ASSUME UNCHANGED <<setting, accepted, expired>> PROVE OneOfTheId'
  BY <1>1 DEF OneOfTheId, setting
<1>2. ASSUME NEW q \in Queues, DrainStep(q) PROVE OneOfTheId'
  <2>1. UNCHANGED <<setting, accepted, expired>>
    BY <1>2 DEF DrainStep, DrainRound, FollowupStarts, FollowupReturns, FollowupThrows, history
  <2>2. QED
    BY <1>1, <2>1
<1>3. ASSUME NEW m \in Messages, enqueueFollowupRun(m) PROVE OneOfTheId'
  <2>1. /\ ~Duplicate(m) /\ accepted \subseteq accepted' /\ accepted' \subseteq accepted \cup {m}
        /\ UNCHANGED <<setting, expired>>
    BY <1>3 DEF enqueueFollowupRun
  <2>2. \A n \in accepted \ expired : id[n] # id[m]
    BY <2>1 DEF Duplicate
  <2>3. QED
    BY <2>1, <2>2 DEF OneOfTheId, setting
<1>4. ASSUME NEW m \in Messages, Expire(m) PROVE OneOfTheId'
  <2>1. m \in accepted /\ expired' = expired \cup {m} /\ accepted' = accepted /\ UNCHANGED setting
    BY <1>4 DEF Expire, history
  <2>2. QED
    BY <2>1 DEF OneOfTheId, setting
<1>5. CASE \/ DirectRun \/ DirectRunEnds \/ Arrive \/ clearFollowupQueue \/ UNCHANGED vars
         \/ \E m \in Messages : SkipsDuplicate(m)
  <2>1. UNCHANGED <<setting, accepted, expired>>
    BY <1>5 DEF DirectRun, DirectRunEnds, Arrive, clearFollowupQueue, SkipsDuplicate, history, vars
  <2>2. QED
    BY <1>1, <2>1
<1>6. QED
  BY <1>2, <1>3, <1>4, <1>5 DEF Next

\* What RECENT_QUEUE_MESSAGE_IDS is for, of every message that was queued.
THEOREM IdsHold == Spec => []OneOfTheId
<1>1. Init => OneOfTheId
  BY DEF Init, OneOfTheId
<1>2. QED
  BY <1>1, IdsStep, PTL DEF Spec

\* The inductive invariant holds in every reachable state of the queues, the
\* drains and the messages.
THEOREM InvariantHolds == Spec => []Inv
<1>1. Init => Inv
  BY InitInv
<1>2. Inv /\ [Next]_vars => Inv'
  BY NextInv
<1>3. QED
  BY <1>1, <1>2, PTL DEF Spec

\* Type correctness: a queue never has more messages or lines than its cap
\* (applyQueueDropPolicy), and a drain has a batch exactly while it runs one.
THEOREM TypeCorrect == Spec => []TypeOK
<1>1. Inv /\ OneOfTheId => TypeOK
  BY DEF Inv, OneOfTheId, TypeOK
<1>2. QED
  BY <1>1, InvariantHolds, IdsHold, PTL

\* A message that was queued is run, summarised, dropped by the policy or
\* cleared, and until then a queue that is registered or drained has it, unless
\* a drop or a clear hit a drain under way (drainNextQueueItem, the splice of a
\* group, the finally block of scheduleFollowupDrain).
THEOREM NothingLostSilently == Spec => []NoSilentLoss
<1>1. Inv => NoSilentLoss
  BY DEF Inv
<1>2. QED
  BY <1>1, InvariantHolds, PTL

\* A message whose run returned is given to no other run, whatever is dropped,
\* cleared or thrown meanwhile (the splice after the run); and of two deliveries
\* of one message id both are given to runs only if the entry of one of them in
\* RECENT_QUEUE_MESSAGE_IDS is gone, by its age or the size of the cache.
THEOREM NothingRunsTwice == Spec => []NoMessageRunsTwice
<1>1. ASSUME Inv, OneOfTheId PROVE NoMessageRunsTwice
  <2>1. ASSUME NEW q \in Queues PROVE Elems(batch[q].msgs) \subseteq Own(items[q], batch[q])
    <3> DEFINE b == batch[q]
               s == items[q]
    <3>1. s \in Seq(Messages) /\ b \in Batches /\ BatchOK(b, Lossy) /\ QueueOK(s, b)
      BY <1>1, QueueFacts
    <3> HIDE DEF b, s
    <3>2. Elems(b.msgs) \subseteq Own(s, b)
      BY <3>1, AfterRun
    <3>3. QED
      BY <3>2 DEF b, s
  <2>2. ASSUME NEW q \in Queues PROVE Elems(batch[q].msgs) \cap ran = {}
    <3>1. Own(items[q], batch[q]) \cap ran = {}
      BY <1>1, QueueFacts
    <3>2. QED
      BY <2>1, <3>1
  <2>3. Given \subseteq accepted
    <3>1. ran \subseteq accepted /\ \A q \in Queues : Own(items[q], batch[q]) \subseteq accepted
      BY <1>1 DEF Inv, Known
    <3>2. \A q \in Queues : Elems(batch[q].msgs) \subseteq accepted
      BY <2>1, <3>1
    <3>3. QED
      BY <3>1, <3>2 DEF Given
  <2>4. \A m, n \in Given : m # n /\ id[m] = id[n] => {m, n} \cap expired # {}
    BY <1>1, <2>3 DEF OneOfTheId
  <2>5. QED
    BY <2>2, <2>4 DEF NoMessageRunsTwice
<1>2. QED
  BY <1>1, InvariantHolds, IdsHold, PTL

=============================================================================
