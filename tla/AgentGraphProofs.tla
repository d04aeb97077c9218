-------------------------- MODULE AgentGraphProofs ---------------------------
(***************************************************************************)
(* The LangGraph orchestrator makes the steps of the decision loop.        *)
(***************************************************************************)
EXTENDS AgentGraph, FiniteSetTheorems, SequenceTheorems, TLAPS

IsJournal(s) == \E S : s \in Seq(S)

(* The searches of the policy: those before any other step.                *)
Led(s) == {i \in DOMAIN s : \A j \in 1..i : s[j].kind = "search"}

OnlySearches(s) == \A i \in DOMAIN s : s[i].kind = "search"
HasFinish(s) == \E i \in DOMAIN s : s[i].kind # "search"
Numbered(s) == \A i \in DOMAIN s : s[i].seq = i

(* Appending to a journal: the steps before stay where they are.           *)
LEMMA AppendShape ==
  ASSUME NEW s, IsJournal(s), NEW x
  PROVE  /\ Len(s) \in Nat /\ DOMAIN s = 1..Len(s)
         /\ IsJournal(Append(s, x))
         /\ Len(Append(s, x)) = Len(s) + 1
         /\ DOMAIN Append(s, x) = 1..(Len(s) + 1)
         /\ \A i \in 1..Len(s) : Append(s, x)[i] = s[i]
         /\ Append(s, x)[Len(s) + 1] = x
<1>1. PICK S : s \in Seq(S)
  BY DEF IsJournal
<1>2. s \in Seq(S \cup {x}) /\ x \in S \cup {x}
  BY <1>1
<1>3. Append(s, x) \in Seq(S \cup {x})
  BY <1>2
<1>4. QED
  BY <1>2, <1>3 DEF IsJournal

(* A journal of no delta is the journal.                                   *)
LEMMA NothingMore == ASSUME NEW s, IsJournal(s) PROVE s \o <<>> = s
<1>1. PICK S : s \in Seq(S)
  BY DEF IsJournal
<1>2. QED
  BY <1>1

LEMMA JournaledKeeps ==
  ASSUME NEW s, IsJournal(s), Numbered(s), NEW kind, NEW new
  PROVE  /\ IsJournal(Journaled(s, kind, new))
         /\ Numbered(Journaled(s, kind, new))
         /\ Len(Journaled(s, kind, new)) = Len(s) + 1
         /\ kind = "search" /\ OnlySearches(s)
              => OnlySearches(Journaled(s, kind, new))
         /\ kind # "search" \/ HasFinish(s)
              => HasFinish(Journaled(s, kind, new))
<1> DEFINE x == [seq |-> Len(s) + 1, kind |-> kind, new |-> new]
           t == Append(s, x)
<1>1. Journaled(s, kind, new) = t
  BY DEF Journaled
<1>2. /\ Len(s) \in Nat /\ DOMAIN s = 1..Len(s)
      /\ IsJournal(t) /\ Len(t) = Len(s) + 1
      /\ DOMAIN t = 1..(Len(s) + 1)
      /\ \A i \in 1..Len(s) : t[i] = s[i]
      /\ t[Len(s) + 1] = x
  BY AppendShape
<1>3. x.seq = Len(s) + 1 /\ x.kind = kind
  OBVIOUS
<1> HIDE DEF x, t
<1>4. \A i \in DOMAIN t : i \in DOMAIN s \/ i = Len(s) + 1
  BY <1>2
<1>5. Numbered(t)
  BY <1>2, <1>3, <1>4 DEF Numbered
<1>6. kind = "search" /\ OnlySearches(s) => OnlySearches(t)
  BY <1>2, <1>3, <1>4 DEF OnlySearches
<1>7. kind # "search" => HasFinish(t)
  <2>1. Len(s) + 1 \in DOMAIN t
    BY <1>2
  <2>2. QED
    BY <2>1, <1>2, <1>3 DEF HasFinish
<1>8. HasFinish(s) => HasFinish(t)
  <2>1. \A i \in DOMAIN s : i \in DOMAIN t /\ t[i] = s[i]
    BY <1>2
  <2>2. QED
    BY <2>1 DEF HasFinish
<1>9. QED
  BY <1>1, <1>2, <1>5, <1>6, <1>7, <1>8

(* Only searches: the turn is the length of the journal.                   *)
LEMMA LedAll ==
  ASSUME NEW s, IsJournal(s), OnlySearches(s)
  PROVE  Led(s) = 1..Len(s) /\ Cardinality(Led(s)) = Len(s)
<1>1. Len(s) \in Nat /\ DOMAIN s = 1..Len(s)
  BY AppendShape
<1>2. \A i \in 1..Len(s) : 1..i \subseteq DOMAIN s
  BY <1>1
<1>3. Led(s) = 1..Len(s)
  BY <1>1, <1>2 DEF Led, OnlySearches
<1>4. Cardinality(1..Len(s)) = Len(s)
  <2>1. Cardinality(1..Len(s))
          = IF 1 > Len(s) THEN 0 ELSE Len(s) - 1 + 1
    BY <1>1, 1 \in Int, Len(s) \in Int, FS_Interval, Zenon
  <2>2. QED
    BY <1>1, <2>1
<1>5. QED
  BY <1>3, <1>4

LEMMA SearchesAll ==
  ASSUME NEW s, IsJournal(s), OnlySearches(s)
  PROVE  SearchesDone(s) = Len(s)
<1>1. Len(s) \in Nat /\ DOMAIN s = 1..Len(s)
  BY AppendShape
<1>2. {i \in DOMAIN s : s[i].kind = "search"} = 1..Len(s)
  BY <1>1 DEF OnlySearches
<1>3. Cardinality(1..Len(s)) = Len(s)
  <2>1. Cardinality(1..Len(s))
          = IF 1 > Len(s) THEN 0 ELSE Len(s) - 1 + 1
    BY <1>1, 1 \in Int, Len(s) \in Int, FS_Interval, Zenon
  <2>2. QED
    BY <1>1, <2>1
<1>4. QED
  BY <1>2, <1>3 DEF SearchesDone

(* A step that is no search ends the policy's searches.                    *)
LEMMA LedKept ==
  ASSUME NEW s, IsJournal(s), NEW kind, NEW new,
         kind # "search" \/ HasFinish(s)
  PROVE  Led(Journaled(s, kind, new)) = Led(s)
<1> DEFINE x == [seq |-> Len(s) + 1, kind |-> kind, new |-> new]
           t == Append(s, x)
<1>1. Journaled(s, kind, new) = t
  BY DEF Journaled
<1>2. /\ Len(s) \in Nat /\ DOMAIN s = 1..Len(s)
      /\ DOMAIN t = 1..(Len(s) + 1)
      /\ \A i \in 1..Len(s) : t[i] = s[i]
      /\ t[Len(s) + 1] = x
  BY AppendShape
<1>3. x.kind = kind
  OBVIOUS
<1> HIDE DEF x, t
<1>4. PICK k \in 1..(Len(s) + 1) : t[k].kind # "search"
  <2>1. CASE kind # "search"
    <3>1. Len(s) + 1 \in 1..(Len(s) + 1)
      BY <1>2
    <3>2. QED
      BY <3>1, <2>1, <1>2, <1>3
  <2>2. CASE HasFinish(s)
    <3>1. PICK k \in 1..Len(s) : s[k].kind # "search"
      BY <2>2, <1>2 DEF HasFinish
    <3>2. k \in 1..(Len(s) + 1)
      BY <3>1, <1>2
    <3>3. QED
      BY <3>1, <3>2, <1>2
  <2>3. QED
    BY <2>1, <2>2
<1>5. ASSUME NEW i \in Led(t) PROVE i \in Led(s)
  <2>1. i \in 1..(Len(s) + 1) /\ \A j \in 1..i : t[j].kind = "search"
    BY <1>2 DEF Led
  <2>2. i < k
    <3>1. k \notin 1..i
      BY <2>1, <1>4
    <3>2. QED
      BY <3>1, <2>1, <1>4, <1>2
  <2>3. i \in 1..Len(s)
    BY <2>1, <2>2, <1>4, <1>2
  <2>4. \A j \in 1..i : j \in 1..Len(s)
    BY <2>3, <1>2
  <2>5. \A j \in 1..i : s[j].kind = "search"
    BY <2>1, <2>4, <1>2
  <2>6. QED
    BY <2>3, <2>5, <1>2 DEF Led
<1>6. ASSUME NEW i \in Led(s) PROVE i \in Led(t)
  <2>1. i \in 1..Len(s) /\ \A j \in 1..i : s[j].kind = "search"
    BY <1>2 DEF Led
  <2>2. \A j \in 1..i : j \in 1..Len(s)
    BY <2>1, <1>2
  <2>3. \A j \in 1..i : t[j].kind = "search"
    BY <2>1, <2>2, <1>2
  <2>4. i \in 1..(Len(s) + 1)
    BY <2>1, <1>2
  <2>5. QED
    BY <2>3, <2>4, <1>2 DEF Led
<1>7. QED
  BY <1>1, <1>5, <1>6

(* A step that is no search leaves the count of the searches.              *)
LEMMA SearchesKept ==
  ASSUME NEW s, IsJournal(s), NEW kind, NEW new, kind # "search"
  PROVE  SearchesDone(Journaled(s, kind, new)) = SearchesDone(s)
<1> DEFINE x == [seq |-> Len(s) + 1, kind |-> kind, new |-> new]
           t == Append(s, x)
<1>1. Journaled(s, kind, new) = t
  BY DEF Journaled
<1>2. /\ Len(s) \in Nat /\ DOMAIN s = 1..Len(s)
      /\ DOMAIN t = 1..(Len(s) + 1)
      /\ \A i \in 1..Len(s) : t[i] = s[i]
      /\ t[Len(s) + 1] = x
  BY AppendShape
<1>3. x.kind # "search"
  OBVIOUS
<1> HIDE DEF x, t
<1>4. \A i \in DOMAIN t : t[i].kind = "search" => i \in DOMAIN s
  BY <1>2, <1>3
<1>5. \A i \in DOMAIN s : i \in DOMAIN t /\ t[i] = s[i]
  BY <1>2
<1>6. {i \in DOMAIN t : t[i].kind = "search"}
        = {i \in DOMAIN s : s[i].kind = "search"}
  BY <1>4, <1>5
<1>7. QED
  BY <1>1, <1>6 DEF SearchesDone

-----------------------------------------------------------------------------
(* Induction on the naturals, for a set: were m not in T, the successors   *)
(* would put the members of T up to m, m itself excepted, one to one among *)
(* those above 0, which are fewer.                                         *)
LEMMA SetInduction ==
  ASSUME NEW T, 0 \in T, \A n \in Nat : n \in T => n + 1 \in T
  PROVE  Nat \subseteq T
<1>1. SUFFICES ASSUME NEW m \in Nat, m \notin T PROVE FALSE
  OBVIOUS
<1> DEFINE A == {n \in 0..m : n \in T}
           B == A \ {0}
           next == [n \in A |-> n + 1]
<1>2. IsFiniteSet(A) /\ IsFiniteSet(B)
  <2>1. IsFiniteSet(0..m)
    BY FS_Interval
  <2>2. A \subseteq 0..m /\ B \subseteq 0..m
    OBVIOUS
  <2>3. QED
    BY <2>1, <2>2, FS_Subset
<1>3. Cardinality(B) = Cardinality(A) - 1
  <2>1. 0 \in A
    OBVIOUS
  <2> HIDE DEF A
  <2>2. QED
    BY <1>2, <2>1, FS_RemoveElement
<1>4. next \in [A -> B]
  <2>1. ASSUME NEW n \in A PROVE n + 1 \in B
    BY <1>1, <2>1
  <2>2. QED
    BY <2>1
<1>5. \A x, y \in A : next[x] = next[y] => x = y
  OBVIOUS
<1>6. Cardinality(A) \in Nat /\ Cardinality(B) \in Nat
  BY <1>2, FS_CardinalityType
<1> HIDE DEF A, next
<1>7. QED
  BY <1>2, <1>3, <1>4, <1>5, <1>6, FS_PigeonHole

(* What Omit keeps of the first n links, from what it keeps of those       *)
(* before.                                                                 *)
KeptNext(f, links, dropped, n) ==
  IF n = 0 THEN <<>>
  ELSE IF links[n] \in dropped THEN f[n - 1]
  ELSE Append(f[n - 1], links[n])

KeptUpTo(f, links, dropped, m) ==
  f = [n \in 0..m |-> KeptNext(f, links, dropped, n)]

LEMMA KeptExists ==
  ASSUME NEW links, NEW dropped
  PROVE  \A m \in Nat : \E f : KeptUpTo(f, links, dropped, m)
<1> DEFINE T == {m \in Nat : \E f : KeptUpTo(f, links, dropped, m)}
<1>1. 0 \in T
  <2> DEFINE f == [n \in 0..0 |-> <<>>]
  <2>1. KeptUpTo(f, links, dropped, 0)
    BY DEF KeptUpTo, KeptNext
  <2>2. QED
    BY <2>1
<1>2. ASSUME NEW m \in Nat, m \in T PROVE m + 1 \in T
  <2>1. PICK f : KeptUpTo(f, links, dropped, m)
    BY <1>2
  <2> DEFINE g == [n \in 0..(m + 1) |->
                     IF n \in 0..m THEN f[n]
                     ELSE IF links[n] \in dropped THEN f[m]
                     ELSE Append(f[m], links[n])]
  <2>2. ASSUME NEW n \in 0..(m + 1)
        PROVE  g[n] = KeptNext(g, links, dropped, n)
    <3>1. CASE n \in 0..m
      <4>1. g[n] = f[n] /\ f[n] = KeptNext(f, links, dropped, n)
        BY <2>1, <3>1 DEF KeptUpTo
      <4>2. n # 0 => n - 1 \in 0..m /\ n - 1 \in 0..(m + 1)
        BY <3>1
      <4>3. n # 0 => g[n - 1] = f[n - 1]
        BY <4>2
      <4> HIDE DEF g
      <4>4. QED
        BY <4>1, <4>3 DEF KeptNext
    <3>2. CASE n = m + 1
      <4>1. g[m] = f[m] /\ n # 0 /\ n - 1 = m /\ n \notin 0..m
        BY <3>2
      <4>2. g[n] = IF links[n] \in dropped THEN f[m]
                   ELSE Append(f[m], links[n])
        BY <4>1
      <4> HIDE DEF g
      <4>3. QED
        BY <4>1, <4>2 DEF KeptNext
    <3>3. QED
      BY <3>1, <3>2
  <2>3. g = [n \in 0..(m + 1) |-> KeptNext(g, links, dropped, n)]
    <3>1. DOMAIN g = 0..(m + 1) /\ g = [n \in 0..(m + 1) |-> g[n]]
      OBVIOUS
    <3> HIDE DEF g
    <3>2. QED
      BY <2>2, <3>1
  <2> HIDE DEF g
  <2>4. QED
    BY <2>3 DEF KeptUpTo
<1>3. \A m \in Nat : m \in T => m + 1 \in T
  BY <1>2
<1> HIDE DEF T
<1>4. Nat \subseteq T
  BY <1>1, <1>3, SetInduction
<1>5. QED
  BY <1>4 DEF T

(* Omit is what is kept of all the links.                                  *)
LEMMA OmitKept ==
  ASSUME NEW S, NEW links \in Seq(S), NEW dropped
  PROVE  \E f : /\ Omit(links, dropped) = f[Len(links)]
                /\ \A n \in 0..Len(links) :
                     f[n] = KeptNext(f, links, dropped, n)
<1> DEFINE f == CHOOSE g : KeptUpTo(g, links, dropped, Len(links))
<1>1. Len(links) \in Nat
  OBVIOUS
<1>2. Omit(links, dropped) = f[Len(links)]
  BY DEF Omit, KeptUpTo, KeptNext
<1>3. KeptUpTo(f, links, dropped, Len(links))
  BY <1>1, KeptExists
<1> HIDE DEF f
<1>4. \A n \in 0..Len(links) : f[n] = KeptNext(f, links, dropped, n)
  BY <1>3 DEF KeptUpTo
<1>5. QED
  BY <1>2, <1>4

(* Omit keeps links of the sequence that are not dropped, and no more of   *)
(* them.                                                                   *)
LEMMA OmitIs ==
  ASSUME NEW S, NEW links \in Seq(S), NEW dropped
  PROVE  /\ Omit(links, dropped) \in Seq(S \ dropped)
         /\ Len(Omit(links, dropped)) <= Len(links)
<1>1. PICK f : /\ Omit(links, dropped) = f[Len(links)]
               /\ \A n \in 0..Len(links) :
                    f[n] = KeptNext(f, links, dropped, n)
  BY OmitKept
<1> DEFINE T == {n \in Nat : n \in 0..Len(links) =>
                   f[n] \in Seq(S \ dropped) /\ Len(f[n]) <= n}
<1>2. 0 \in T
  <2>1. 0 \in 0..Len(links)
    OBVIOUS
  <2>2. f[0] = <<>>
    BY <1>1, <2>1 DEF KeptNext
  <2>3. f[0] \in Seq(S \ dropped) /\ Len(f[0]) <= 0
    BY <2>2
  <2>4. QED
    BY <2>3
<1>3. ASSUME NEW n \in Nat, n \in T PROVE n + 1 \in T
  <2> SUFFICES ASSUME n + 1 \in 0..Len(links)
               PROVE  f[n + 1] \in Seq(S \ dropped) /\ Len(f[n + 1]) <= n + 1
    OBVIOUS
  <2>1. n \in 0..Len(links) /\ links[n + 1] \in S /\ n + 1 # 0
    OBVIOUS
  <2>2. f[n] \in Seq(S \ dropped) /\ Len(f[n]) <= n
    BY <1>3, <2>1
  <2>3. f[n + 1] = IF links[n + 1] \in dropped THEN f[n]
                   ELSE Append(f[n], links[n + 1])
    <3>1. (n + 1) - 1 = n
      OBVIOUS
    <3>2. f[n + 1] = KeptNext(f, links, dropped, n + 1)
      BY <1>1
    <3>3. QED
      BY <2>1, <3>1, <3>2 DEF KeptNext
  <2>4. CASE links[n + 1] \in dropped
    BY <2>2, <2>3, <2>4
  <2>5. CASE links[n + 1] \notin dropped
    <3>1. links[n + 1] \in S \ dropped
      BY <2>1, <2>5
    <3>2. f[n + 1] = Append(f[n], links[n + 1])
      BY <2>3, <2>5
    <3>3. QED
      BY <2>2, <3>1, <3>2
  <2>6. QED
    BY <2>4, <2>5
<1>4. \A n \in Nat : n \in T => n + 1 \in T
  BY <1>3
<1> HIDE DEF T
<1>5. Nat \subseteq T
  BY <1>2, <1>4, SetInduction
<1>6. Len(links) \in Nat
  OBVIOUS
<1>7. QED
  BY <1>1, <1>5, <1>6 DEF T

LEMMA RangeAppend ==
  ASSUME NEW S, NEW s \in Seq(S), NEW x
  PROVE  Range(Append(s, x)) = Range(s) \cup {x}
<1> DEFINE t == Append(s, x)
<1>1. /\ Len(s) \in Nat /\ DOMAIN s = 1..Len(s)
      /\ DOMAIN t = 1..(Len(s) + 1)
      /\ \A i \in 1..Len(s) : t[i] = s[i]
      /\ t[Len(s) + 1] = x
  <2>1. s \in Seq(S \cup {x}) /\ x \in S \cup {x}
    OBVIOUS
  <2>2. QED
    BY <2>1
<1> HIDE DEF t
<1>2. ASSUME NEW y \in Range(t) PROVE y \in Range(s) \cup {x}
  <2>1. PICK i \in 1..(Len(s) + 1) : y = t[i]
    BY <1>1 DEF Range
  <2>2. i \in 1..Len(s) \/ i = Len(s) + 1
    BY <1>1, <2>1
  <2>3. QED
    BY <1>1, <2>1, <2>2 DEF Range
<1>3. ASSUME NEW y \in Range(s) PROVE y \in Range(t)
  <2>1. PICK i \in 1..Len(s) : y = s[i]
    BY <1>1 DEF Range
  <2>2. i \in DOMAIN t
    BY <1>1
  <2>3. QED
    BY <1>1, <2>1, <2>2 DEF Range
<1>4. x \in Range(t)
  <2>1. Len(s) + 1 \in DOMAIN t
    BY <1>1
  <2>2. QED
    BY <1>1, <2>1 DEF Range
<1>5. QED
  BY <1>2, <1>3, <1>4 DEF t

(* Nothing else is dropped.                                                *)
LEMMA OmitKeepsOthers ==
  ASSUME NEW S, NEW links \in Seq(S), NEW dropped
  PROVE  Range(Omit(links, dropped)) = Range(links) \ dropped
<1> DEFINE kept == Omit(links, dropped)
<1>1. PICK f : /\ kept = f[Len(links)]
               /\ \A n \in 0..Len(links) :
                    f[n] = KeptNext(f, links, dropped, n)
  BY OmitKept
<1> DEFINE Shown(n) == {links[i] : i \in 1..n} \ dropped
           T == {n \in Nat : n \in 0..Len(links) =>
                   f[n] \in Seq(S) /\ Range(f[n]) = Shown(n)}
<1>2. 0 \in T
  <2>1. 0 \in 0..Len(links)
    OBVIOUS
  <2>2. f[0] = <<>>
    BY <1>1, <2>1 DEF KeptNext
  <2>3. Range(f[0]) = {} /\ Shown(0) = {} /\ f[0] \in Seq(S)
    BY <2>2 DEF Range
  <2> HIDE DEF Shown
  <2>4. QED
    BY <2>3
<1>3. ASSUME NEW n \in Nat, n \in T PROVE n + 1 \in T
  <2> SUFFICES ASSUME n + 1 \in 0..Len(links)
               PROVE  f[n + 1] \in Seq(S) /\ Range(f[n + 1]) = Shown(n + 1)
    OBVIOUS
  <2>1. n \in 0..Len(links) /\ links[n + 1] \in S /\ n + 1 # 0
    OBVIOUS
  <2>2. f[n] \in Seq(S) /\ Range(f[n]) = Shown(n)
    BY <1>3, <2>1
  <2>3. f[n + 1] = IF links[n + 1] \in dropped THEN f[n]
                   ELSE Append(f[n], links[n + 1])
    <3>1. (n + 1) - 1 = n
      OBVIOUS
    <3>2. f[n + 1] = KeptNext(f, links, dropped, n + 1)
      BY <1>1
    <3>3. QED
      BY <2>1, <3>1, <3>2 DEF KeptNext
  <2>4. Shown(n + 1) = Shown(n) \cup ({links[n + 1]} \ dropped)
    <3>1. 1..(n + 1) = (1..n) \cup {n + 1}
      OBVIOUS
    <3>2. QED
      BY <3>1
  <2> HIDE DEF Shown
  <2>5. CASE links[n + 1] \in dropped
    BY <2>2, <2>3, <2>4, <2>5
  <2>6. CASE links[n + 1] \notin dropped
    <3>1. f[n + 1] = Append(f[n], links[n + 1])
      BY <2>3, <2>6
    <3>2. f[n + 1] \in Seq(S)
      BY <2>1, <2>2, <3>1
    <3>3. Range(f[n + 1]) = Range(f[n]) \cup {links[n + 1]}
      BY <2>1, <2>2, <3>1, RangeAppend
    <3>4. QED
      BY <2>2, <2>4, <2>6, <3>2, <3>3
  <2>7. QED
    BY <2>5, <2>6
<1>4. \A n \in Nat : n \in T => n + 1 \in T
  BY <1>3
<1>5. Shown(Len(links)) = Range(links) \ dropped
  BY DEF Range
<1> HIDE DEF T, Shown, kept
<1>6. Nat \subseteq T
  BY <1>2, <1>4, SetInduction
<1>7. Len(links) \in Nat /\ Len(links) \in 0..Len(links)
  OBVIOUS
<1>8. Range(f[Len(links)]) = Shown(Len(links))
  BY <1>6, <1>7 DEF T
<1>9. QED
  BY <1>1, <1>5, <1>8 DEF kept
-----------------------------------------------------------------------------
(* What every step of the graph keeps: the journal is numbered by its      *)
(* positions, it holds the policy's searches alone until the finish, and a *)
(* delta only once the report is delivered.                                *)
AgInv ==
  /\ run \in {"idle", "running", "paused", "failed", "delivered"}
  /\ node \in Nodes
  /\ graph = [hits |-> graph.hits, collected |-> graph.collected,
              steps |-> graph.steps, informed |-> graph.informed]
  /\ graph.informed = answered /\ answered \in BOOLEAN
  /\ IsJournal(graph.steps)
  /\ Numbered(graph.steps)
  /\ node \in {"decide", "search", "ask", "finalize"}
       => OnlySearches(graph.steps)
  /\ node \in {"critique", "end"} => HasFinish(graph.steps)
  /\ run = "paused" => node = "ask"
  /\ run # "delivered" => delta = <<>>

LEMMA SameOmit ==
  ASSUME NEW links, NEW dropped
  PROVE  Loop!Omit(links, dropped) = Omit(links, dropped)
BY DEF Loop!Omit, Omit

LEMMA SameUnseen ==
  ASSUME NEW links, NEW keys PROVE Loop!Unseen(links, keys) = NotIn(keys, links)
BY SameOmit DEF Loop!Unseen, NotIn

LEMMA SameKeys == ASSUME NEW links PROVE Loop!Keys(links) = KeysOf(links)
BY DEF Loop!Keys, KeysOf

LEMMA SameSearches ==
  ASSUME NEW s PROVE Loop!Searches(s) = SearchesDone(s)
BY DEF Loop!Searches, SearchesDone, Loop!Cardinality, Cardinality

(* A step of the loop is journaled as the graph's.                         *)
LEMMA SameStep ==
  ASSUME NEW s, NEW kind, NEW new
  PROVE  Append(s, Loop!JournalStep(Len(s) + 1, kind, new))
           = Journaled(s, kind, new)
BY DEF Loop!JournalStep, Journaled

LEMMA EmptyJournal ==
  /\ IsJournal(<<>>) /\ Numbered(<<>>) /\ OnlySearches(<<>>)
  /\ Cardinality(Led(<<>>)) = 0 /\ <<>> \o <<>> = <<>>
<1>1. <<>> \in Seq({}) /\ DOMAIN <<>> = {}
  OBVIOUS
<1>2. IsJournal(<<>>)
  BY <1>1 DEF IsJournal
<1>3. Numbered(<<>>) /\ OnlySearches(<<>>) /\ Led(<<>>) = {}
  BY <1>1 DEF Numbered, OnlySearches, Led
<1>4. QED
  BY <1>2, <1>3, FS_EmptySet, NothingMore

LEMMA TurnIs == Turn = 1 + Cardinality(Led(graph.steps))
BY DEF Turn, Led

LEMMA TurnIsNext == Turn' = 1 + Cardinality(Led((graph.steps)'))
BY DEF Turn, Led

LEMMA GraphBegins == AgInit => AgInv /\ Loop!LoopInit
<1> SUFFICES ASSUME AgInit PROVE AgInv /\ Loop!LoopInit
  OBVIOUS
<1>1. /\ run = "idle" /\ node = "decide" /\ delta = <<>>
      /\ graph = [hits |-> <<>>, collected |-> {}, steps |-> <<>>,
                  informed |-> FALSE]
      /\ answered = FALSE /\ exceeded = FALSE
  BY DEF AgInit, NewState
<1>2. graph.hits = <<>> /\ graph.collected = {} /\ graph.steps = <<>>
  BY <1>1
<1>3. graph.informed = FALSE
  BY <1>1
<1>4. AgInv
  BY <1>1, <1>2, <1>3, EmptyJournal DEF AgInv, Nodes
<1>5. Phase = "idle"
  BY <1>1 DEF Phase
<1>6. Turn = 1
  BY <1>2, EmptyJournal, TurnIs
<1>7. graph.steps \o delta = <<>>
  BY <1>1, <1>2, EmptyJournal
<1>8. QED
  BY <1>1, <1>2, <1>3, <1>4, <1>5, <1>6, <1>7 DEF Loop!LoopInit

(* A task that begins starts the loop over or goes on from a checkpoint.   *)
LEMMA TaskStep ==
  ASSUME AgInv, Task
  PROVE  AgInv' /\ (Loop!LoopNext \/ GoesOn)
<1>1. /\ run # "running" /\ run' = "running" /\ exceeded' = FALSE
      /\ delta' = <<>> /\ UNCHANGED <<recurring, seen>>
      /\ answered' \in {answered, answered \/ run = "paused"}
  BY DEF Task
<1>2. CASE FreshRun
  <2>1. /\ node' = "decide"
        /\ graph' = [hits |-> <<>>, collected |-> {}, steps |-> <<>>,
                     informed |-> answered']
    BY <1>2 DEF FreshRun, NewState
  <2>2. /\ graph'.hits = <<>> /\ graph'.collected = {}
        /\ graph'.steps = <<>>
    BY <2>1
  <2>3. graph'.informed = answered'
    BY <2>1
  <2>4. AgInv'
    BY <1>1, <2>1, <2>2, <2>3, EmptyJournal DEF AgInv, Nodes
  <2>5. Phase = run /\ Phase \notin Loop!Working /\ Phase' = "deciding"
    BY <1>1, <2>1 DEF AgInv, Phase, PhaseOf, Loop!Working
  <2>6. Turn' = 1
    BY <2>2, EmptyJournal, TurnIsNext
  <2>7. (graph.steps \o delta)' = <<>>
    BY <1>1, <2>2, EmptyJournal
  <2>8. (graph.informed)' \in {graph.informed,
                               graph.informed \/ Phase = "paused"}
    BY <1>1, <2>3, <2>5 DEF AgInv
  <2>9. Loop!Start
    BY <1>1, <2>2, <2>5, <2>6, <2>7, <2>8 DEF Loop!Start
  <2>10. QED
    BY <1>1, <2>4, <2>9 DEF Loop!LoopNext
<1>3. CASE ResumedRun
  <2>1. answered'
    BY <1>3 DEF ResumedRun
  <2>2. CASE node = "ask"
    <3>1. node' = "decide" /\ graph' = [graph EXCEPT !.informed = TRUE]
      BY <1>3, <2>2 DEF ResumedRun
    <3>2. /\ graph'.hits = graph.hits /\ graph'.steps = graph.steps
          /\ graph'.collected = graph.collected /\ graph'.informed = TRUE
          /\ graph' = [hits |-> graph'.hits, collected |-> graph'.collected,
                       steps |-> graph'.steps, informed |-> graph'.informed]
      BY <3>1 DEF AgInv
    <3>3. answered' = TRUE
      BY <1>1, <2>1 DEF AgInv
    <3>4. AgInv'
      BY <1>1, <2>2, <3>1, <3>2, <3>3 DEF AgInv, Nodes
    <3>5. QED
      BY <1>1, <2>1, <3>2, <3>4 DEF GoesOn
  <2>3. CASE node # "ask"
    <3>1. UNCHANGED <<node, graph>>
      BY <1>3, <2>3 DEF ResumedRun
    <3>2. answered' = answered /\ graph.informed = answered
      BY <1>1, <2>3 DEF AgInv
    <3>3. AgInv'
      BY <1>1, <2>3, <3>1, <3>2 DEF AgInv
    <3>4. QED
      BY <1>1, <2>1, <3>1, <3>2, <3>3 DEF GoesOn
  <2>4. QED
    BY <2>2, <2>3
<1>4. QED
  BY <1>2, <1>3 DEF Task

(* What the loop sees of a graph at work.                                  *)
LEMMA AtWork ==
  ASSUME AgInv, run = "running"
  PROVE  /\ Phase = PhaseOf[node] /\ Phase \in Loop!Working
         /\ delta = <<>> /\ graph.steps \o delta = graph.steps
<1>1. delta = <<>> /\ IsJournal(graph.steps) /\ node \in Nodes
  BY DEF AgInv
<1>2. graph.steps \o delta = graph.steps
  BY <1>1, NothingMore
<1>3. QED
  BY <1>1, <1>2 DEF Phase, PhaseOf, Nodes, Loop!Working

(* The same of the next state.                                             *)
LEMMA AtWorkNext ==
  ASSUME run' = "running", delta' = <<>>, IsJournal((graph.steps)')
  PROVE  Phase' = PhaseOf[node'] /\ (graph.steps \o delta)' = (graph.steps)'
<1>1. (graph.steps)' \o <<>> = (graph.steps)'
  BY NothingMore
<1>2. QED
  BY <1>1 DEF Phase, PhaseOf

(* A node that keeps the graph keeps what the loop has of it.              *)
LEMMA GraphKept ==
  ASSUME UNCHANGED graph
  PROVE  /\ UNCHANGED <<graph.hits, graph.collected, graph.steps,
                        graph.informed>>
         /\ Turn' = Turn
<1>1. graph'.steps = graph.steps
  OBVIOUS
<1>2. QED
  BY <1>1, TurnIs, TurnIsNext

LEMMA DecideStep ==
  ASSUME AgInv, NodeStep, DecideNode
  PROVE  AgInv' /\ Loop!LoopNext
<1>1. /\ run = "running" /\ node = "decide"
      /\ UNCHANGED <<run, graph, answered, recurring, seen, delta>>
  BY DEF NodeStep, DecideNode
<1>2. /\ Phase = "deciding" /\ delta = <<>>
      /\ graph.steps \o delta = graph.steps
  BY <1>1, AtWork DEF PhaseOf
<1>3. /\ UNCHANGED <<graph.hits, graph.collected, graph.steps,
                     graph.informed>>
      /\ Turn' = Turn
  BY <1>1, GraphKept
<1>4. UNCHANGED (graph.steps \o delta)
  BY <1>1
<1>5. Phase' = PhaseOf[node']
  BY <1>1 DEF Phase, PhaseOf
<1>6. /\ IsJournal(graph.steps) /\ OnlySearches(graph.steps)
      /\ Numbered(graph.steps)
  BY <1>1 DEF AgInv
<1>7. Turn > MaxSteps <=> SearchesDone(graph.steps) >= MaxSteps
  <2>1. Turn = 1 + Len(graph.steps) /\ SearchesDone(graph.steps) = Len(graph.steps)
    BY <1>6, LedAll, SearchesAll, TurnIs
  <2>2. Len(graph.steps) \in Nat
    BY <1>6, AppendShape
  <2>3. QED
    BY <2>1, <2>2, StepsAndAttemptsAreCounted
<1>8. node' \in {"search", "ask", "finalize"}
  BY DEF DecideNode, ApplyAskGuard
<1>9. AgInv'
  BY <1>1, <1>3, <1>6, <1>8 DEF AgInv, Nodes
<1>10. Loop!Decide
  <2>1. CASE SearchesDone(graph.steps) >= MaxSteps \/ exceeded
    <3>1. node' = "finalize" /\ UNCHANGED exceeded
      BY <2>1 DEF DecideNode
    <3>2. Phase' = "finishing"
      BY <3>1, <1>5 DEF PhaseOf
    <3>3. Turn > MaxSteps \/ exceeded
      BY <2>1, <1>7
    <3>4. QED
      BY <1>2, <1>3, <1>4, <3>1, <3>2, <3>3 DEF Loop!Decide
  <2>2. CASE ~(SearchesDone(graph.steps) >= MaxSteps \/ exceeded)
    <3>1. ~(Turn > MaxSteps \/ exceeded)
      BY <2>2, <1>7
    <3>2. exceeded' \in {exceeded, TRUE}
      BY <2>2 DEF DecideNode, Spending
    <3>3. PICK action \in {"search", "ask", "finalize"} :
            node' = ApplyAskGuard(action)
      BY <2>2 DEF DecideNode
    <3>4. \E act \in {"searching", "asking", "finishing"} :
            Phase' = Loop!AskGuard(act)
      <4>1. PhaseOf[action] \in {"searching", "asking", "finishing"}
        BY <3>3 DEF PhaseOf
      <4>2. PhaseOf[ApplyAskGuard(action)] = Loop!AskGuard(PhaseOf[action])
        BY <3>3 DEF ApplyAskGuard, Loop!AskGuard, PhaseOf
      <4>3. QED
        BY <4>1, <4>2, <3>3, <1>5
    <3>5. QED
      BY <1>2, <1>3, <1>4, <3>1, <3>2, <3>4 DEF Loop!Decide, Loop!Pay
  <2>3. QED
    BY <2>1, <2>2
<1>11. QED
  BY <1>1, <1>9, <1>10 DEF Loop!LoopNext

LEMMA AskNodeStep ==
  ASSUME AgInv, NodeStep, AskNode
  PROVE  AgInv' /\ Loop!LoopNext
<1>1. /\ run = "running" /\ node = "ask" /\ run' = "paused"
      /\ UNCHANGED <<node, graph, answered, exceeded, recurring, seen, delta>>
  BY DEF NodeStep, AskNode
<1>2. Phase = "asking" /\ delta = <<>>
  BY <1>1, AtWork DEF PhaseOf
<1>3. /\ UNCHANGED <<graph.hits, graph.collected, graph.steps,
                     graph.informed>>
      /\ Turn' = Turn
  BY <1>1, GraphKept
<1>4. UNCHANGED (graph.steps \o delta)
  BY <1>1
<1>5. Phase' = "paused"
  BY <1>1 DEF Phase
<1>6. AgInv'
  BY <1>1, <1>2, <1>3 DEF AgInv
<1>7. Loop!Ask
  BY <1>1, <1>2, <1>3, <1>4, <1>5 DEF Loop!Ask
<1>8. QED
  BY <1>1, <1>6, <1>7 DEF Loop!LoopNext

LEMMA FailStep ==
  ASSUME AgInv, TaskFails
  PROVE  AgInv' /\ Loop!LoopNext
<1>1. /\ run = "running" /\ run' = "failed"
      /\ UNCHANGED <<node, graph, answered, exceeded, recurring, seen, delta>>
  BY DEF TaskFails
<1>2. Phase \in Loop!Working /\ delta = <<>>
  BY <1>1, AtWork
<1>3. /\ UNCHANGED <<graph.hits, graph.collected, graph.steps,
                     graph.informed>>
      /\ Turn' = Turn
  BY <1>1, GraphKept
<1>4. UNCHANGED (graph.steps \o delta)
  BY <1>1
<1>5. Phase' = "failed"
  BY <1>1 DEF Phase
<1>6. AgInv'
  BY <1>1, <1>2, <1>3 DEF AgInv
<1>7. Loop!Raise
  BY <1>1, <1>2, <1>3, <1>4, <1>5 DEF Loop!Raise
<1>8. QED
  BY <1>1, <1>6, <1>7 DEF Loop!LoopNext

(* A search is journaled at its turn.                                      *)
LEMMA SearchStep ==
  ASSUME AgInv, NodeStep, SearchNode
  PROVE  AgInv' /\ Loop!LoopNext
<1>1. /\ run = "running" /\ node = "search" /\ node' = "decide"
      /\ UNCHANGED <<run, answered, recurring, seen, delta>>
      /\ exceeded' \in {exceeded, TRUE}
  BY DEF NodeStep, SearchNode, Spending
<1>2. PICK found \in Responses :
        graph' = [graph EXCEPT
          !.hits = @ \o NotIn(graph.collected, found),
          !.collected = @ \cup KeysOf(NotIn(graph.collected, found)),
          !.steps = Journaled(@, "search", Len(NotIn(graph.collected, found)))]
  BY DEF SearchNode
<1> DEFINE new == NotIn(graph.collected, found)
           n == Len(new)
<1>3. /\ graph'.hits = graph.hits \o new
      /\ graph'.collected = graph.collected \cup KeysOf(new)
      /\ graph'.steps = Journaled(graph.steps, "search", n)
      /\ graph'.informed = graph.informed
      /\ graph' = [hits |-> graph'.hits, collected |-> graph'.collected,
                   steps |-> graph'.steps, informed |-> graph'.informed]
  BY <1>2 DEF AgInv
<1>4. new = Loop!Unseen(found, graph.collected)
  BY SameUnseen
<1> HIDE DEF new, n
<1>5. /\ Phase = "searching" /\ delta = <<>>
      /\ graph.steps \o delta = graph.steps
  BY <1>1, AtWork DEF PhaseOf
<1>6. /\ IsJournal(graph.steps) /\ OnlySearches(graph.steps)
      /\ Numbered(graph.steps)
  BY <1>1 DEF AgInv
<1>7. /\ IsJournal(graph'.steps) /\ OnlySearches(graph'.steps)
      /\ Numbered(graph'.steps) /\ Len(graph'.steps) = Len(graph.steps) + 1
  BY <1>3, <1>6, JournaledKeeps
<1>8. Turn = 1 + Len(graph.steps) /\ Turn' = 1 + Len(graph'.steps)
  BY <1>6, <1>7, LedAll, TurnIs, TurnIsNext
<1>9. Len(graph.steps) \in Nat
  BY <1>6, AppendShape
<1>10. Turn' = Turn + 1 /\ Turn = Len(graph.steps) + 1
  BY <1>7, <1>8, <1>9
<1>11. /\ Phase' = "deciding"
       /\ (graph.steps \o delta)' = graph'.steps
  <2>1. delta' = <<>> /\ run' = "running"
    BY <1>1, <1>5
  <2>2. QED
    BY <2>1, <1>1, <1>7, AtWorkNext DEF PhaseOf
<1>12. graph'.steps = Append(graph.steps, Loop!JournalStep(Turn, "search", n))
  BY <1>3, <1>10, SameStep
<1>13. AgInv'
  BY <1>1, <1>3, <1>5, <1>7 DEF AgInv, Nodes
<1>14. Loop!Search
  <2>1. /\ (graph.hits)' = graph.hits \o Loop!Unseen(found, graph.collected)
        /\ (graph.collected)' = graph.collected
              \cup Loop!Keys(Loop!Unseen(found, graph.collected))
        /\ (graph.steps \o delta)' = Append(graph.steps \o delta,
              Loop!JournalStep(Turn, "search",
                               Len(Loop!Unseen(found, graph.collected))))
    BY <1>3, <1>4, <1>5, <1>11, <1>12, SameKeys DEF n
  <2>2. found \in Responses
    BY <1>2
  <2>3. QED
    BY <1>1, <1>3, <1>5, <1>10, <1>11, <2>1, <2>2
       DEF Loop!Search, Loop!Pay
<1>15. QED
  BY <1>1, <1>13, <1>14 DEF Loop!LoopNext

(* The finish is journaled at the turn that follows the searches.          *)
LEMMA FinalizeStep ==
  ASSUME AgInv, NodeStep, FinalizeNode
  PROVE  AgInv' /\ Loop!LoopNext
<1>1. /\ run = "running" /\ node = "finalize" /\ node' = "critique"
      /\ UNCHANGED <<run, answered, exceeded, recurring, seen, delta>>
      /\ graph' = [graph EXCEPT !.steps = Journaled(@, "finish", 0)]
  BY DEF NodeStep, FinalizeNode
<1>2. /\ graph'.hits = graph.hits /\ graph'.collected = graph.collected
      /\ graph'.steps = Journaled(graph.steps, "finish", 0)
      /\ graph'.informed = graph.informed
      /\ graph' = [hits |-> graph'.hits, collected |-> graph'.collected,
                   steps |-> graph'.steps, informed |-> graph'.informed]
  BY <1>1 DEF AgInv
<1>3. /\ Phase = "finishing" /\ delta = <<>>
      /\ graph.steps \o delta = graph.steps
  BY <1>1, AtWork DEF PhaseOf
<1>4. /\ IsJournal(graph.steps) /\ OnlySearches(graph.steps)
      /\ Numbered(graph.steps)
  BY <1>1 DEF AgInv
<1>5. /\ IsJournal(graph'.steps) /\ HasFinish(graph'.steps)
      /\ Numbered(graph'.steps)
  BY <1>2, <1>4, JournaledKeeps, "finish" # "search"
<1>6. Led(graph'.steps) = Led(graph.steps)
  BY <1>2, <1>4, LedKept, "finish" # "search"
<1>7. Turn' = Turn /\ Turn = 1 + Len(graph.steps)
  BY <1>4, <1>6, LedAll, TurnIs, TurnIsNext
<1>8. Turn = Len(graph.steps) + 1
  <2>1. Len(graph.steps) \in Nat
    BY <1>4, AppendShape
  <2>2. QED
    BY <2>1, <1>7
<1>9. Phase' = "reviewing" /\ (graph.steps \o delta)' = graph'.steps
  <2>1. delta' = <<>> /\ run' = "running"
    BY <1>1, <1>3
  <2>2. QED
    BY <2>1, <1>1, <1>5, AtWorkNext DEF PhaseOf
<1>10. graph'.steps = Append(graph.steps, Loop!JournalStep(Turn, "finish", 0))
  BY <1>2, <1>8, SameStep
<1>11. AgInv'
  BY <1>1, <1>2, <1>3, <1>5 DEF AgInv, Nodes
<1>12. Loop!Finish
  BY <1>1, <1>2, <1>3, <1>7, <1>9, <1>10 DEF Loop!Finish
<1>13. QED
  BY <1>1, <1>11, <1>12 DEF Loop!LoopNext

(* The last step of a journal carries its length.                          *)
LEMMA LastSeq ==
  ASSUME NEW s, IsJournal(s), Numbered(s), HasFinish(s)
  PROVE  Loop!Last(s).seq = Len(s) /\ Len(s) \in Nat
<1>1. Len(s) \in Nat /\ DOMAIN s = 1..Len(s)
  BY AppendShape
<1>2. PICK k \in 1..Len(s) : s[k].kind # "search"
  BY <1>1 DEF HasFinish
<1>3. Len(s) \in DOMAIN s
  BY <1>1, <1>2
<1>4. s[Len(s)].seq = Len(s)
  BY <1>3 DEF Numbered
<1>5. QED
  BY <1>1, <1>4 DEF Loop!Last

LEMMA SameRange == ASSUME NEW s PROVE Loop!Range(s) = Range(s)
BY DEF Loop!Range, Range

(* The critique is journaled after the last step, a gap's search after it. *)
LEMMA ReviewedJournal ==
  ASSUME NEW s, IsJournal(s), Numbered(s), HasFinish(s), NEW n
  PROVE  LET journal == Journaled(s, "critique", 0)
             searched == Journaled(journal, "search", n)
         IN  /\ journal = Append(s,
                   Loop!JournalStep(Loop!Last(s).seq + 1, "critique", 0))
             /\ searched = Append(journal,
                   Loop!JournalStep(Loop!Last(s).seq + 1 + 1, "search", n))
             /\ IsJournal(journal) /\ Numbered(journal) /\ HasFinish(journal)
             /\ IsJournal(searched) /\ Numbered(searched)
             /\ HasFinish(searched)
             /\ SearchesDone(journal) = SearchesDone(s)
             /\ Led(journal) = Led(s) /\ Led(searched) = Led(s)
<1> DEFINE journal == Journaled(s, "critique", 0)
           searched == Journaled(journal, "search", n)
<1>1. Loop!Last(s).seq = Len(s)
  BY LastSeq
<1>2. /\ IsJournal(journal) /\ Numbered(journal) /\ HasFinish(journal)
      /\ Len(journal) = Len(s) + 1
  BY JournaledKeeps
<1>3. Led(journal) = Led(s)
  BY LedKept
<1>4. SearchesDone(journal) = SearchesDone(s)
  BY SearchesKept, "critique" # "search"
<1>5. journal = Append(s, Loop!JournalStep(Len(s) + 1, "critique", 0))
  BY SameStep
<1> HIDE DEF journal
<1>6. IsJournal(searched) /\ Numbered(searched) /\ HasFinish(searched)
  BY <1>2, JournaledKeeps
<1>7. Led(searched) = Led(journal)
  BY <1>2, LedKept
<1>8. searched = Append(journal,
                        Loop!JournalStep(Len(journal) + 1, "search", n))
  BY SameStep
<1> HIDE DEF searched
<1>9. QED
  BY <1>1, <1>2, <1>3, <1>4, <1>5, <1>6, <1>7, <1>8 DEF journal, searched

(* The review of a graph is the loop's.                                    *)
LEMMA VerdictStep ==
  ASSUME AgInv, run = "running", node = "critique", Verdict,
         run' = "running", delta' = <<>>
  PROVE  /\ Loop!Review
         /\ UNCHANGED <<graph.collected, graph.informed>>
         /\ IsJournal(graph'.steps) /\ Numbered(graph'.steps)
         /\ HasFinish(graph'.steps) /\ Led(graph'.steps) = Led(graph.steps)
         /\ graph' = [hits |-> graph'.hits, collected |-> graph'.collected,
                      steps |-> graph'.steps, informed |-> graph'.informed]
<1> DEFINE s == graph.steps
           journal == Journaled(s, "critique", 0)
           searched(n) == Journaled(journal, "search", n)
           seq == Loop!Last(s).seq + 1
<1>1. IsJournal(s) /\ Numbered(s) /\ HasFinish(s) /\ s \o delta = s
  BY AtWork DEF AgInv
<1>2. /\ journal = Append(s, Loop!JournalStep(seq, "critique", 0))
      /\ IsJournal(journal) /\ Numbered(journal) /\ HasFinish(journal)
      /\ SearchesDone(journal) = SearchesDone(s)
      /\ Led(journal) = Led(s)
  BY <1>1, ReviewedJournal
<1>3. \A n : /\ searched(n) = Append(journal,
                                Loop!JournalStep(seq + 1, "search", n))
             /\ IsJournal(searched(n)) /\ Numbered(searched(n))
             /\ HasFinish(searched(n)) /\ Led(searched(n)) = Led(s)
  BY <1>1, ReviewedJournal
<1>4. PICK irrelevant \in SUBSET Range(graph.hits),
           gap \in BOOLEAN, crossed \in BOOLEAN :
        LET kept == Omit(graph.hits, irrelevant)
        IN  IF gap /\ SearchesDone(journal) < MaxSteps /\ ~crossed
              THEN \E found \in Responses :
                     LET new == NotIn(KeysOf(kept), found)
                     IN  /\ graph' = [graph EXCEPT
                               !.hits = kept \o new,
                               !.steps = searched(Len(new))]
                         /\ Spending
              ELSE /\ graph' = [graph EXCEPT !.hits = kept,
                                             !.steps = journal]
                   /\ exceeded' = crossed
  BY DEF Verdict
<1> DEFINE kept == Omit(graph.hits, irrelevant)
<1>5. irrelevant \in SUBSET Loop!Range(graph.hits)
  BY SameRange
<1>6. CASE gap /\ SearchesDone(journal) < MaxSteps /\ ~crossed
  <2>1. PICK found \in Responses :
          /\ graph' = [graph EXCEPT
               !.hits = kept \o NotIn(KeysOf(kept), found),
               !.steps = searched(Len(NotIn(KeysOf(kept), found)))]
          /\ Spending
    BY <1>4, <1>6
  <2> DEFINE new == NotIn(KeysOf(kept), found)
  <2>2. new = Loop!Unseen(found, Loop!Keys(kept))
    BY SameUnseen, SameKeys
  <2> HIDE DEF s, journal, searched, seq, kept, new
  <2>3. /\ graph'.hits = kept \o new /\ graph'.steps = searched(Len(new))
        /\ UNCHANGED <<graph.collected, graph.informed>>
        /\ graph' = [hits |-> graph'.hits, collected |-> graph'.collected,
                     steps |-> graph'.steps, informed |-> graph'.informed]
    BY <2>1 DEF AgInv, new
  <2>4. /\ IsJournal(graph'.steps) /\ Numbered(graph'.steps)
        /\ HasFinish(graph'.steps) /\ Led(graph'.steps) = Led(s)
    BY <2>3, <1>3
  <2>5. (graph.steps \o delta)' = graph'.steps
    BY <2>4, AtWorkNext
  <2>6. graph'.steps = Append(Append(s, Loop!JournalStep(seq, "critique", 0)),
                              Loop!JournalStep(seq + 1, "search", Len(new)))
    BY <2>3, <1>2, <1>3
  <2>7. gap /\ Loop!Searches(s) < MaxSteps /\ ~crossed
    BY <1>2, <1>6, SameSearches
  <2>8. Loop!Review
    <3>1. (graph.steps \o delta)'
            = Append(Append(s \o delta,
                            Loop!JournalStep(Loop!Last(s \o delta).seq + 1,
                                             "critique", 0)),
                     Loop!JournalStep(Loop!Last(s \o delta).seq + 1 + 1,
                                      "search", Len(new)))
      BY <2>5, <2>6, <1>1 DEF seq
    <3>2. Loop!Searches(s \o delta) < MaxSteps
      BY <2>7, <1>1
    <3>3. exceeded' \in {exceeded, TRUE}
      BY <2>1 DEF Spending
    <3>4. kept = Loop!Omit(graph.hits, irrelevant)
      BY SameOmit DEF kept
    <3>5. QED
      BY <1>5, <2>1, <2>2, <2>3, <2>7, <3>1, <3>2, <3>3, <3>4
         DEF Loop!Review, Loop!Pay, s
  <2>9. QED
    BY <2>3, <2>4, <2>8 DEF s
<1>7. CASE ~(gap /\ SearchesDone(journal) < MaxSteps /\ ~crossed)
  <2>1. /\ graph' = [graph EXCEPT !.hits = kept, !.steps = journal]
        /\ exceeded' = crossed
    BY <1>4, <1>7
  <2> HIDE DEF s, journal, searched, seq, kept
  <2>2. /\ graph'.hits = kept /\ graph'.steps = journal
        /\ UNCHANGED <<graph.collected, graph.informed>>
        /\ graph' = [hits |-> graph'.hits, collected |-> graph'.collected,
                     steps |-> graph'.steps, informed |-> graph'.informed]
    BY <2>1 DEF AgInv
  <2>3. /\ IsJournal(graph'.steps) /\ Numbered(graph'.steps)
        /\ HasFinish(graph'.steps) /\ Led(graph'.steps) = Led(s)
    BY <2>2, <1>2
  <2>4. (graph.steps \o delta)' = graph'.steps
    BY <2>3, AtWorkNext
  <2>5. ~(gap /\ Loop!Searches(s) < MaxSteps /\ ~crossed)
    BY <1>2, <1>7, SameSearches
  <2>6. Loop!Review
    <3>1. (graph.steps \o delta)'
            = Append(s \o delta,
                     Loop!JournalStep(Loop!Last(s \o delta).seq + 1,
                                      "critique", 0))
      BY <2>2, <2>4, <1>1, <1>2 DEF seq
    <3>2. ~(gap /\ Loop!Searches(s \o delta) < MaxSteps /\ ~crossed)
      BY <2>5, <1>1
    <3>3. kept = Loop!Omit(graph.hits, irrelevant)
      BY SameOmit DEF kept
    <3>4. QED
      BY <1>5, <2>1, <2>2, <3>1, <3>2, <3>3 DEF Loop!Review, s
  <2>7. QED
    BY <2>2, <2>3, <2>6 DEF s
<1>8. QED
  BY <1>6, <1>7

LEMMA CritiqueStep ==
  ASSUME AgInv, NodeStep, CritiqueNode
  PROVE  AgInv' /\ Loop!LoopNext
<1>1. /\ run = "running" /\ node = "critique" /\ node' = "end"
      /\ UNCHANGED <<run, answered, recurring, seen, delta>>
  BY DEF NodeStep, CritiqueNode
<1>2. Phase = "reviewing" /\ delta = <<>> /\ delta' = <<>> /\ run' = "running"
  BY <1>1, AtWork DEF PhaseOf
<1>3. Phase' = "delivering"
  BY <1>1, <1>2 DEF Phase, PhaseOf
<1>4. CASE exceeded
  <2>1. UNCHANGED <<graph, exceeded>>
    BY <1>4 DEF CritiqueNode
  <2>2. /\ UNCHANGED <<graph.hits, graph.collected, graph.steps,
                       graph.informed>>
        /\ Turn' = Turn
    BY <2>1, GraphKept
  <2>3. UNCHANGED (graph.steps \o delta)
    BY <1>1, <2>1
  <2>4. AgInv'
    BY <1>1, <1>2, <2>1 DEF AgInv, Nodes
  <2>5. Loop!SelfCritique
    BY <1>2, <1>3, <1>4, <2>1, <2>2, <2>3 DEF Loop!SelfCritique
  <2>6. QED
    BY <1>1, <2>4, <2>5 DEF Loop!LoopNext
<1>5. CASE ~exceeded
  <2>1. Verdict
    BY <1>5 DEF CritiqueNode
  <2>2. /\ Loop!Review
        /\ UNCHANGED <<graph.collected, graph.informed>>
        /\ IsJournal(graph'.steps) /\ Numbered(graph'.steps)
        /\ HasFinish(graph'.steps) /\ Led(graph'.steps) = Led(graph.steps)
        /\ graph' = [hits |-> graph'.hits, collected |-> graph'.collected,
                     steps |-> graph'.steps, informed |-> graph'.informed]
    BY <1>1, <1>2, <2>1, VerdictStep
  <2>3. Turn' = Turn
    BY <2>2, TurnIs, TurnIsNext
  <2>4. AgInv'
    BY <1>1, <1>2, <2>2 DEF AgInv, Nodes
  <2>5. Loop!SelfCritique
    BY <1>2, <1>3, <1>5, <2>2, <2>3 DEF Loop!SelfCritique
  <2>6. QED
    BY <1>1, <2>4, <2>5 DEF Loop!LoopNext
<1>6. QED
  BY <1>4, <1>5

(* The delta of a recurring run is journaled after the last step.          *)
LEMMA DeliverStep ==
  ASSUME AgInv, DeliverGraph
  PROVE  AgInv' /\ Loop!LoopNext
<1>1. /\ run = "running" /\ node = "end" /\ run' = "delivered"
      /\ UNCHANGED <<node, graph, answered, exceeded, recurring, seen>>
      /\ delta' =
           IF ~recurring THEN <<>>
           ELSE <<[seq |-> Len(graph.steps) + 1, kind |-> "report",
                   new |-> Len(NotIn({Canonical[u] : u \in seen},
                                     graph.hits))]>>
  BY DEF DeliverGraph
<1>2. /\ Phase = "delivering" /\ graph.steps \o delta = graph.steps
  BY <1>1, AtWork DEF PhaseOf
<1>3. /\ UNCHANGED <<graph.hits, graph.collected, graph.steps,
                     graph.informed>>
      /\ Turn' = Turn
  BY <1>1, GraphKept
<1>4. Phase' = "delivered"
  BY <1>1 DEF Phase
<1>5. Loop!Last(graph.steps).seq = Len(graph.steps)
  BY <1>1, LastSeq DEF AgInv
<1>6. delta' = Loop!DeltaStep(Loop!Last(graph.steps).seq + 1, graph.hits)
  <2>1. NotIn({Canonical[u] : u \in seen}, graph.hits)
          = Loop!Unseen(graph.hits, {Canonical[u] : u \in seen})
    BY SameUnseen
  <2>2. QED
    BY <1>1, <1>5, <2>1 DEF Loop!DeltaStep, Loop!JournalStep
<1>7. (graph.steps \o delta)'
        = (graph.steps \o delta)
            \o Loop!DeltaStep(Loop!Last(graph.steps \o delta).seq + 1,
                              graph.hits)
  BY <1>2, <1>3, <1>6
<1>8. AgInv'
  BY <1>1, <1>3 DEF AgInv
<1>9. Loop!Deliver
  BY <1>1, <1>2, <1>3, <1>4, <1>7 DEF Loop!Deliver
<1>10. QED
  BY <1>1, <1>8, <1>9 DEF Loop!LoopNext

-----------------------------------------------------------------------------
LEMMA GraphSteps ==
  AgInv /\ [AgNext]_agVars
    => AgInv' /\ [Loop!LoopNext \/ GoesOn]_agVars
<1> SUFFICES ASSUME AgInv, [AgNext]_agVars
             PROVE  AgInv' /\ [Loop!LoopNext \/ GoesOn]_agVars
  OBVIOUS
<1>1. CASE Task
  BY <1>1, TaskStep
<1>2. CASE NodeStep
  BY <1>2, DecideStep, SearchStep, AskNodeStep, FinalizeStep, CritiqueStep
     DEF NodeStep
<1>3. CASE DeliverGraph
  BY <1>3, DeliverStep
<1>4. CASE TaskFails
  BY <1>4, FailStep
<1>5. CASE UNCHANGED agVars
  BY <1>5 DEF agVars, AgInv
<1>6. QED
  BY <1>1, <1>2, <1>3, <1>4, <1>5 DEF AgNext

(* langgraph_orchestrator.py runs "the same decision loop as the           *)
(* hand-rolled run_agent_research": for every budget, memory and answer of *)
(* a search, every node it executes is the step of the loop, with its      *)
(* guard, its journal number and its results, or the resumption of a       *)
(* paused run from its checkpoint.                                         *)
THEOREM GraphRunsTheLoop == AgSpec => GraphIsTheLoop
<1>1. AgInit => AgInv /\ Loop!LoopInit
  BY GraphBegins
<1>2. AgInv /\ [AgNext]_agVars
        => AgInv' /\ [Loop!LoopNext \/ GoesOn]_agVars
  BY GraphSteps
<1>3. QED
  BY <1>1, <1>2, PTL DEF AgSpec, GraphIsTheLoop
-----------------------------------------------------------------------------
(* One more search in the journal is one more that is counted.             *)
LEMMA SearchesCounted ==
  ASSUME NEW s, IsJournal(s), NEW new
  PROVE  /\ SearchesDone(s) \in Nat
         /\ SearchesDone(Journaled(s, "search", new)) = SearchesDone(s) + 1
<1> DEFINE x == [seq |-> Len(s) + 1, kind |-> "search", new |-> new]
           t == Append(s, x)
           old == {i \in DOMAIN s : s[i].kind = "search"}
<1>1. Journaled(s, "search", new) = t
  BY DEF Journaled
<1>2. /\ Len(s) \in Nat /\ DOMAIN s = 1..Len(s)
      /\ DOMAIN t = 1..(Len(s) + 1)
      /\ \A i \in 1..Len(s) : t[i] = s[i]
      /\ t[Len(s) + 1] = x
  BY AppendShape
<1>3. x.kind = "search"
  OBVIOUS
<1> HIDE DEF x, t
<1>4. {i \in DOMAIN t : t[i].kind = "search"} = old \cup {Len(s) + 1}
  BY <1>2, <1>3
<1>5. IsFiniteSet(old) /\ Len(s) + 1 \notin old
  <2>1. IsFiniteSet(1..Len(s)) /\ old \subseteq 1..Len(s)
    BY <1>2, FS_Interval
  <2>2. IsFiniteSet(old)
    BY <2>1, FS_Subset
  <2>3. QED
    BY <1>2, <2>1, <2>2
<1>6. Cardinality(old \cup {Len(s) + 1}) = Cardinality(old) + 1
  BY <1>5, FS_AddElement
<1>7. Cardinality(old) \in Nat
  BY <1>5, FS_CardinalityType
<1>8. SearchesDone(s) = Cardinality(old)
  BY DEF SearchesDone
<1>9. SearchesDone(t) = Cardinality(old \cup {Len(s) + 1})
  BY <1>4 DEF SearchesDone
<1> HIDE DEF old
<1>10. QED
  BY <1>1, <1>6, <1>7, <1>8, <1>9

(* The pages of links that are appended to others.                         *)
LEMMA KeysOfBoth ==
  ASSUME NEW S, NEW s \in Seq(S), NEW t \in Seq(S)
  PROVE  KeysOf(s \o t) = KeysOf(s) \cup KeysOf(t)
<1> DEFINE r == s \o t
<1>1. /\ Len(s) \in Nat /\ Len(t) \in Nat
      /\ DOMAIN s = 1..Len(s) /\ DOMAIN t = 1..Len(t)
      /\ DOMAIN r = 1..(Len(s) + Len(t))
      /\ \A i \in 1..(Len(s) + Len(t)) :
           r[i] = IF i <= Len(s) THEN s[i] ELSE t[i - Len(s)]
  OBVIOUS
<1> HIDE DEF r
<1>2. ASSUME NEW k \in KeysOf(r) PROVE k \in KeysOf(s) \cup KeysOf(t)
  <2>1. PICK i \in 1..(Len(s) + Len(t)) : k = Canonical[r[i]]
    BY <1>1 DEF KeysOf
  <2>2. CASE i <= Len(s)
    <3>1. i \in DOMAIN s /\ k = Canonical[s[i]]
      BY <1>1, <2>1, <2>2
    <3>2. QED
      BY <3>1 DEF KeysOf
  <2>3. CASE ~(i <= Len(s))
    <3>1. i - Len(s) \in DOMAIN t /\ k = Canonical[t[i - Len(s)]]
      BY <1>1, <2>1, <2>3
    <3>2. QED
      BY <3>1 DEF KeysOf
  <2>4. QED
    BY <2>2, <2>3
<1>3. ASSUME NEW k \in KeysOf(s) PROVE k \in KeysOf(r)
  <2>1. PICK i \in 1..Len(s) : k = Canonical[s[i]]
    BY <1>1 DEF KeysOf
  <2>2. i \in DOMAIN r /\ k = Canonical[r[i]]
    BY <1>1, <2>1
  <2>3. QED
    BY <2>2 DEF KeysOf
<1>4. ASSUME NEW k \in KeysOf(t) PROVE k \in KeysOf(r)
  <2>1. PICK i \in 1..Len(t) : k = Canonical[t[i]]
    BY <1>1 DEF KeysOf
  <2> DEFINE j == Len(s) + i
  <2>2. j \in 1..(Len(s) + Len(t)) /\ ~(j <= Len(s)) /\ j - Len(s) = i
    BY <1>1, <2>1
  <2>3. j \in DOMAIN r /\ k = Canonical[r[j]]
    BY <1>1, <2>1, <2>2
  <2>4. QED
    BY <2>3 DEF KeysOf
<1>5. QED
  BY <1>2, <1>3, <1>4 DEF r

Links == DOMAIN Canonical

(* What a search adds: links, of pages that are not among `keys'.          *)
LEMMA NotInIs ==
  ASSUME NEW keys, NEW found \in Responses
  PROVE  /\ NotIn(keys, found) \in Seq(Links)
         /\ KeysOf(NotIn(keys, found)) \cap keys = {}
<1> DEFINE dropped == {u \in DOMAIN Canonical : Canonical[u] \in keys}
           new == Omit(found, dropped)
<1>1. found \in Seq(Links)
  BY SearchesReturnLinks DEF Links
<1>2. new \in Seq(Links \ dropped)
  BY <1>1, OmitIs
<1>3. \A i \in DOMAIN new : new[i] \in Links \ dropped
  BY <1>2
<1>4. \A u \in Links \ dropped : Canonical[u] \notin keys
  BY DEF Links
<1> HIDE DEF dropped, new
<1>5. KeysOf(new) \cap keys = {}
  BY <1>3, <1>4 DEF KeysOf
<1>6. new \in Seq(Links)
  BY <1>2
<1>7. QED
  BY <1>5, <1>6 DEF NotIn, new, dropped

(* What the graph keeps of the results it gathers: they are links, their   *)
(* pages are the collected ones until the critic drops some, and a search  *)
(* is chosen only while there is a search left.                            *)
Gathered ==
  /\ graph.hits \in Seq(Links)
  /\ SearchesDone(graph.steps) <= MaxSteps
  /\ node = "search" => SearchesDone(graph.steps) < MaxSteps
  /\ CollectedAreKept

AgRest ==
  /\ exceeded \in BOOLEAN /\ recurring \in BOOLEAN
  /\ seen \in Memories \cup {{}}
  /\ Len(delta) <= 1
  /\ attempts \in 0..MaxAttempts

LEMMA NothingGathered ==
  /\ <<>> \in Seq(Links) /\ KeysOf(<<>>) = {}
  /\ SearchesDone(<<>>) = 0
<1>1. <<>> \in Seq(Links) /\ DOMAIN <<>> = {}
  OBVIOUS
<1>2. KeysOf(<<>>) = {} /\ {i \in DOMAIN <<>> : <<>>[i].kind = "search"} = {}
  BY <1>1 DEF KeysOf
<1>3. QED
  BY <1>1, <1>2, FS_EmptySet DEF SearchesDone

LEMMA GatheringBegins == AgInit => Gathered /\ AgRest
<1> SUFFICES ASSUME AgInit PROVE Gathered /\ AgRest
  OBVIOUS
<1>1. /\ node = "decide" /\ exceeded = FALSE /\ recurring \in BOOLEAN
      /\ seen \in Memories \cup {{}} /\ delta = <<>> /\ attempts = 0
  BY DEF AgInit
<1>2. /\ graph.hits = <<>> /\ graph.collected = {} /\ graph.steps = <<>>
  BY DEF AgInit, NewState
<1>3. Gathered
  BY <1>1, <1>2, NothingGathered, StepsAndAttemptsAreCounted
     DEF Gathered, CollectedAreKept
<1>4. Len(delta) <= 1
  BY <1>1
<1>5. attempts \in 0..MaxAttempts
  BY <1>1, StepsAndAttemptsAreCounted
<1>6. AgRest
  BY <1>1, <1>4, <1>5, Zenon DEF AgRest
<1>7. QED
  BY <1>3, <1>6

LEMMA TaskGathers ==
  ASSUME AgInv, Gathered, AgRest, Task
  PROVE  Gathered' /\ AgRest'
<1>1. /\ exceeded' = FALSE /\ delta' = <<>>
      /\ attempts < MaxAttempts /\ attempts' = attempts + 1
      /\ UNCHANGED <<recurring, seen>>
  BY DEF Task
<1>2. AgRest'
  <2>1. Len(delta') <= 1
    BY <1>1
  <2>2. attempts' \in 0..MaxAttempts
    BY <1>1, StepsAndAttemptsAreCounted DEF AgRest
  <2>3. exceeded' \in BOOLEAN
    BY <1>1
  <2>4. QED
    BY <1>1, <2>1, <2>2, <2>3, Zenon DEF AgRest
<1>3. CASE FreshRun
  <2>1. /\ node' = "decide" /\ graph'.hits = <<>>
        /\ graph'.collected = {} /\ graph'.steps = <<>>
    BY <1>3 DEF FreshRun, NewState
  <2>2. QED
    BY <1>2, <2>1, NothingGathered, StepsAndAttemptsAreCounted
       DEF Gathered, CollectedAreKept
<1>4. CASE ResumedRun
  <2>1. /\ UNCHANGED <<graph.hits, graph.collected, graph.steps>>
        /\ node' = node \/ (node = "ask" /\ node' = "decide")
    BY <1>4 DEF ResumedRun, AgInv
  <2>2. QED
    BY <1>2, <2>1 DEF Gathered, CollectedAreKept, SearchesDone, KeysOf
<1>5. QED
  BY <1>3, <1>4 DEF Task

LEMMA DecideGathers ==
  ASSUME AgInv, Gathered, DecideNode
  PROVE  Gathered' /\ exceeded' \in {exceeded, TRUE}
<1>1. node = "decide" /\ UNCHANGED graph
  BY DEF DecideNode
<1>2. exceeded' \in {exceeded, TRUE}
  BY DEF DecideNode, Spending
<1>3. node' \in {"search", "ask", "finalize"}
  BY DEF DecideNode, ApplyAskGuard
<1>4. node' = "search" => ~(SearchesDone(graph.steps) >= MaxSteps)
  BY DEF DecideNode
<1>5. SearchesDone(graph.steps) \in Int /\ MaxSteps \in Int
  BY SearchesCounted, StepsAndAttemptsAreCounted DEF AgInv
<1>6. Gathered'
  BY <1>1, <1>3, <1>4, <1>5 DEF Gathered, CollectedAreKept
<1>7. QED
  BY <1>2, <1>6

LEMMA SearchGathers ==
  ASSUME AgInv, Gathered, SearchNode
  PROVE  /\ Gathered' /\ exceeded' \in {exceeded, TRUE}
         /\ \A u \in Range(graph'.hits) \ Range(graph.hits) :
              Canonical[u] \notin KeysOf(graph.hits)
<1>1. /\ node = "search" /\ node' = "decide"
      /\ exceeded' \in {exceeded, TRUE}
  BY DEF SearchNode, Spending
<1>2. PICK found \in Responses :
        graph' = [graph EXCEPT
          !.hits = @ \o NotIn(graph.collected, found),
          !.collected = @ \cup KeysOf(NotIn(graph.collected, found)),
          !.steps = Journaled(@, "search", Len(NotIn(graph.collected, found)))]
  BY DEF SearchNode
<1> DEFINE new == NotIn(graph.collected, found)
<1>3. /\ graph'.hits = graph.hits \o new
      /\ graph'.collected = graph.collected \cup KeysOf(new)
      /\ graph'.steps = Journaled(graph.steps, "search", Len(new))
  BY <1>2 DEF AgInv
<1>4. new \in Seq(Links) /\ KeysOf(new) \cap graph.collected = {}
  BY NotInIs
<1> HIDE DEF new
<1>5. graph.hits \in Seq(Links) /\ graph.collected = KeysOf(graph.hits)
  BY <1>1 DEF Gathered, CollectedAreKept
<1>6. graph'.hits \in Seq(Links)
  BY <1>3, <1>4, <1>5
<1>7. graph'.collected = KeysOf(graph'.hits)
  BY <1>3, <1>4, <1>5, KeysOfBoth
<1>8. SearchesDone(graph'.steps) = SearchesDone(graph.steps) + 1
  BY <1>3, SearchesCounted DEF AgInv
<1>9. SearchesDone(graph.steps) \in Int /\ MaxSteps \in Int
  BY SearchesCounted, StepsAndAttemptsAreCounted DEF AgInv
<1>10. SearchesDone(graph'.steps) <= MaxSteps
  BY <1>1, <1>8, <1>9 DEF Gathered
<1>11. Gathered'
  BY <1>1, <1>6, <1>7, <1>10
     DEF Gathered, CollectedAreKept, SearchesDone, KeysOf, Links
<1>12. ASSUME NEW u \in Range(graph'.hits) \ Range(graph.hits)
       PROVE  Canonical[u] \notin KeysOf(graph.hits)
  <2>1. Range(graph'.hits) = Range(graph.hits) \cup Range(new)
    BY <1>3, <1>4, <1>5, RangeConcatenation
  <2>2. PICK i \in DOMAIN new : u = new[i]
    BY <1>12, <2>1 DEF Range
  <2>3. Canonical[u] \in KeysOf(new)
    BY <2>2 DEF KeysOf
  <2>4. QED
    BY <1>4, <1>5, <2>3
<1>13. QED
  BY <1>1, <1>11, <1>12

LEMMA FinalizeGathers ==
  ASSUME AgInv, Gathered, FinalizeNode
  PROVE  Gathered' /\ exceeded' = exceeded
<1>1. /\ node = "finalize" /\ node' = "critique" /\ exceeded' = exceeded
      /\ UNCHANGED <<graph.hits, graph.collected>>
      /\ graph'.steps = Journaled(graph.steps, "finish", 0)
  BY DEF FinalizeNode, AgInv
<1>2. SearchesDone(graph'.steps) = SearchesDone(graph.steps)
  BY <1>1, SearchesKept DEF AgInv
<1>3. QED
  BY <1>1, <1>2 DEF Gathered, CollectedAreKept, KeysOf

LEMMA CritiqueGathers ==
  ASSUME AgInv, Gathered, CritiqueNode, exceeded \in BOOLEAN
  PROVE  Gathered' /\ exceeded' \in BOOLEAN
<1> DEFINE journal == Journaled(graph.steps, "critique", 0)
           searched(n) == Journaled(journal, "search", n)
<1>1. node = "critique" /\ node' = "end"
  BY DEF CritiqueNode
<1>2. graph.hits \in Seq(Links) /\ SearchesDone(graph.steps) <= MaxSteps
  BY DEF Gathered
<1>3. SUFFICES /\ graph'.hits \in Seq(Links)
               /\ SearchesDone(graph'.steps) <= MaxSteps
               /\ exceeded' \in BOOLEAN
  BY <1>1 DEF Gathered, CollectedAreKept, SearchesDone, Links
<1>4. CASE exceeded
  BY <1>2, <1>4 DEF CritiqueNode
<1>5. CASE ~exceeded
  <2>1. PICK irrelevant \in SUBSET Range(graph.hits),
             gap \in BOOLEAN, crossed \in BOOLEAN :
          LET kept == Omit(graph.hits, irrelevant)
          IN  IF gap /\ SearchesDone(journal) < MaxSteps /\ ~crossed
                THEN \E found \in Responses :
                       LET new == NotIn(KeysOf(kept), found)
                       IN  /\ graph' = [graph EXCEPT
                                 !.hits = kept \o new,
                                 !.steps = searched(Len(new))]
                           /\ Spending
                ELSE /\ graph' = [graph EXCEPT !.hits = kept,
                                               !.steps = journal]
                     /\ exceeded' = crossed
    BY <1>5 DEF CritiqueNode, Verdict
  <2> DEFINE kept == Omit(graph.hits, irrelevant)
  <2>2. kept \in Seq(Links)
    <3>1. kept \in Seq(Links \ irrelevant)
      BY <1>2, OmitIs
    <3> HIDE DEF kept
    <3>2. QED
      BY <3>1
  <2>3. IsJournal(journal) /\ SearchesDone(journal) = SearchesDone(graph.steps)
    BY JournaledKeeps, SearchesKept DEF AgInv
  <2>4. CASE gap /\ SearchesDone(journal) < MaxSteps /\ ~crossed
    <3>1. PICK found \in Responses :
            /\ graph' = [graph EXCEPT
                 !.hits = kept \o NotIn(KeysOf(kept), found),
                 !.steps = searched(Len(NotIn(KeysOf(kept), found)))]
            /\ Spending
      BY <2>1, <2>4
    <3> DEFINE new == NotIn(KeysOf(kept), found)
    <3>2. new \in Seq(Links)
      BY NotInIs
    <3> HIDE DEF journal, searched, kept, new
    <3>3. graph'.hits = kept \o new /\ graph'.steps = searched(Len(new))
      BY <3>1 DEF AgInv, new
    <3>4. graph'.hits \in Seq(Links)
      BY <2>2, <3>2, <3>3
    <3>5. /\ SearchesDone(journal) \in Nat
          /\ SearchesDone(graph'.steps) = SearchesDone(journal) + 1
      BY <2>3, <3>3, SearchesCounted DEF searched
    <3>6. SearchesDone(graph'.steps) <= MaxSteps
      BY <2>4, <3>5, StepsAndAttemptsAreCounted
    <3>7. QED
      BY <1>5, <3>1, <3>4, <3>6 DEF Spending
  <2>5. CASE ~(gap /\ SearchesDone(journal) < MaxSteps /\ ~crossed)
    <3>1. /\ graph' = [graph EXCEPT !.hits = kept, !.steps = journal]
          /\ exceeded' = crossed
      BY <2>1, <2>5
    <3> HIDE DEF journal, kept
    <3>2. graph'.hits = kept /\ graph'.steps = journal
      BY <3>1 DEF AgInv
    <3>3. QED
      BY <1>2, <2>2, <2>3, <3>1, <3>2
  <2>6. QED
    BY <2>4, <2>5
<1>6. QED
  BY <1>4, <1>5

LEMMA NodeGathers ==
  ASSUME AgInv, Gathered, AgRest, NodeStep
  PROVE  Gathered' /\ AgRest'
<1>1. UNCHANGED <<recurring, seen, delta, attempts>>
  BY DEF NodeStep
<1>2. exceeded \in BOOLEAN
  BY DEF AgRest
<1>3. Gathered' /\ exceeded' \in BOOLEAN
  <2>1. CASE DecideNode
    BY <1>2, <2>1, DecideGathers
  <2>2. CASE SearchNode
    BY <1>2, <2>2, SearchGathers
  <2>3. CASE AskNode
    BY <1>2, <2>3 DEF AskNode, Gathered, CollectedAreKept
  <2>4. CASE FinalizeNode
    BY <1>2, <2>4, FinalizeGathers
  <2>5. CASE CritiqueNode
    BY <1>2, <2>5, CritiqueGathers
  <2>6. QED
    BY <2>1, <2>2, <2>3, <2>4, <2>5 DEF NodeStep
<1>4. QED
  BY <1>1, <1>3 DEF AgRest

LEMMA DeliverGathers ==
  ASSUME Gathered, AgRest, DeliverGraph
  PROVE  Gathered' /\ AgRest'
<1>1. UNCHANGED <<node, graph, exceeded, recurring, seen, attempts>>
  BY DEF DeliverGraph
<1>2. Len(delta') <= 1
  <2>1. CASE ~recurring
    BY <2>1 DEF DeliverGraph
  <2>2. CASE recurring
    <3>1. \E x : delta' = <<x>>
      BY <2>2 DEF DeliverGraph
    <3>2. QED
      BY <3>1
  <2>3. QED
    BY <2>1, <2>2
<1>3. QED
  BY <1>1, <1>2 DEF Gathered, CollectedAreKept, AgRest

LEMMA GatheringSteps ==
  AgInv /\ Gathered /\ AgRest /\ [AgNext]_agVars => Gathered' /\ AgRest'
<1> SUFFICES ASSUME AgInv, Gathered, AgRest, [AgNext]_agVars
             PROVE  Gathered' /\ AgRest'
  OBVIOUS
<1>1. CASE Task
  BY <1>1, TaskGathers
<1>2. CASE NodeStep
  BY <1>2, NodeGathers
<1>3. CASE DeliverGraph
  BY <1>3, DeliverGathers
<1>4. CASE TaskFails \/ UNCHANGED agVars
  BY <1>4 DEF TaskFails, agVars, Gathered, CollectedAreKept, AgRest
<1>5. QED
  BY <1>1, <1>2, <1>3, <1>4 DEF AgNext

LEMMA Gathering == AgSpec => [](AgInv /\ Gathered /\ AgRest)
<1>1. AgInit => AgInv /\ Gathered /\ AgRest
  BY GraphBegins, GatheringBegins
<1>2. AgInv /\ Gathered /\ AgRest /\ [AgNext]_agVars
        => (AgInv /\ Gathered /\ AgRest)'
  BY GraphSteps, GatheringSteps
<1>3. QED
  BY <1>1, <1>2, PTL DEF AgSpec

(* Whatever searches return, the state of a run is of its type: the hits   *)
(* are links and the journal has at most one step after the report.        *)
THEOREM AgentTyped == AgSpec => []AgTypeOK
<1>1. AgInv /\ Gathered /\ AgRest => AgTypeOK
  <2> SUFFICES ASSUME AgInv, Gathered, AgRest PROVE AgTypeOK
    OBVIOUS
  <2>1. \A i \in DOMAIN graph.hits : graph.hits[i] \in Links
    BY DEF Gathered
  <2>2. KeysOf(graph.hits) \subseteq Range(Canonical)
    BY <2>1 DEF KeysOf, Range, Links
  <2>3. {answered, exceeded, graph.informed, recurring} \subseteq BOOLEAN
    BY DEF AgInv, AgRest
  <2>4. QED
    BY <2>2, <2>3 DEF AgInv, AgRest, AgTypeOK
<1>2. QED
  BY <1>1, Gathering, PTL

(* AGENT_MAX_STEPS bounds the searches of a run, the critic's included,    *)
(* across the checkpoints it goes on from (do_decide, do_critique).        *)
THEOREM SearchesStayInBudget == AgSpec => []SearchBudget
<1>1. Gathered => SearchBudget
  BY DEF Gathered, SearchBudget
<1>2. QED
  BY <1>1, Gathering, PTL

(* What a checkpoint says was collected is what it kept, so that a search  *)
(* adds only pages no hit shows and none is lost (do_search).              *)
THEOREM SearchesAddNewPages == AgSpec => []CollectedAreKept /\ FreshPages
<1>1. Gathered => CollectedAreKept
  BY DEF Gathered
<1>2. AgInv /\ Gathered /\ [AgNext]_agVars
        => [node = "search" =>
              \A u \in Range(graph'.hits) \ Range(graph.hits) :
                Canonical[u] \notin KeysOf(graph.hits)]_agVars
  <2> SUFFICES ASSUME AgInv, Gathered, AgNext, node = "search",
                      NEW u \in Range(graph'.hits) \ Range(graph.hits)
               PROVE  Canonical[u] \notin KeysOf(graph.hits)
    OBVIOUS
  <2>1. CASE Task
    <3>1. graph'.hits = <<>> \/ graph' = graph
      BY <2>1 DEF Task, FreshRun, ResumedRun, NewState
    <3>2. Range(<<>>) = {}
      BY DEF Range
    <3>3. QED
      BY <3>1, <3>2
  <2>2. CASE NodeStep
    <3>1. SearchNode
      BY <2>2 DEF NodeStep, DecideNode, AskNode, FinalizeNode, CritiqueNode
    <3>2. QED
      BY <3>1, SearchGathers
  <2>3. CASE DeliverGraph \/ TaskFails
    BY <2>3 DEF DeliverGraph, TaskFails
  <2>4. QED
    BY <2>1, <2>2, <2>3 DEF AgNext
<1>3. QED
  BY <1>1, <1>2, Gathering, PTL DEF AgSpec, FreshPages
=============================================================================
