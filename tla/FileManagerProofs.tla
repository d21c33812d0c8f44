-------------------------- MODULE FileManagerProofs --------------------------
(***************************************************************************)
(* Proofs about FileManager for any names, any depth of directories, any   *)
(* trees to begin with, any lists of sources and any number of requests    *)
(* under way at once:                                                      *)
(*   FilesTypeCorrect  FilesTypeOK: what the requests leave is a tree,     *)
(*   CopiesArrive      CopiedIsThere.                                      *)
(* Paths first, then what a change does to a tree, then what a step of one *)
(* call does to what the others know (OfOthers).  While a call copies a    *)
(* directory, each file of it that nobody else touches is copied already   *)
(* or below a name that one of the directories entered still has to read   *)
(* (Progress); this stays so because what nobody else touches outside the  *)
(* target stays as the call knows it (Kept).                               *)
(***************************************************************************)
EXTENDS FileManager, SequenceTheorems, TLAPS
-----------------------------------------------------------------------------
(* Paths.                                                                  *)

\* The paths are the sequences of names up to the bound.
LEMMA PathsAreSequences == \A p : p \in FilePaths <=> p \in Seq(Names) /\ Len(p) <= MaxDepth
<1>1. ASSUME NEW p \in FilePaths PROVE p \in Seq(Names) /\ Len(p) <= MaxDepth
  <2>1. PICK n \in 0..MaxDepth : p \in [1..n -> Names]
    BY DEF FilePaths
  <2>2. n \in Nat /\ MaxDepth \in Nat
    BY FilesAssumption
  <2>3. p \in Seq(Names)
    BY <2>1, <2>2, SeqDef
  <2>4. 1..Len(p) = 1..n /\ Len(p) \in Nat
    BY <2>1, <2>3, LenProperties
  <2>5. Len(p) = n
    BY <2>2, <2>4
  <2> QED
    BY <2>3, <2>5
<1>2. ASSUME NEW p \in Seq(Names), Len(p) <= MaxDepth PROVE p \in FilePaths
  <2>1. Len(p) \in 0..MaxDepth /\ p \in [1..Len(p) -> Names]
    BY <1>2, LenProperties, FilesAssumption
  <2> QED
    BY <2>1 DEF FilePaths
<1> QED
  BY <1>1, <1>2

LEMMA UnderMeans ==
  ASSUME NEW p \in Seq(Names), NEW q \in Seq(Names)
  PROVE  Under(p, q) <=> Len(p) <= Len(q) /\ \A i \in 1..Len(p) : p[i] = q[i]
<1>0. Len(p) \in Nat /\ Len(q) \in Nat
  BY LenProperties
<1>1. ASSUME Len(p) <= Len(q)
      PROVE  /\ SubSeq(p, 1, Len(p)) \in Seq(Names) /\ Len(SubSeq(p, 1, Len(p))) = Len(p)
             /\ \A i \in 1..Len(p) : SubSeq(p, 1, Len(p))[i] = p[i]
             /\ SubSeq(q, 1, Len(p)) \in Seq(Names) /\ Len(SubSeq(q, 1, Len(p))) = Len(p)
             /\ \A i \in 1..Len(p) : SubSeq(q, 1, Len(p))[i] = q[i]
  BY <1>0, <1>1
<1>2. CASE Len(p) <= Len(q)
  <2>1. ASSUME \A i \in 1..Len(p) : p[i] = q[i]
        PROVE  SubSeq(p, 1, Len(p)) = SubSeq(q, 1, Len(p))
    <3>1. \A i \in 1..Len(SubSeq(p, 1, Len(p))) :
            SubSeq(p, 1, Len(p))[i] = SubSeq(q, 1, Len(p))[i]
      BY <1>1, <1>2, <2>1
    <3> QED
      BY <1>1, <1>2, <3>1, SeqEqual
  <2>2. ASSUME SubSeq(p, 1, Len(p)) = SubSeq(q, 1, Len(p))
        PROVE  \A i \in 1..Len(p) : p[i] = q[i]
    BY <1>1, <1>2, <2>2
  <2> QED
    BY <1>2, <2>1, <2>2 DEF Under, IsPrefix
<1> QED
  BY <1>2 DEF Under, IsPrefix

\* Under orders the paths, and those above one path all in a row.
LEMMA UnderOrders ==
  ASSUME NEW p \in Seq(Names), NEW q \in Seq(Names), NEW r \in Seq(Names)
  PROVE  /\ Under(p, p)
         /\ Under(p, q) /\ Under(q, r) => Under(p, r)
         /\ Under(p, q) /\ Under(q, p) => p = q
         /\ Under(p, r) /\ Under(q, r) => Under(p, q) \/ Under(q, p)
         /\ Under(Core, p) /\ (Under(p, Core) => p = Core)
<1>0. Len(p) \in Nat /\ Len(q) \in Nat /\ Len(r) \in Nat /\ Core \in Seq(Names) /\ Len(Core) = 0
  BY LenProperties, EmptySeq DEF Core
<1>1. Under(p, p) /\ Under(Core, p)
  <2>1. Under(p, p)
    BY <1>0, UnderMeans
  <2>2. Len(Core) <= Len(p) /\ \A i \in 1..Len(Core) : Core[i] = p[i]
    BY <1>0
  <2> QED
    BY <1>0, <2>1, <2>2, UnderMeans
<1>2. Under(p, q) /\ Under(q, r) => Under(p, r)
  BY <1>0, UnderMeans
<1>3. ASSUME NEW x \in Seq(Names), NEW y \in Seq(Names), Under(x, y), Under(y, x) PROVE x = y
  <2>1. Len(x) = Len(y) /\ \A i \in 1..Len(x) : x[i] = y[i]
    BY <1>3, UnderMeans, LenProperties
  <2> QED
    BY <2>1, SeqEqual
<1>4. Under(p, r) /\ Under(q, r) => Under(p, q) \/ Under(q, p)
  BY <1>0, UnderMeans
<1> QED
  BY <1>0, <1>1, <1>2, <1>3, <1>4

\* What is above a path is the path, or above its directory.
LEMMA FrontIsAbove ==
  ASSUME NEW q \in Seq(Names), q # Core
  PROVE  /\ Front(q) \in Seq(Names) /\ Len(Front(q)) <= Len(q) /\ Under(Front(q), q) /\ Front(q) # q
         /\ \A p \in Seq(Names) : Under(p, q) => p = q \/ Under(p, Front(q))
<1>0. Len(q) \in Nat \ {0}
  BY EmptySeq DEF Core
<1>1. /\ Front(q) \in Seq(Names) /\ Len(Front(q)) = Len(q) - 1
      /\ \A i \in 1..Len(q) - 1 : Front(q)[i] = q[i]
  <2>1. Len(q) - 1 \in Int /\ \A i \in 1..Len(q) - 1 : q[i] \in Names
    BY <1>0
  <2> DEFINE n == Len(q) - 1
  <2>2. n \in Nat /\ 1 \in Int
    BY <1>0
  <2>3. /\ SubSeq(q, 1, n) \in Seq(Names)
        /\ Len(SubSeq(q, 1, n)) = IF 1 <= n THEN n - 1 + 1 ELSE 0
        /\ \A i \in 1..n - 1 + 1 : SubSeq(q, 1, n)[i] = q[1 + i - 1]
    <3> HIDE DEF n
    <3>1. \A i \in 1..n : q[i] \in Names
      BY <2>1 DEF n
    <3> QED
      BY <2>2, <3>1, SubSeqProperties
  <2>4. /\ SubSeq(q, 1, n) \in Seq(Names) /\ Len(SubSeq(q, 1, n)) = n
        /\ \A i \in 1..n : SubSeq(q, 1, n)[i] = q[i]
    <3> HIDE DEF n
    <3>1. n - 1 + 1 = n /\ (\A i \in 1..n : 1 + i - 1 = i) /\ (~(1 <= n) => n = 0)
      BY <2>2
    <3> QED
      BY <2>2, <2>3, <3>1
  <2> QED
    BY <2>4 DEF Front
<1>2. Under(Front(q), q) /\ Front(q) # q /\ Len(Front(q)) <= Len(q)
  BY <1>0, <1>1, UnderMeans
<1>3. ASSUME NEW p \in Seq(Names), Under(p, q), p # q PROVE Under(p, Front(q))
  <2>1. Len(p) \in Nat /\ Len(p) <= Len(q) /\ \A i \in 1..Len(p) : p[i] = q[i]
    BY <1>3, UnderMeans, LenProperties
  <2>2. Len(p) # Len(q)
    BY <1>3, <2>1, SeqEqual
  <2> QED
    BY <1>0, <1>1, <2>1, <2>2, UnderMeans
<1> QED
  BY <1>1, <1>2, <1>3

\* The entries of a directory.
LEMMA EntryIsBelow ==
  ASSUME NEW p \in Seq(Names), NEW n \in Names
  PROVE  /\ p \o <<n>> \in Seq(Names) /\ p \o <<n>> # Core /\ Front(p \o <<n>>) = p
         /\ Under(p, p \o <<n>>) /\ p \o <<n>> # p
         /\ \A m \in Names : p \o <<m>> = p \o <<n>> => m = n
<1>0. Len(p) \in Nat /\ <<n>> \in Seq(Names) /\ Len(<<n>>) = 1
  BY LenProperties
<1>1. ASSUME NEW m \in Names
      PROVE  /\ p \o <<m>> \in Seq(Names) /\ Len(p \o <<m>>) = Len(p) + 1
             /\ \A i \in 1..Len(p) : (p \o <<m>>)[i] = p[i]
             /\ (p \o <<m>>)[Len(p) + 1] = m
  BY <1>0
<1>2. p \o <<n>> # Core /\ p \o <<n>> # p /\ Under(p, p \o <<n>>)
  <2>1. Len(p \o <<n>>) # 0 /\ Len(p \o <<n>>) # Len(p)
    BY <1>0, <1>1
  <2>2. Len(p) <= Len(p \o <<n>>) /\ \A i \in 1..Len(p) : p[i] = (p \o <<n>>)[i]
    BY <1>0, <1>1
  <2>3. Under(p, p \o <<n>>)
    BY <1>1, <2>2, UnderMeans
  <2> QED
    BY <2>1, <2>3, EmptySeq DEF Core
<1>3. Front(p \o <<n>>) = p
  <2>1. /\ Front(p \o <<n>>) \in Seq(Names) /\ Len(Front(p \o <<n>>)) = Len(p)
        /\ \A i \in 1..Len(p) : Front(p \o <<n>>)[i] = p[i]
    BY <1>0, <1>1 DEF Front
  <2> QED
    BY <2>1, SeqEqual
<1> QED
  BY <1>1, <1>2, <1>3

\* Between a directory and what is below it is one of its entries.
LEMMA EntryBetween ==
  ASSUME NEW p \in Seq(Names), NEW q \in Seq(Names), Under(p, q), p # q
  PROVE  \E n \in Names : Under(p \o <<n>>, q) /\ Len(p \o <<n>>) <= Len(q)
<1>0. /\ Len(p) \in Nat /\ Len(q) \in Nat
      /\ Len(p) <= Len(q) /\ \A i \in 1..Len(p) : p[i] = q[i]
  BY LenProperties, UnderMeans
<1>1. Len(p) # Len(q)
  BY <1>0, SeqEqual
<1> DEFINE n == q[Len(p) + 1]
<1>2. n \in Names
  BY <1>0, <1>1
<1>3. /\ p \o <<n>> \in Seq(Names) /\ Len(p \o <<n>>) = Len(p) + 1
      /\ \A i \in 1..Len(p) : (p \o <<n>>)[i] = p[i]
      /\ (p \o <<n>>)[Len(p) + 1] = n
  BY <1>0, <1>2
<1>4. \A i \in 1..Len(p) + 1 : (p \o <<n>>)[i] = q[i]
  BY <1>0, <1>3
<1>5. Under(p \o <<n>>, q)
  <2>1. Len(p \o <<n>>) <= Len(q) /\ \A i \in 1..Len(p \o <<n>>) : (p \o <<n>>)[i] = q[i]
    BY <1>0, <1>1, <1>3, <1>4
  <2> QED
    BY <1>3, <2>1, UnderMeans
<1> QED
  BY <1>0, <1>1, <1>2, <1>3, <1>5

\* A path below p, as it is called below q.
As(p, q, s) == q \o Rest(p, s)

LEMMA RestOfPath ==
  ASSUME NEW p \in Seq(Names), NEW s \in Seq(Names), Under(p, s)
  PROVE  /\ Rest(p, s) \in Seq(Names) /\ Len(Rest(p, s)) = Len(s) - Len(p)
         /\ \A i \in 1..Len(s) - Len(p) : Rest(p, s)[i] = s[Len(p) + i]
<1> DEFINE m == Len(p) + 1
           n == Len(s)
<1>1. /\ m \in Nat /\ m > 0 /\ n \in Nat /\ m - 1 = Len(p) /\ n - m + 1 = n - Len(p)
      /\ m <= n + 1
  BY UnderMeans, LenProperties
<1>2. \A i \in m..n : s[i] \in Names
  BY <1>1
<1>3. /\ SubSeq(s, m, n) \in Seq(Names)
      /\ Len(SubSeq(s, m, n)) = IF m <= n THEN n - m + 1 ELSE 0
      /\ \A i \in 1..n - m + 1 : SubSeq(s, m, n)[i] = s[m + i - 1]
  <2> HIDE DEF m, n
  <2> QED
    BY <1>1, <1>2, SubSeqProperties
<1>4. Len(SubSeq(s, m, n)) = n - m + 1 /\ \A i \in 1..n - m + 1 : SubSeq(s, m, n)[i] = s[m - 1 + i]
  <2> HIDE DEF m, n
  <2>1. (~(m <= n) => n - m + 1 = 0) /\ \A i \in 1..n - m + 1 : m + i - 1 = m - 1 + i
    BY <1>1
  <2> QED
    BY <1>1, <1>3, <2>1
<1> QED
  BY <1>1, <1>3, <1>4 DEF Rest

LEMMA NamesOfAs ==
  ASSUME NEW p \in Seq(Names), NEW q \in Seq(Names), NEW s \in Seq(Names), Under(p, s)
  PROVE  /\ As(p, q, s) \in Seq(Names) /\ Len(As(p, q, s)) = Len(q) + (Len(s) - Len(p))
         /\ \A i \in 1..Len(q) : As(p, q, s)[i] = q[i]
         /\ \A i \in 1..Len(s) - Len(p) : As(p, q, s)[Len(q) + i] = s[Len(p) + i]
<1>1. /\ Len(p) \in Nat /\ Len(q) \in Nat /\ Len(s) \in Nat /\ Len(p) <= Len(s)
  BY UnderMeans, LenProperties
<1> DEFINE r == Rest(p, s)
<1>2. /\ r \in Seq(Names) /\ Len(r) = Len(s) - Len(p)
      /\ \A i \in 1..Len(s) - Len(p) : r[i] = s[Len(p) + i]
  BY RestOfPath
<1> HIDE DEF r
<1>3. /\ q \o r \in Seq(Names) /\ Len(q \o r) = Len(q) + Len(r)
      /\ \A i \in 1..Len(q) + Len(r) : (q \o r)[i] = IF i <= Len(q) THEN q[i] ELSE r[i - Len(q)]
  BY <1>2, ConcatProperties
<1>4. \A i \in 1..Len(q) : (q \o r)[i] = q[i]
  BY <1>1, <1>2, <1>3
<1>5. ASSUME NEW i \in 1..Len(s) - Len(p) PROVE (q \o r)[Len(q) + i] = s[Len(p) + i]
  <2>1. /\ Len(q) + i \in 1..Len(q) + Len(r) /\ ~(Len(q) + i <= Len(q)) /\ Len(q) + i - Len(q) = i
    BY <1>1, <1>2
  <2> QED
    BY <1>2, <1>3, <2>1
<1> QED
  BY <1>2, <1>3, <1>4, <1>5 DEF As, r

\* Renaming paths keeps their order, and what is different.
LEMMA AsKeeps ==
  ASSUME NEW p \in Seq(Names), NEW q \in Seq(Names), NEW s \in Seq(Names), Under(p, s)
  PROVE  /\ Under(q, As(p, q, s)) /\ As(p, q, p) = q
         /\ \A x \in Seq(Names) : Under(p, x) /\ As(p, q, x) = As(p, q, s) => x = s
         /\ \A x \in Seq(Names) : Under(p, x) /\ Under(x, s) => Under(As(p, q, x), As(p, q, s))
         /\ \A n \in Names : As(p, q, s \o <<n>>) = As(p, q, s) \o <<n>>
<1>0. Len(p) \in Nat /\ Len(q) \in Nat /\ Len(s) \in Nat /\ Len(p) <= Len(s) /\ Under(p, p)
  BY UnderMeans, LenProperties, UnderOrders
<1>1. Under(q, As(p, q, s))
  <2>1. /\ As(p, q, s) \in Seq(Names) /\ Len(As(p, q, s)) = Len(q) + (Len(s) - Len(p))
        /\ \A i \in 1..Len(q) : As(p, q, s)[i] = q[i]
    BY NamesOfAs
  <2>2. Len(q) <= Len(As(p, q, s)) /\ \A i \in 1..Len(q) : q[i] = As(p, q, s)[i]
    BY <1>0, <2>1
  <2> QED
    BY <2>1, <2>2, UnderMeans
<1>2. As(p, q, p) = q
  <2>1. /\ As(p, q, p) \in Seq(Names) /\ Len(As(p, q, p)) = Len(q)
        /\ \A i \in 1..Len(q) : As(p, q, p)[i] = q[i]
    <3>1. /\ As(p, q, p) \in Seq(Names) /\ Len(As(p, q, p)) = Len(q) + (Len(p) - Len(p))
          /\ \A i \in 1..Len(q) : As(p, q, p)[i] = q[i]
      BY <1>0, NamesOfAs
    <3> QED
      BY <1>0, <3>1
  <2> QED
    BY <2>1, SeqEqual
<1>3. ASSUME NEW x \in Seq(Names), Under(p, x), As(p, q, x) = As(p, q, s) PROVE x = s
  <2>0. /\ Len(x) \in Nat /\ Len(p) <= Len(x)
        /\ Len(As(p, q, x)) = Len(q) + (Len(x) - Len(p))
        /\ \A i \in 1..Len(x) - Len(p) : As(p, q, x)[Len(q) + i] = x[Len(p) + i]
        /\ Len(As(p, q, s)) = Len(q) + (Len(s) - Len(p))
        /\ \A i \in 1..Len(s) - Len(p) : As(p, q, s)[Len(q) + i] = s[Len(p) + i]
    BY <1>3, NamesOfAs, UnderMeans, LenProperties
  <2>1. Len(x) \in Nat /\ Len(p) <= Len(x) /\ Len(x) = Len(s)
    BY <1>0, <1>3, <2>0
  <2>2. \A i \in 1..Len(s) - Len(p) : x[Len(p) + i] = s[Len(p) + i]
    BY <1>3, <2>0, <2>1
  <2>3. \A i \in 1..Len(p) : x[i] = s[i]
    BY <1>0, <1>3, UnderMeans
  <2>4. ASSUME NEW i \in 1..Len(x), i > Len(p) PROVE x[i] = s[i]
    <3>1. i - Len(p) \in 1..Len(s) - Len(p) /\ Len(p) + (i - Len(p)) = i
      BY <1>0, <2>1, <2>4
    <3> QED
      BY <2>2, <3>1
  <2>5. \A i \in 1..Len(x) : x[i] = s[i]
    BY <1>0, <2>1, <2>3, <2>4
  <2> QED
    BY <2>1, <2>5, SeqEqual
<1>4. ASSUME NEW x \in Seq(Names), Under(p, x), Under(x, s) PROVE Under(As(p, q, x), As(p, q, s))
  <2>1. /\ Len(x) \in Nat /\ Len(p) <= Len(x) /\ Len(x) <= Len(s)
        /\ \A i \in 1..Len(x) : x[i] = s[i]
    BY <1>4, UnderMeans, LenProperties
  <2>2. /\ As(p, q, x) \in Seq(Names) /\ Len(As(p, q, x)) = Len(q) + (Len(x) - Len(p))
        /\ \A i \in 1..Len(q) : As(p, q, x)[i] = q[i]
        /\ \A i \in 1..Len(x) - Len(p) : As(p, q, x)[Len(q) + i] = x[Len(p) + i]
    BY <1>4, NamesOfAs
  <2>3. /\ As(p, q, s) \in Seq(Names) /\ Len(As(p, q, s)) = Len(q) + (Len(s) - Len(p))
        /\ \A i \in 1..Len(q) : As(p, q, s)[i] = q[i]
        /\ \A i \in 1..Len(s) - Len(p) : As(p, q, s)[Len(q) + i] = s[Len(p) + i]
    BY NamesOfAs
  <2>4. ASSUME NEW i \in 1..Len(q) + (Len(x) - Len(p)) PROVE As(p, q, x)[i] = As(p, q, s)[i]
    <3>1. CASE i <= Len(q)
      BY <1>0, <2>2, <2>3, <3>1
    <3>2. CASE i > Len(q)
      <4>1. /\ i - Len(q) \in 1..Len(x) - Len(p) /\ i - Len(q) \in 1..Len(s) - Len(p)
            /\ Len(q) + (i - Len(q)) = i /\ Len(p) + (i - Len(q)) \in 1..Len(x)
        BY <1>0, <2>1, <3>2
      <4> QED
        BY <2>1, <2>2, <2>3, <4>1
    <3> QED
      BY <1>0, <3>1, <3>2
  <2>5. Len(As(p, q, x)) <= Len(As(p, q, s))
    BY <1>0, <2>1, <2>2, <2>3
  <2> QED
    BY <2>2, <2>3, <2>4, <2>5, UnderMeans
<1>5. ASSUME NEW n \in Names PROVE As(p, q, s \o <<n>>) = As(p, q, s) \o <<n>>
  <2>1. /\ s \o <<n>> \in Seq(Names) /\ Under(p, s \o <<n>>)
    BY EntryIsBelow, UnderOrders
  <2>2. Rest(p, s) \in Seq(Names) /\ <<n>> \in Seq(Names)
    BY RestOfPath
  <2>3. Rest(p, s \o <<n>>) = Rest(p, s) \o <<n>>
    <3>1. /\ Len(s \o <<n>>) = Len(s) + 1 /\ \A i \in 1..Len(s) : (s \o <<n>>)[i] = s[i]
          /\ (s \o <<n>>)[Len(s) + 1] = n
      BY <1>0
    <3>2. /\ Rest(p, s \o <<n>>) \in Seq(Names)
          /\ Len(Rest(p, s \o <<n>>)) = Len(s) + 1 - Len(p)
          /\ \A i \in 1..Len(s) + 1 - Len(p) :
               Rest(p, s \o <<n>>)[i] = (s \o <<n>>)[Len(p) + i]
      <4>1. /\ Rest(p, s \o <<n>>) \in Seq(Names)
            /\ Len(Rest(p, s \o <<n>>)) = Len(s \o <<n>>) - Len(p)
            /\ \A i \in 1..Len(s \o <<n>>) - Len(p) :
                 Rest(p, s \o <<n>>)[i] = (s \o <<n>>)[Len(p) + i]
        BY <2>1, RestOfPath
      <4>2. Len(s \o <<n>>) - Len(p) = Len(s) + 1 - Len(p)
        BY <1>0, <3>1
      <4> QED
        BY <4>1, <4>2, Zenon
    <3>3. /\ Len(Rest(p, s)) = Len(s) - Len(p)
          /\ \A i \in 1..Len(s) - Len(p) : Rest(p, s)[i] = s[Len(p) + i]
      BY RestOfPath
    <3>4. /\ Rest(p, s) \o <<n>> \in Seq(Names)
          /\ Len(Rest(p, s) \o <<n>>) = Len(s) - Len(p) + 1
          /\ \A i \in 1..Len(s) - Len(p) : (Rest(p, s) \o <<n>>)[i] = Rest(p, s)[i]
          /\ (Rest(p, s) \o <<n>>)[Len(s) - Len(p) + 1] = n
      BY <1>0, <2>2, <3>3
    <3>5. ASSUME NEW i \in 1..Len(s) + 1 - Len(p)
          PROVE  Rest(p, s \o <<n>>)[i] = (Rest(p, s) \o <<n>>)[i]
      <4>1. CASE i <= Len(s) - Len(p)
        <5>1. i \in 1..Len(s) - Len(p) /\ Len(p) + i \in 1..Len(s)
          BY <1>0, <4>1
        <5> QED
          BY <3>1, <3>2, <3>3, <3>4, <5>1
      <4>2. CASE ~(i <= Len(s) - Len(p))
        <5>0. i \in Int /\ i <= Len(s) + 1 - Len(p) /\ i > Len(s) - Len(p)
          BY <1>0, <4>2
        <5>1. i = Len(s) - Len(p) + 1 /\ Len(p) + i = Len(s) + 1
          BY <1>0, <5>0
        <5> QED
          BY <3>1, <3>2, <3>4, <5>1
      <4> QED
        BY <4>1, <4>2
    <3>6. Len(Rest(p, s \o <<n>>)) = Len(Rest(p, s) \o <<n>>)
      BY <1>0, <3>2, <3>4
    <3> QED
      BY <3>2, <3>4, <3>5, <3>6, SeqEqual
  <2> QED
    <3>1. (q \o Rest(p, s)) \o <<n>> = q \o (Rest(p, s) \o <<n>>)
      BY <2>2, ConcatAssociative
    <3> QED
      BY <2>3, <3>1 DEF As
<1> QED
  BY <1>1, <1>2, <1>3, <1>4, <1>5
-----------------------------------------------------------------------------
(* Trees.                                                                  *)

LEMMA PathFacts ==
  /\ \A p \in FilePaths : p \in Seq(Names)
  /\ Core \in FilePaths /\ Below \subseteq FilePaths
  /\ \A q \in Below : Front(q) \in FilePaths
  /\ \A p \in Seq(Names), q \in FilePaths : Under(p, q) => p \in FilePaths
<1>1. \A p \in FilePaths : p \in Seq(Names) /\ Len(p) \in Nat
  BY PathsAreSequences, LenProperties
<1>2. Core \in FilePaths
  <2>1. Core \in Seq(Names) /\ Len(Core) = 0 /\ 0 <= MaxDepth
    BY EmptySeq, FilesAssumption DEF Core
  <2> QED
    BY <2>1, PathsAreSequences
<1>3. ASSUME NEW p \in Seq(Names), NEW q \in FilePaths, Under(p, q) PROVE p \in FilePaths
  <2>1. Len(p) \in Nat /\ Len(p) <= Len(q) /\ Len(q) <= MaxDepth /\ Len(q) \in Nat
    BY <1>1, <1>3, UnderMeans, PathsAreSequences, LenProperties
  <2> QED
    BY <2>1, PathsAreSequences, FilesAssumption
<1>4. ASSUME NEW q \in Below PROVE Front(q) \in FilePaths
  BY <1>1, <1>3, FrontIsAbove DEF Below
<1> QED
  BY <1>1, <1>2, <1>3, <1>4 DEF Below

\* Making the directories down to p adds nothing but directories, and nothing if
\* p is one.
LEMMA DirsMade ==
  ASSUME NEW t \in Trees, NEW p \in FilePaths,
         \A q \in FilePaths : Under(q, p) => t[q] \notin Contents
  PROVE  /\ WithDirs(t, p) \in Trees
         /\ \A q \in FilePaths : Under(q, p) => WithDirs(t, p)[q] = "dir"
         /\ \A q \in FilePaths : ~Under(q, p) \/ t[q] # "none" => WithDirs(t, p)[q] = t[q]
         /\ t[p] = "dir" => WithDirs(t, p) = t
<1>0. /\ t \in [FilePaths -> {"none", "dir"} \cup Contents]
      /\ \A x \in FilePaths : t[x] # "none" =>
           \A q \in FilePaths : Under(q, x) /\ q # x => t[q] = "dir"
  BY DEF Trees
<1> DEFINE u == WithDirs(t, p)
<1>1. /\ u \in [FilePaths -> {"none", "dir"} \cup Contents]
      /\ \A q \in FilePaths : u[q] = IF Under(q, p) /\ t[q] = "none" THEN "dir" ELSE t[q]
  BY <1>0 DEF WithDirs
<1>2. \A q \in FilePaths : Under(q, p) => u[q] = "dir"
  BY <1>0, <1>1
<1> HIDE DEF u
<1>3. ASSUME NEW x \in FilePaths, u[x] # "none", NEW q \in FilePaths, Under(q, x), q # x
      PROVE  u[q] = "dir"
  <2>1. CASE t[x] # "none"
    BY <1>0, <1>1, <1>3, <2>1
  <2>2. CASE t[x] = "none"
    <3>1. Under(x, p)
      BY <1>1, <1>3, <2>2
    <3>2. Under(q, p)
      BY <1>3, <3>1, UnderOrders, PathFacts
    <3> QED
      BY <1>2, <3>2
  <2> QED
    BY <2>1, <2>2
<1>4. u \in Trees
  BY <1>1, <1>3 DEF Trees
<1>5. ASSUME t[p] = "dir" PROVE u = t
  <2>1. \A q \in FilePaths : Under(q, p) => t[q] = "dir"
    BY <1>0, <1>5
  <2>2. \A q \in FilePaths : u[q] = t[q]
    BY <1>1, <2>1
  <2> QED
    BY <1>0, <1>1, <2>2
<1> QED
  BY <1>1, <1>2, <1>4, <1>5 DEF u

\* A file may be written where no directory is, in a directory.
LEMMA FileWritten ==
  ASSUME NEW t \in Trees, NEW q \in Below, t[Front(q)] = "dir", t[q] # "dir", NEW x \in Contents
  PROVE  [t EXCEPT ![q] = x] \in Trees
<1>0. /\ t \in [FilePaths -> {"none", "dir"} \cup Contents]
      /\ \A y \in FilePaths : t[y] # "none" =>
           \A z \in FilePaths : Under(z, y) /\ z # y => t[z] = "dir"
  BY DEF Trees
<1>1. q \in FilePaths /\ Front(q) \in FilePaths /\ q \in Seq(Names) /\ q # Core
  BY PathFacts DEF Below
<1> DEFINE u == [t EXCEPT ![q] = x]
<1>2. /\ u \in [FilePaths -> {"none", "dir"} \cup Contents]
      /\ u[q] = x /\ \A y \in FilePaths : y # q => u[y] = t[y]
  BY <1>0, <1>1
<1> HIDE DEF u
<1>3. ASSUME NEW y \in FilePaths, u[y] # "none", NEW z \in FilePaths, Under(z, y), z # y
      PROVE  u[z] = "dir"
  <2>1. CASE y = q
    <3>1. Under(z, Front(q))
      BY <1>1, <1>3, <2>1, FrontIsAbove, PathFacts
    <3>2. t[z] = "dir"
      BY <1>0, <1>1, <3>1
    <3> QED
      BY <1>2, <1>3, <2>1, <3>2
  <2>2. CASE y # q
    BY <1>0, <1>2, <1>3, <2>2
  <2> QED
    BY <2>1, <2>2
<1> QED
  BY <1>2, <1>3 DEF Trees, u

\* What is removed is removed with what is below it.
LEMMA Removed ==
  ASSUME NEW t \in Trees, NEW p \in FilePaths
  PROVE  [q \in FilePaths |-> IF Under(p, q) THEN "none" ELSE t[q]] \in Trees
<1>0. /\ t \in [FilePaths -> {"none", "dir"} \cup Contents]
      /\ \A y \in FilePaths : t[y] # "none" =>
           \A z \in FilePaths : Under(z, y) /\ z # y => t[z] = "dir"
  BY DEF Trees
<1> DEFINE u == [q \in FilePaths |-> IF Under(p, q) THEN "none" ELSE t[q]]
<1>1. /\ u \in [FilePaths -> {"none", "dir"} \cup Contents]
      /\ \A q \in FilePaths : u[q] = IF Under(p, q) THEN "none" ELSE t[q]
  BY <1>0
<1> HIDE DEF u
<1>2. ASSUME NEW y \in FilePaths, u[y] # "none", NEW z \in FilePaths, Under(z, y), z # y
      PROVE  u[z] = "dir"
  <2>1. ~Under(p, y) /\ t[y] # "none"
    BY <1>1, <1>2
  <2>2. ~Under(p, z)
    BY <1>2, <2>1, UnderOrders, PathFacts
  <2> QED
    BY <1>0, <1>1, <1>2, <2>1, <2>2
<1> QED
  BY <1>1, <1>2 DEF Trees, u

\* A renaming that rename(2) accepts makes a tree of a tree.
LEMMA RenamedTree ==
  ASSUME NEW t \in Trees, NEW p \in FilePaths, NEW q \in FilePaths, CanRename(t, p, q)
  PROVE  Renamed(t, p, q) \in Trees
<1>0. /\ t \in [FilePaths -> {"none", "dir"} \cup Contents]
      /\ \A y \in FilePaths : t[y] # "none" =>
           \A z \in FilePaths : Under(z, y) /\ z # y => t[z] = "dir"
  BY DEF Trees
<1>1. CASE p = q
  BY <1>1 DEF Renamed
<1>2. CASE p # q
  <2> DEFINE u == Renamed(t, p, q)
  <2>1. /\ q # Core /\ t[Front(q)] = "dir" /\ ~Under(p, q) /\ Front(q) \in FilePaths
        /\ p \in Seq(Names) /\ q \in Seq(Names)
    BY <1>2, PathFacts DEF CanRename, Below
  <2>2. \A s \in FilePaths :
          u[s] = IF Under(q, s) THEN (IF As(q, p, s) \in FilePaths THEN t[As(q, p, s)] ELSE "none")
                 ELSE IF Under(p, s) THEN "none" ELSE t[s]
    BY <1>2 DEF Renamed, As
  <2>3. u \in [FilePaths -> {"none", "dir"} \cup Contents]
    BY <1>0, <1>2 DEF Renamed
  <2> HIDE DEF u
  <2>4. ASSUME NEW y \in FilePaths, u[y] # "none", NEW z \in FilePaths, Under(z, y), z # y
        PROVE  u[z] = "dir"
    <3>1. y \in Seq(Names) /\ z \in Seq(Names)
      BY PathFacts
    <3>2. CASE Under(q, y) /\ Under(q, z)
      <4>1. As(q, p, y) \in FilePaths /\ t[As(q, p, y)] # "none"
        BY <2>2, <2>4, <3>2
      <4>2. /\ Under(As(q, p, z), As(q, p, y)) /\ As(q, p, z) # As(q, p, y)
            /\ As(q, p, z) \in Seq(Names)
        BY <2>1, <2>4, <3>1, <3>2, AsKeeps, NamesOfAs
      <4>3. As(q, p, z) \in FilePaths
        BY <4>1, <4>2, PathFacts
      <4>4. t[As(q, p, z)] = "dir"
        BY <1>0, <4>1, <4>2, <4>3
      <4> QED
        BY <2>2, <3>2, <4>3, <4>4
    <3>3. CASE Under(q, y) /\ ~Under(q, z)
      <4>1. Under(z, q) /\ z # q
        BY <2>1, <2>4, <3>1, <3>3, UnderOrders
      <4>2. Under(z, Front(q))
        BY <2>1, <3>1, <4>1, FrontIsAbove
      <4>3. t[z] = "dir"
        BY <1>0, <2>1, <4>2
      <4>4. ~Under(p, z)
        BY <2>1, <3>1, <4>1, UnderOrders
      <4> QED
        BY <2>2, <3>3, <4>3, <4>4
    <3>4. CASE ~Under(q, y)
      <4>1. ~Under(p, y) /\ t[y] # "none"
        BY <2>2, <2>4, <3>4
      <4>2. ~Under(p, z) /\ ~Under(q, z)
        BY <2>1, <2>4, <3>1, <3>4, <4>1, UnderOrders
      <4> QED
        BY <1>0, <2>2, <2>4, <4>1, <4>2
    <3> QED
      BY <3>2, <3>3, <3>4
  <2> QED
    BY <2>3, <2>4 DEF Trees, u
<1> QED
  BY <1>1, <1>2
-----------------------------------------------------------------------------
(* The steps.                                                              *)

Knowledge == [FilePaths -> {"none", "dir", "touched"} \cup Contents]

FilesTyped ==
  /\ fs \in Trees /\ changes \in 0..MaxChanges
  /\ change \in [FileCalls -> FileChanges] /\ known \in [FileCalls -> Knowledge]
  /\ \A r \in FileCalls : change[r].stack # <<>> => change[r].op = "copy" /\ change[r].todo # <<>>

\* A step that is not one of call r: what r does not see touched is as it was.
OfOthers(r) ==
  /\ change'[r] = change[r]
  /\ \A p \in FilePaths : known'[r][p] # "touched" => known'[r][p] = known[r][p] /\ fs'[p] = fs[p]

OthersBut(r) == \A s \in FileCalls \ {r} : OfOthers(s)

\* A source that is begun with, by a call that then knows what is there.
Begun(r) ==
  /\ change[r].stack = <<>>
  /\ change[r].op = "copy" /\ change[r].todo # <<>> => known[r] = fs

LEMMA SourcesNamePaths ==
  ASSUME FilesTyped, NEW r \in FileCalls, change[r].todo # <<>>
  PROVE  /\ Source(r) \in Below /\ Source(r) \in FilePaths /\ Source(r) \in Seq(Names)
         /\ Source(r) # Core
         /\ Target(r) \in Seq(Names) /\ Target(r) # Core
         /\ Tail(change[r].todo) \in Seq(Below)
<1>1. change[r].todo \in Seq(Below) /\ change[r].dest \in FilePaths
  BY DEF FilesTyped, FileChanges
<1>2. Head(change[r].todo) \in Below /\ Tail(change[r].todo) \in Seq(Below)
  BY <1>1
<1>3. Source(r) \in FilePaths /\ Source(r) \in Seq(Names) /\ Source(r) # Core
  BY <1>2, PathFacts DEF Source, Below
<1>4. Last(Source(r)) \in Names
  <2>1. Len(Source(r)) \in 1..Len(Source(r))
    BY <1>3, EmptySeq, LenProperties DEF Core
  <2> QED
    BY <1>3, <2>1, ElementOfSeq DEF Last
<1>5. change[r].dest \in Seq(Names)
  BY <1>1, PathFacts
<1>6. Target(r) \in Seq(Names) /\ Target(r) # Core
  BY <1>4, <1>5, EntryIsBelow DEF Target
<1> QED
  BY <1>1, <1>2, <1>3, <1>6 DEF Source

\* The directories that may be made are, and nothing else changes.
LEMMA MadeDirs ==
  ASSUME fs \in Trees, NEW p, CanMakeDirs(p)
  PROVE  /\ p \in FilePaths /\ WithDirs(fs, p) \in Trees /\ WithDirs(fs, p)[p] = "dir"
         /\ \A q \in FilePaths :
              \/ WithDirs(fs, p)[q] = fs[q]
              \/ Under(q, p) /\ fs[q] = "none" /\ WithDirs(fs, p)[q] = "dir"
<1>1. p \in FilePaths /\ \A q \in FilePaths : Under(q, p) => fs[q] \notin Contents
  BY DEF CanMakeDirs, IsFile
<1>2. /\ WithDirs(fs, p) \in Trees
      /\ \A q \in FilePaths : Under(q, p) => WithDirs(fs, p)[q] = "dir"
      /\ \A q \in FilePaths : ~Under(q, p) \/ fs[q] # "none" => WithDirs(fs, p)[q] = fs[q]
  BY <1>1, DirsMade
<1>3. Under(p, p)
  BY <1>1, UnderOrders, PathFacts
<1> QED
  BY <1>1, <1>2, <1>3

LEMMA TriedDirs ==
  ASSUME fs \in Trees, NEW p
  PROVE  TryMakeDirs(p) \in Trees
BY MadeDirs DEF TryMakeDirs

\* What a file written by a copy leaves.
LEMMA CopiedFile ==
  ASSUME fs \in Trees, NEW p, NEW q \in Seq(Names), q # Core, CanCopy(p, q), NEW x \in Contents
  PROVE  LET u == [WithDirs(fs, Front(q)) EXCEPT ![q] = x] IN
         /\ q \in FilePaths /\ p \in FilePaths /\ fs[p] \in Contents /\ u \in Trees /\ u[q] = x
         /\ \A s \in FilePaths :
              s # q => u[s] = fs[s] \/ (Under(s, q) /\ fs[s] = "none" /\ u[s] = "dir")
<1> DEFINE t == WithDirs(fs, Front(q))
           u == [t EXCEPT ![q] = x]
<1>1. /\ q \in FilePaths /\ q \in Below /\ p \in FilePaths /\ fs[p] \in Contents
      /\ fs[q] # "dir" /\ CanMakeDirs(Front(q))
  BY DEF CanCopy, Below, IsFile
<1>2. ~Under(q, Front(q)) /\ Front(q) \in Seq(Names) /\ Under(Front(q), q)
  BY FrontIsAbove, UnderOrders
<1>3. /\ t \in Trees /\ t[Front(q)] = "dir"
      /\ \A s \in FilePaths :
           t[s] = fs[s] \/ (Under(s, Front(q)) /\ fs[s] = "none" /\ t[s] = "dir")
  BY <1>1, MadeDirs
<1>4. u \in Trees
  <2>1. t[q] # "dir"
    BY <1>1, <1>2, <1>3
  <2> QED
    BY <1>1, <1>3, <2>1, FileWritten
<1>5. u[q] = x /\ \A s \in FilePaths : s # q => u[s] = t[s]
  BY <1>1, <1>3 DEF Trees
<1>6. \A s \in FilePaths : Under(s, Front(q)) => Under(s, q)
  BY <1>2, UnderOrders, PathFacts
<1> HIDE DEF t, u
<1>7. \A s \in FilePaths :
        s # q => u[s] = fs[s] \/ (Under(s, q) /\ fs[s] = "none" /\ u[s] = "dir")
  BY <1>3, <1>5, <1>6
<1> QED
  BY <1>1, <1>4, <1>5, <1>7 DEF u, t

\* What a call's step does to the calls.
LEMMA Advances ==
  ASSUME FilesTyped, fs' \in Trees, NEW r \in FileCalls, NEW c \in FileChanges,
         NEW k \in Knowledge, NEW w, Advance(r, c, k, w)
  PROVE  /\ change' \in [FileCalls -> FileChanges] /\ known' \in [FileCalls -> Knowledge]
         /\ change'[r] = c /\ known'[r] = k /\ OthersBut(r)
<1>1. /\ change \in [FileCalls -> FileChanges] /\ known \in [FileCalls -> Knowledge]
      /\ fs \in Trees
  BY DEF FilesTyped
<1>2. change' = [change EXCEPT ![r] = c]
  BY DEF Advance
<1>3. known' = [s \in FileCalls |-> IF s = r THEN k ELSE Noted(s, w)]
  BY DEF Advance
<1>4. \A s \in FileCalls : Noted(s, w) \in Knowledge
  BY <1>1 DEF Noted, Knowledge
<1>5. known' \in [FileCalls -> Knowledge] /\ known'[r] = k
  BY <1>3, <1>4
<1>6. ASSUME NEW s \in FileCalls \ {r} PROVE OfOthers(s)
  <2>1. change'[s] = change[s] /\ known'[s] = Noted(s, w)
    BY <1>1, <1>2, <1>3
  <2>2. \A p \in FilePaths :
          known'[s][p] = IF p \in w \/ fs'[p] # fs[p] THEN "touched" ELSE known[s][p]
    BY <2>1 DEF Noted
  <2> QED
    BY <2>1, <2>2 DEF OfOthers
<1> QED
  BY <1>1, <1>2, <1>5, <1>6 DEF OthersBut

LEMMA Freshly ==
  ASSUME fs' \in Trees, NEW c
  PROVE  Fresh(c) \in Knowledge /\ (c.op = "copy" /\ c.todo # <<>> => Fresh(c) = fs')
BY DEF Fresh, Knowledge, Trees, Unknown

\* A call is done with one of its sources.
LEMMA NextOne ==
  ASSUME FilesTyped, fs' \in Trees, NEW r \in FileCalls, change[r].todo # <<>>,
         NEW done \in BOOLEAN, NEW w, NextSource(r, done, w)
  PROVE  /\ FilesTyped' /\ OthersBut(r) /\ Begun(r)' /\ change'[r].op = change[r].op
         /\ change'[r].reported = IF done THEN change[r].reported \cup {Source(r)}
                                  ELSE change[r].reported
<1>1. /\ change[r] \in FileChanges /\ Source(r) \in FilePaths
      /\ Tail(change[r].todo) \in Seq(Below) /\ <<>> \in Seq(Frames)
  BY SourcesNamePaths, EmptySeq DEF FilesTyped
<1>2. PICK told : told = IF done THEN change[r].reported \cup {Source(r)} ELSE change[r].reported
  OBVIOUS
<1>3. told \in SUBSET FilePaths
  BY <1>1, <1>2 DEF FileChanges
<1>4. PICK c : c = [change[r] EXCEPT !.todo = Tail(change[r].todo), !.stack = <<>>, !.reported = told]
  OBVIOUS
<1>5. /\ c \in FileChanges /\ c.op = change[r].op /\ c.stack = <<>> /\ c.reported = told
  BY <1>1, <1>3, <1>4 DEF FileChanges
<1>6. Advance(r, c, Fresh(c), w) /\ changes' = changes
  BY <1>2, <1>4 DEF NextSource
<1>7. Fresh(c) \in Knowledge /\ (c.op = "copy" /\ c.todo # <<>> => Fresh(c) = fs')
  BY Freshly
<1>8. /\ change' \in [FileCalls -> FileChanges] /\ known' \in [FileCalls -> Knowledge]
      /\ change'[r] = c /\ known'[r] = Fresh(c) /\ OthersBut(r)
  BY <1>5, <1>6, <1>7, Advances
<1>9. FilesTyped'
  BY <1>5, <1>6, <1>8 DEF FilesTyped, OthersBut, OfOthers
<1> QED
  BY <1>2, <1>5, <1>7, <1>8, <1>9 DEF Begun

\* A call goes on with one of its sources.
LEMMA GoesOn ==
  ASSUME FilesTyped, fs' \in Trees, NEW r \in FileCalls, NEW stack \in Seq(Frames),
         stack # <<>> => change[r].op = "copy" /\ change[r].todo # <<>>,
         NEW w, Continue(r, stack, w)
  PROVE  /\ FilesTyped' /\ OthersBut(r) /\ known'[r] = known[r]
         /\ change'[r].op = change[r].op /\ change'[r].todo = change[r].todo
         /\ change'[r].dest = change[r].dest /\ change'[r].stack = stack
         /\ change'[r].reported = change[r].reported
<1>1. change[r] \in FileChanges /\ known[r] \in Knowledge
  BY DEF FilesTyped
<1>2. PICK c : c = [change[r] EXCEPT !.stack = stack]
  OBVIOUS
<1>3. /\ c \in FileChanges /\ c.op = change[r].op /\ c.todo = change[r].todo
      /\ c.dest = change[r].dest /\ c.stack = stack /\ c.reported = change[r].reported
  BY <1>1, <1>2 DEF FileChanges
<1>4. Advance(r, c, known[r], w) /\ changes' = changes
  BY <1>2 DEF Continue
<1>5. /\ change' \in [FileCalls -> FileChanges] /\ known' \in [FileCalls -> Knowledge]
      /\ change'[r] = c /\ known'[r] = known[r] /\ OthersBut(r)
  BY <1>1, <1>3, <1>4, Advances
<1>6. FilesTyped'
  BY <1>3, <1>4, <1>5 DEF FilesTyped, OthersBut, OfOthers
<1> QED
  BY <1>3, <1>5, <1>6

\* A change in one go is one of others, for every call.
LEMMA ChangesAtOnce ==
  ASSUME FilesTyped, fs' \in Trees, InBounds, NEW w, AtOnce(w)
  PROVE  FilesTyped' /\ \A r \in FileCalls : OfOthers(r)
<1>1. /\ change \in [FileCalls -> FileChanges] /\ known \in [FileCalls -> Knowledge]
      /\ fs \in Trees
  BY DEF FilesTyped
<1>2. known' = [s \in FileCalls |-> Noted(s, w)] /\ change' = change /\ changes' = changes + 1
  BY DEF AtOnce
<1>3. \A s \in FileCalls : Noted(s, w) \in Knowledge
  BY <1>1 DEF Noted, Knowledge
<1>4. ASSUME NEW s \in FileCalls PROVE OfOthers(s)
  <2>1. \A p \in FilePaths :
          known'[s][p] = IF p \in w \/ fs'[p] # fs[p] THEN "touched" ELSE known[s][p]
    BY <1>2 DEF Noted
  <2> QED
    BY <1>2, <2>1 DEF OfOthers
<1>5. changes' \in 0..MaxChanges
  BY <1>2, FilesAssumption DEF FilesTyped, InBounds
<1>6. known' \in [FileCalls -> Knowledge]
  BY <1>2, <1>3
<1> QED
  BY <1>2, <1>4, <1>5, <1>6 DEF FilesTyped

\* A call enters a directory, with all there is in it to read.
Entered(r, p, q, below) ==
  \E f \in Frames : /\ f.from = p /\ f.to = q /\ Entries(fs', p) \subseteq f.names
                    /\ change'[r].stack = <<f>> \o below

LEMMA Enters ==
  ASSUME FilesTyped, NEW r \in FileCalls, change[r].op = "copy", change[r].todo # <<>>,
         NEW p, NEW q, IsDir(p), NEW below \in Seq(Frames), Enter(r, p, q, below)
  PROVE  /\ FilesTyped' /\ OthersBut(r) /\ known'[r] = known[r]
         /\ change'[r].op = "copy" /\ change'[r].todo = change[r].todo
         /\ change'[r].dest = change[r].dest /\ change'[r].reported = change[r].reported
         /\ Entered(r, p, q, below)
<1>1. /\ CanMakeDirs(q) /\ fs' = WithDirs(fs, q) /\ fs \in Trees /\ p \in FilePaths
  BY DEF Enter, FilesTyped, IsDir
<1>2. fs' \in Trees /\ q \in FilePaths
  BY <1>1, MadeDirs
<1>3. PICK later \in SUBSET Names :
        Continue(r, <<[from |-> p, to |-> q, names |-> Entries(fs', p) \cup later]>> \o below, {})
  BY DEF Enter
<1>4. PICK f : f = [from |-> p, to |-> q, names |-> Entries(fs', p) \cup later]
  OBVIOUS
<1>5. /\ f \in Frames /\ f.from = p /\ f.to = q /\ Entries(fs', p) \subseteq f.names
  BY <1>1, <1>2, <1>4 DEF Frames, Entries
<1>6. <<f>> \o below \in Seq(Frames)
  BY <1>5
<1>7. Continue(r, <<f>> \o below, {})
  BY <1>3, <1>4
<1>8. /\ FilesTyped' /\ OthersBut(r) /\ known'[r] = known[r]
      /\ change'[r].op = change[r].op /\ change'[r].todo = change[r].todo
      /\ change'[r].dest = change[r].dest /\ change'[r].stack = <<f>> \o below
      /\ change'[r].reported = change[r].reported
  <2> DEFINE stack == <<f>> \o below
  <2> HIDE DEF stack
  <2>1. stack \in Seq(Frames) /\ Continue(r, stack, {})
    BY <1>6, <1>7 DEF stack
  <2>2. /\ FilesTyped' /\ OthersBut(r) /\ known'[r] = known[r]
        /\ change'[r].op = change[r].op /\ change'[r].todo = change[r].todo
        /\ change'[r].dest = change[r].dest /\ change'[r].stack = stack
        /\ change'[r].reported = change[r].reported
    BY <1>2, <2>1, GoesOn
  <2> QED
    BY <2>2 DEF stack
<1> QED
  BY <1>5, <1>8 DEF Entered

\* A source that fails to be copied is done with, and not reported.
LEMMA FailsTyped ==
  ASSUME FilesTyped, NEW r \in FileCalls, change[r].todo # <<>>,
         NEW p, NEW q \in Seq(Names), q # Core, CopyFails(r, p, q)
  PROVE  /\ FilesTyped' /\ OthersBut(r) /\ Begun(r)' /\ change'[r].op = change[r].op
         /\ change'[r].reported = change[r].reported
<1>1. fs \in Trees /\ NextSource(r, FALSE, {q})
  BY DEF FilesTyped, CopyFails
<1>2. CanCopy(p, q) => [WithDirs(fs, Front(q)) EXCEPT ![q] = "empty"] \in Trees
  <2>1. "empty" \in Contents
    BY DEF Contents
  <2> QED
    BY <1>1, <2>1, CopiedFile
<1>3. fs' \in Trees
  BY <1>1, <1>2, TriedDirs DEF CopyFails
<1> QED
  BY <1>1, <1>3, NextOne

\* A file that is copied.
LEMMA Copies ==
  ASSUME fs \in Trees, NEW p, NEW q \in Seq(Names), q # Core, CanCopy(p, q), CopyFile(p, q)
  PROVE  /\ fs' \in Trees /\ q \in FilePaths /\ p \in FilePaths /\ fs[p] \in Contents
         /\ p # q => fs'[q] = fs[p]
         /\ \A s \in FilePaths :
              s # q => fs'[s] = fs[s] \/ (Under(s, q) /\ fs[s] = "none" /\ fs'[s] = "dir")
<1>1. PICK x : x = IF p = q THEN "empty" ELSE fs[p]
  OBVIOUS
<1>2. x \in Contents
  BY <1>1 DEF CanCopy, IsFile, Contents
<1>3. fs' = [WithDirs(fs, Front(q)) EXCEPT ![q] = x]
  BY <1>1 DEF CopyFile
<1> DEFINE u == [WithDirs(fs, Front(q)) EXCEPT ![q] = x]
<1>4. /\ q \in FilePaths /\ p \in FilePaths /\ fs[p] \in Contents /\ u \in Trees /\ u[q] = x
      /\ \A s \in FilePaths :
           s # q => u[s] = fs[s] \/ (Under(s, q) /\ fs[s] = "none" /\ u[s] = "dir")
  BY <1>2, CopiedFile
<1>5. fs' = u /\ (p # q => x = fs[p])
  BY <1>1, <1>3
<1> HIDE DEF u
<1> QED
  BY <1>4, <1>5

\* What is on top of the directories entered.
LEMMA Tops ==
  ASSUME FilesTyped, NEW r \in FileCalls, InDir(r)
  PROVE  /\ Top(r) \in Frames /\ Tail(change[r].stack) \in Seq(Frames)
         /\ change[r].op = "copy" /\ change[r].todo # <<>>
         /\ \A n \in Top(r).names :
              LET popped == [Top(r) EXCEPT !.names = @ \ {n}] IN
              /\ popped \in Frames /\ popped.from = Top(r).from /\ popped.to = Top(r).to
              /\ popped.names = Top(r).names \ {n}
              /\ <<popped>> \o Tail(change[r].stack) \in Seq(Frames)
              /\ <<popped>> \o Tail(change[r].stack) # <<>>
<1>1. /\ change[r].stack \in Seq(Frames) /\ change[r].stack # <<>>
      /\ change[r].op = "copy" /\ change[r].todo # <<>>
  BY DEF FilesTyped, InDir, FileChanges
<1>2. Top(r) \in Frames /\ Tail(change[r].stack) \in Seq(Frames)
  BY <1>1 DEF Top
<1>3. ASSUME NEW n \in Top(r).names, NEW popped, popped = [Top(r) EXCEPT !.names = @ \ {n}]
      PROVE  /\ popped \in Frames /\ popped.from = Top(r).from /\ popped.to = Top(r).to
             /\ popped.names = Top(r).names \ {n}
             /\ <<popped>> \o Tail(change[r].stack) \in Seq(Frames)
             /\ <<popped>> \o Tail(change[r].stack) # <<>>
  <2>1. /\ popped \in Frames /\ popped.from = Top(r).from /\ popped.to = Top(r).to
        /\ popped.names = Top(r).names \ {n}
    BY <1>2, <1>3 DEF Frames
  <2>2. /\ <<popped>> \o Tail(change[r].stack) \in Seq(Frames)
        /\ Len(<<popped>> \o Tail(change[r].stack)) = Len(Tail(change[r].stack)) + 1
        /\ Len(Tail(change[r].stack)) \in Nat
    BY <1>2, <2>1, LenProperties
  <2>3. Len(<<popped>> \o Tail(change[r].stack)) # 0
    <3> DEFINE m == Len(Tail(change[r].stack))
               k == Len(<<popped>> \o Tail(change[r].stack))
    <3>1. m \in Nat /\ k = m + 1
      BY <2>2
    <3> HIDE DEF m, k
    <3>2. k # 0
      BY <3>1
    <3> QED
      BY <3>2 DEF k
  <2>4. Len(<<>>) = 0
    OBVIOUS
  <2>5. <<popped>> \o Tail(change[r].stack) # <<>>
    BY <2>3, <2>4, Zenon
  <2> QED
    BY <2>1, <2>2, <2>5
<1> QED
  BY <1>1, <1>2, <1>3

\* The steps of the copying of a source: it is done with, or goes on.
LEMMA CopyStepsTyped ==
  ASSUME FilesTyped, NEW r \in FileCalls, CopySource(r) \/ CopyEntry(r) \/ CopyReturns(r)
  PROVE  FilesTyped' /\ OthersBut(r)
<1>0. fs \in Trees /\ change[r].todo # <<>> /\ change[r].op = "copy"
  BY Tops DEF FilesTyped, CopySource, CopyEntry, CopyReturns, AtSource
<1>1. ASSUME fs' \in Trees, NEW done \in BOOLEAN, NEW w, NextSource(r, done, w)
      PROVE  FilesTyped' /\ OthersBut(r)
  BY <1>0, <1>1, NextOne
<1>2. ASSUME fs' \in Trees, NEW stack \in Seq(Frames), NEW w, Continue(r, stack, w)
      PROVE  FilesTyped' /\ OthersBut(r)
  BY <1>0, <1>2, GoesOn
<1>3. CASE CopySource(r)
  <2>1. Target(r) \in Seq(Names) /\ Target(r) # Core /\ <<>> \in Seq(Frames)
    BY <1>0, SourcesNamePaths, EmptySeq
  <2>2. CASE IsDir(Source(r)) /\ Enter(r, Source(r), Target(r), <<>>)
    BY <1>0, <2>1, <2>2, Enters
  <2>3. CASE CanCopy(Source(r), Target(r)) /\ CopyFile(Source(r), Target(r)) /\ NextSource(r, TRUE, {Target(r)})
    <3>1. fs' \in Trees
      BY <1>0, <2>1, <2>3, Copies
    <3> QED
      BY <1>1, <2>3, <3>1
  <2>4. CASE CopyFails(r, Source(r), Target(r))
    BY <1>0, <2>1, <2>4, FailsTyped
  <2> QED
    BY <1>3, <2>2, <2>3, <2>4 DEF CopySource
<1>4. CASE CopyEntry(r)
  <2>0. InDir(r)
    BY <1>4 DEF CopyEntry
  <2>1. PICK n \in Top(r).names :
          LET p == Top(r).from \o <<n>>
              q == Top(r).to \o <<n>>
              rest == <<[Top(r) EXCEPT !.names = @ \ {n}]>> \o Tail(change[r].stack)
          IN  \/ ~Exists(p) /\ fs' = fs /\ Continue(r, rest, {})
              \/ IsDir(p) /\ Enter(r, p, q, rest)
              \/ CanCopy(p, q) /\ CopyFile(p, q) /\ Continue(r, rest, {q})
              \/ CopyFails(r, p, q)
    BY <1>4 DEF CopyEntry
  <2> DEFINE p == Top(r).from \o <<n>>
             q == Top(r).to \o <<n>>
             rest == <<[Top(r) EXCEPT !.names = @ \ {n}]>> \o Tail(change[r].stack)
  <2>2. rest \in Seq(Frames) /\ Top(r) \in Frames
    BY <2>0, Tops
  <2>3. q \in Seq(Names) /\ q # Core
    <3>1. n \in Names /\ Top(r).to \in Seq(Names)
      BY <2>2, PathFacts DEF Frames
    <3> QED
      BY <3>1, EntryIsBelow
  <2> HIDE DEF p, q, rest
  <2>4. CASE fs' = fs /\ Continue(r, rest, {})
    BY <1>0, <1>2, <2>2, <2>4
  <2>5. CASE IsDir(p) /\ Enter(r, p, q, rest)
    BY <1>0, <2>2, <2>5, Enters
  <2>6. CASE CanCopy(p, q) /\ CopyFile(p, q) /\ Continue(r, rest, {q})
    <3>1. fs' \in Trees
      BY <1>0, <2>3, <2>6, Copies
    <3> QED
      BY <1>2, <2>2, <2>6, <3>1
  <2>7. CASE CopyFails(r, p, q)
    BY <1>0, <2>3, <2>7, FailsTyped
  <2> QED
    BY <2>1, <2>4, <2>5, <2>6, <2>7 DEF p, q, rest
<1>5. CASE CopyReturns(r)
  <2>1. Tail(change[r].stack) \in Seq(Frames) /\ fs' = fs
    BY <1>5, Tops DEF CopyReturns
  <2> QED
    BY <1>0, <1>1, <1>2, <1>5, <2>1 DEF CopyReturns
<1> QED
  BY <1>3, <1>4, <1>5

\* The other steps of a call: one of its sources is begun with, if it is a copy.
LEMMA SourceStepsTyped ==
  ASSUME FilesTyped, NEW r \in FileCalls, DeletePart(r) \/ DeleteSource(r) \/ MoveSource(r)
  PROVE  /\ FilesTyped' /\ OthersBut(r) /\ change[r].op # "copy"
         /\ Begun(r)' /\ change'[r].op = change[r].op
<1>0. /\ fs \in Trees /\ change[r].todo # <<>> /\ change[r].op # "copy"
      /\ Source(r) \in FilePaths /\ change[r].stack = <<>>
  BY SourcesNamePaths DEF FilesTyped, DeletePart, DeleteSource, MoveSource, AtSource
<1>1. ASSUME fs' \in Trees, NEW done \in BOOLEAN, NextSource(r, done, {})
      PROVE  FilesTyped' /\ OthersBut(r) /\ Begun(r)' /\ change'[r].op = change[r].op
  BY <1>0, <1>1, NextOne
<1>2. \A p \in FilePaths : Without(p) \in Trees
  BY <1>0, Removed DEF Without
<1>3. CASE DeletePart(r)
  <2>1. fs' \in Trees /\ Continue(r, <<>>, {}) /\ <<>> \in Seq(Frames)
    BY <1>2, <1>3, EmptySeq DEF DeletePart
  <2>2. /\ FilesTyped' /\ OthersBut(r) /\ change'[r].op = change[r].op /\ change'[r].stack = <<>>
    BY <2>1, GoesOn
  <2> QED
    BY <1>0, <2>2 DEF Begun
<1>4. CASE DeleteSource(r)
  BY <1>0, <1>1, <1>2, <1>4 DEF DeleteSource
<1>5. CASE MoveSource(r)
  <2>1. \A q \in FilePaths : CanRename(fs, Source(r), q) => Renamed(fs, Source(r), q) \in Trees
    BY <1>0, RenamedTree
  <2> QED
    BY <1>0, <1>1, <1>5, <2>1 DEF MoveSource
<1> QED
  BY <1>0, <1>3, <1>4, <1>5

LEMMA BeginsTyped ==
  ASSUME FilesTyped, NEW r \in FileCalls, NEW sources \in SourceLists, NEW dest \in DestDirs,
         NEW op \in {"delete", "copy", "move"}, BeginMany(r, op, sources, dest)
  PROVE  FilesTyped' /\ OthersBut(r) /\ Begun(r)' /\ change[r] = NoChange
<1>1. PICK c : c = [op |-> op, todo |-> sources, dest |-> dest, stack |-> <<>>, reported |-> {}]
  OBVIOUS
<1>2. c \in FileChanges /\ c.stack = <<>>
  <2>1. sources \in Seq(Below) /\ dest \in FilePaths /\ <<>> \in Seq(Frames)
    BY FilesAssumption, EmptySeq
  <2> QED
    BY <1>1, <2>1 DEF FileChanges
<1>3. /\ fs' \in Trees /\ changes' \in 0..MaxChanges /\ Advance(r, c, Fresh(c), {})
      /\ change[r] = NoChange
  <2>1. /\ fs' = IF op = "delete" THEN fs ELSE TryMakeDirs(dest)
        /\ changes < MaxChanges /\ changes' = changes + 1
    BY DEF BeginMany, MayBegin, InBounds
  <2>2. fs' \in Trees
    BY <2>1, TriedDirs DEF FilesTyped
  <2>3. changes' \in 0..MaxChanges
    BY <2>1, FilesAssumption DEF FilesTyped
  <2> QED
    BY <1>1, <2>2, <2>3 DEF BeginMany
<1>4. Fresh(c) \in Knowledge /\ (c.op = "copy" /\ c.todo # <<>> => Fresh(c) = fs')
  BY <1>3, Freshly
<1>5. /\ change' \in [FileCalls -> FileChanges] /\ known' \in [FileCalls -> Knowledge]
      /\ change'[r] = c /\ known'[r] = Fresh(c) /\ OthersBut(r)
  BY <1>2, <1>3, <1>4, Advances
<1>6. FilesTyped'
  BY <1>2, <1>3, <1>5 DEF FilesTyped, OthersBut, OfOthers
<1> QED
  BY <1>2, <1>3, <1>4, <1>5, <1>6 DEF Begun

LEMMA EndsTyped ==
  ASSUME FilesTyped, NEW r \in FileCalls, EndChange(r)
  PROVE  FilesTyped' /\ OthersBut(r) /\ Begun(r)' /\ change'[r] = NoChange
<1>1. /\ NoChange \in FileChanges /\ NoChange.stack = <<>> /\ NoChange.op # "copy"
      /\ Unknown \in Knowledge
  BY EmptySeq, PathFacts DEF NoChange, FileChanges, Unknown, Knowledge
<1>2. fs' \in Trees /\ changes' = changes /\ Advance(r, NoChange, Unknown, {})
  BY DEF EndChange, FilesTyped
<1>3. /\ change' \in [FileCalls -> FileChanges] /\ known' \in [FileCalls -> Knowledge]
      /\ change'[r] = NoChange /\ OthersBut(r)
  BY <1>1, <1>2, Advances
<1>4. FilesTyped'
  BY <1>1, <1>2, <1>3 DEF FilesTyped, OthersBut, OfOthers
<1> QED
  BY <1>1, <1>3, <1>4 DEF Begun

\* The changes in one go, and those from outside.
LEMMA OneGoTyped ==
  ASSUME FilesTyped,
         \/ \E p \in Below : \/ \E x \in Contents : WriteContent(p, x)
                             \/ MakeDirectory(p)
                             \/ \E q \in Below : RenamePath(p, q)
         \/ Outside
  PROVE  FilesTyped' /\ \A r \in FileCalls : OfOthers(r)
<1>0. fs \in Trees
  BY DEF FilesTyped
<1>1. ASSUME NEW p \in Below, NEW x \in Contents, CanWrite(p)
      PROVE  [fs EXCEPT ![p] = x] \in Trees
  BY <1>0, <1>1, FileWritten DEF CanWrite
<1>2. ASSUME NEW p \in Below, NEW x \in Contents, WriteContent(p, x)
      PROVE  FilesTyped' /\ \A r \in FileCalls : OfOthers(r)
  <2>1. "empty" \in Contents /\ CanWrite(p) /\ InBounds /\ AtOnce({p})
    BY <1>2 DEF Contents, WriteContent, MayBegin
  <2>2. fs' \in Trees
    BY <1>1, <1>2, <2>1 DEF WriteContent
  <2> QED
    BY <2>1, <2>2, ChangesAtOnce
<1>3. ASSUME NEW p \in Below, MakeDirectory(p)
      PROVE  FilesTyped' /\ \A r \in FileCalls : OfOthers(r)
  <2>1. fs' \in Trees /\ InBounds /\ AtOnce({})
    BY <1>0, <1>3, MadeDirs DEF MakeDirectory, MayBegin
  <2> QED
    BY <2>1, ChangesAtOnce
<1>4. ASSUME NEW p \in Below, NEW q \in Below, RenamePath(p, q)
      PROVE  FilesTyped' /\ \A r \in FileCalls : OfOthers(r)
  <2>1. PICK made : made = TryMakeDirs(Front(q))
    OBVIOUS
  <2>2. /\ made \in Trees /\ p \in FilePaths /\ q \in FilePaths
    BY <1>0, <2>1, TriedDirs, PathFacts
  <2>3. /\ fs' \in {made} \cup (IF CanRename(made, p, q) THEN {Renamed(made, p, q)} ELSE {})
        /\ InBounds /\ AtOnce({})
    BY <1>4, <2>1 DEF RenamePath, MayBegin
  <2>4. fs' \in Trees
    BY <2>2, <2>3, RenamedTree
  <2> QED
    BY <2>3, <2>4, ChangesAtOnce
<1>5. CASE Outside
  <2>1. CASE \E p \in FilePaths : Exists(p) /\ fs' = Without(p) /\ AtOnce({})
    <3>1. fs' \in Trees /\ InBounds /\ AtOnce({})
      BY <1>0, <1>5, <2>1, Removed DEF Without, Outside
    <3> QED
      BY <3>1, ChangesAtOnce
  <2>2. CASE \E p \in FilePaths : ~Exists(p) /\ CanMakeDirs(p) /\ fs' = WithDirs(fs, p) /\ AtOnce({})
    <3>1. fs' \in Trees /\ InBounds /\ AtOnce({})
      BY <1>0, <1>5, <2>2, MadeDirs DEF Outside
    <3> QED
      BY <3>1, ChangesAtOnce
  <2>3. ASSUME NEW p \in Below, NEW x \in Contents, CanWrite(p), fs' = [fs EXCEPT ![p] = x], AtOnce({p})
        PROVE  FilesTyped' /\ \A r \in FileCalls : OfOthers(r)
    <3>1. fs' \in Trees /\ InBounds
      BY <1>1, <1>5, <2>3 DEF Outside
    <3> QED
      BY <2>3, <3>1, ChangesAtOnce
  <2> QED
    BY <1>5, <2>1, <2>2, <2>3 DEF Outside
<1> QED
  BY <1>2, <1>3, <1>4, <1>5

LEMMA FilesStayTyped ==
  ASSUME FilesTyped, [FilesNext]_filesVars
  PROVE  FilesTyped'
<1>1. CASE UNCHANGED filesVars
  BY <1>1 DEF filesVars, FilesTyped
<1> QED
  BY <1>1, OneGoTyped, BeginsTyped, SourceStepsTyped, CopyStepsTyped, EndsTyped DEF FilesNext

\* The types of the module (FilesTypeOK) always hold: what the requests leave
\* is a tree, and a request under way names paths (file_manager.rs:150-398).
THEOREM FilesTypeCorrect == FilesSpec => []FilesTypeOK
<1>1. FilesInit => FilesTyped
  <2>1. /\ NoChange \in FileChanges /\ NoChange.stack = <<>> /\ Unknown \in Knowledge
    BY EmptySeq, PathFacts DEF NoChange, FileChanges, Unknown, Knowledge
  <2> QED
    BY <2>1, FilesAssumption DEF FilesInit, FilesTyped
<1>2. FilesTyped /\ [FilesNext]_filesVars => FilesTyped'
  BY FilesStayTyped
<1>3. FilesTyped => FilesTypeOK
  BY DEF FilesTyped, FilesTypeOK, Knowledge
<1> QED
  BY <1>1, <1>2, <1>3, PTL DEF FilesSpec
-----------------------------------------------------------------------------
(* What is copied arrives.                                                 *)

Apart(r) == ~Under(Source(r), Target(r)) /\ ~Under(Target(r), Source(r))
Copying(r) == change[r].op = "copy" /\ change[r].todo # <<>>
Seen(r, p) == known[r][p] # "touched"

\* The tree t is, outside the target, as the call knows it.
Kept(r, t) ==
  \A p \in FilePaths : ~Under(Target(r), p) /\ Seen(r, p) =>
    \/ t[p] = known[r][p]
    \/ Under(p, Target(r)) /\ known[r][p] = "none" /\ t[p] = "dir"

\* A file of the source that nobody else touches, here or where it is copied to.
FileSeen(r, p) ==
  /\ Under(Source(r), p) /\ known[r][p] \in Contents
  /\ As(Source(r), Target(r), p) \in FilePaths => Seen(r, As(Source(r), Target(r), p))
Arrived(r, p) ==
  As(Source(r), Target(r), p) \in FilePaths /\ fs[As(Source(r), Target(r), p)] = known[r][p]
Pending(r, p) == \E f \in Range(change[r].stack) : \E n \in f.names : Under(f.from \o <<n>>, p)
GoodFrame(r, f) == Under(Source(r), f.from) /\ f.to = As(Source(r), Target(r), f.from)

Progress(r) ==
  /\ \A f \in Range(change[r].stack) : GoodFrame(r, f)
  /\ \A p \in FilePaths : FileSeen(r, p) => Arrived(r, p) \/ Pending(r, p)

\* What is so of a call whose source is apart from its target.
CopyKnows(r) ==
  /\ Copying(r) /\ change[r].stack = <<>> => \A p \in FilePaths : Seen(r, p) => fs[p] = known[r][p]
  /\ InDir(r) /\ Apart(r) => Kept(r, fs) /\ Progress(r)

CopyInv == FilesTyped /\ \A r \in FileCalls : CopyKnows(r)

LEMMA InRange ==
  ASSUME NEW S, NEW s \in Seq(S)
  PROVE  \A y : y \in Range(s) <=> \E i \in 1..Len(s) : s[i] = y
<1>1. DOMAIN s = 1..Len(s)
  BY LenProperties
<1> QED
  BY <1>1 DEF Range

LEMMA RangeOfCons ==
  ASSUME NEW S, NEW s \in Seq(S), NEW x \in S
  PROVE  Range(<<x>> \o s) = {x} \cup Range(s) /\ <<x>> \o s \in Seq(S)
<1>1. /\ <<x>> \o s \in Seq(S) /\ Len(<<x>> \o s) = Len(s) + 1 /\ Len(s) \in Nat
      /\ (<<x>> \o s)[1] = x /\ \A i \in 1..Len(s) : (<<x>> \o s)[i + 1] = s[i]
  BY LenProperties
<1> DEFINE u == <<x>> \o s
<1> HIDE DEF u
<1>2. \A y : y \in Range(u) <=> \E i \in 1..Len(u) : u[i] = y
  BY <1>1, InRange DEF u
<1>3. \A y : y \in Range(s) <=> \E i \in 1..Len(s) : s[i] = y
  BY InRange
<1>4. ASSUME NEW i \in 1..Len(u) PROVE u[i] = x \/ \E j \in 1..Len(s) : s[j] = u[i]
  <2>1. i = 1 \/ (i - 1 \in 1..Len(s) /\ (i - 1) + 1 = i)
    BY <1>1 DEF u
  <2> QED
    BY <1>1, <2>1 DEF u
<1>5. x \in Range(u)
  BY <1>1, <1>2 DEF u
<1>6. ASSUME NEW y, y \in Range(s) PROVE y \in Range(u)
  <2>1. PICK j \in 1..Len(s) : s[j] = y
    BY <1>3, <1>6
  <2>2. j + 1 \in 1..Len(u) /\ u[j + 1] = y
    BY <1>1, <2>1 DEF u
  <2> QED
    BY <1>2, <2>2
<1>7. ASSUME NEW y, y \in Range(u) PROVE y = x \/ y \in Range(s)
  BY <1>2, <1>3, <1>4, <1>7
<1>8. Range(u) = {x} \cup Range(s)
  BY <1>5, <1>6, <1>7
<1> QED
  BY <1>1, <1>8 DEF u

LEMMA Ranges ==
  ASSUME NEW S, NEW s \in Seq(S)
  PROVE  /\ s # <<>> => Range(s) = {Head(s)} \cup Range(Tail(s))
         /\ \A x \in S : Range(<<x>>) = {x}
<1>1. ASSUME s # <<>> PROVE Range(s) = {Head(s)} \cup Range(Tail(s))
  <2>1. Tail(s) \in Seq(S) /\ Head(s) \in S /\ s = <<Head(s)>> \o Tail(s)
    BY <1>1, HeadTailProperties
  <2> QED
    BY <2>1, RangeOfCons
<1>2. ASSUME NEW x \in S PROVE Range(<<x>>) = {x}
  <2>1. <<x>> \in Seq(S) /\ Len(<<x>>) = 1 /\ <<x>>[1] = x
    OBVIOUS
  <2>2. \A y : y \in Range(<<x>>) <=> \E i \in 1..1 : <<x>>[i] = y
    BY <2>1, InRange
  <2> QED
    BY <2>1, <2>2
<1> QED
  BY <1>1, <1>2

\* What is below one of two paths apart is not below the other.
LEMMA NotBelow ==
  ASSUME NEW s \in Seq(Names), NEW t \in Seq(Names), ~Under(s, t), ~Under(t, s),
         NEW p \in Seq(Names), Under(s, p)
  PROVE  ~Under(t, p)
BY UnderOrders

\* A file below a directory is, or is below, one of its entries.
LEMMA EntriesLead ==
  ASSUME NEW t \in Trees, NEW p \in FilePaths, t[p] = "dir",
         NEW x \in FilePaths, Under(p, x), t[x] \in Contents
  PROVE  \E n \in Entries(t, p) : Under(p \o <<n>>, x)
<1>1. p \in Seq(Names) /\ x \in Seq(Names) /\ p # x
  BY PathFacts DEF Contents
<1>2. PICK n \in Names : Under(p \o <<n>>, x)
  BY <1>1, EntryBetween
<1>3. p \o <<n>> \in FilePaths
  BY <1>1, <1>2, EntryIsBelow, PathFacts
<1>4. t[p \o <<n>>] # "none"
  BY <1>2, <1>3 DEF Trees, Contents
<1> QED
  BY <1>2, <1>3, <1>4 DEF Entries


\* The steps of others leave it.
LEMMA OthersLeave ==
  ASSUME FilesTyped, NEW r \in FileCalls, CopyKnows(r), OfOthers(r)
  PROVE  CopyKnows(r)'
<1>1. /\ change'[r] = change[r]
      /\ \A p \in FilePaths : known'[r][p] # "touched" => known'[r][p] = known[r][p] /\ fs'[p] = fs[p]
  BY DEF OfOthers
<1>2. /\ Source(r)' = Source(r) /\ Target(r)' = Target(r) /\ (Apart(r)' <=> Apart(r))
      /\ (InDir(r)' <=> InDir(r)) /\ (Copying(r)' <=> Copying(r))
      /\ (change[r].stack = <<>>)' <=> change[r].stack = <<>>
  BY <1>1 DEF Source, Target, Apart, InDir, Copying
<1>3. ASSUME Copying(r), change[r].stack = <<>>, NEW p \in FilePaths, Seen(r, p)'
      PROVE  (fs[p] = known[r][p])'
  BY <1>1, <1>3 DEF CopyKnows, Seen
<1>4. ASSUME Kept(r, fs) PROVE Kept(r, fs)'
  BY <1>1, <1>2, <1>4 DEF Kept, Seen
<1>5. ASSUME Progress(r) PROVE Progress(r)'
  <2>1. \A f \in Range(change[r].stack)' : GoodFrame(r, f)'
    BY <1>1, <1>2, <1>5 DEF Progress, GoodFrame
  <2>2. ASSUME NEW p \in FilePaths, FileSeen(r, p)' PROVE (Arrived(r, p) \/ Pending(r, p))'
    <3>1. FileSeen(r, p) /\ known'[r][p] = known[r][p]
      BY <1>1, <1>2, <2>2 DEF FileSeen, Seen, Contents
    <3>2. Arrived(r, p) => Arrived(r, p)'
      BY <1>1, <1>2, <2>2, <3>1 DEF FileSeen, Seen, Arrived
    <3>3. Pending(r, p) => Pending(r, p)'
      BY <1>1 DEF Pending
    <3> QED
      BY <1>5, <3>1, <3>2, <3>3 DEF Progress
  <2> QED
    BY <2>1, <2>2 DEF Progress
<1> QED
  BY <1>2, <1>3, <1>4, <1>5 DEF CopyKnows

\* With a source begun, the call knows all there is.
LEMMA BegunKnows ==
  ASSUME NEW r \in FileCalls, Begun(r)'
  PROVE  CopyKnows(r)'
BY DEF Begun, CopyKnows, Copying, InDir

\* Where a name of a directory entered is, and is copied to.
LEMMA EntryPlaces ==
  ASSUME FilesTyped, NEW r \in FileCalls, change[r].todo # <<>>, Apart(r),
         NEW f \in Frames, GoodFrame(r, f), NEW n \in f.names
  PROVE  LET p == f.from \o <<n>>
             q == f.to \o <<n>>
         IN  /\ n \in Names /\ p \in Seq(Names) /\ q \in Seq(Names) /\ q # Core /\ p # q
             /\ Under(Source(r), p) /\ Under(Target(r), q) /\ q # Target(r)
             /\ q = As(Source(r), Target(r), p)
<1> DEFINE p == f.from \o <<n>>
           q == f.to \o <<n>>
<1>1. /\ Source(r) \in Seq(Names) /\ Target(r) \in Seq(Names)
      /\ ~Under(Source(r), Target(r)) /\ ~Under(Target(r), Source(r))
  BY SourcesNamePaths DEF Apart
<1>2. /\ Under(Source(r), f.from) /\ f.to = As(Source(r), Target(r), f.from)
      /\ n \in Names /\ f.from \in Seq(Names) /\ f.to \in Seq(Names)
  BY PathFacts DEF GoodFrame, Frames
<1>3. /\ p \in Seq(Names) /\ Under(f.from, p) /\ q \in Seq(Names) /\ q # Core
      /\ Under(f.to, q) /\ q # f.to
  BY <1>2, EntryIsBelow
<1>4. q = As(Source(r), Target(r), p) /\ Under(Target(r), f.to)
  <2>1. \A m \in Names :
          As(Source(r), Target(r), f.from \o <<m>>) = As(Source(r), Target(r), f.from) \o <<m>>
    BY <1>1, <1>2, AsKeeps
  <2>2. Under(Target(r), As(Source(r), Target(r), f.from))
    BY <1>1, <1>2, AsKeeps
  <2> QED
    BY <1>2, <2>1, <2>2
<1> HIDE DEF p, q
<1>5. Under(Source(r), p) /\ Under(Target(r), q)
  BY <1>1, <1>2, <1>3, <1>4, UnderOrders
<1>6. p # q
  BY <1>1, <1>3, <1>5, NotBelow
<1>7. q # Target(r)
  BY <1>1, <1>2, <1>3, <1>4, UnderOrders
<1> QED
  BY <1>2, <1>3, <1>4, <1>5, <1>6, <1>7 DEF p, q

\* What is written below the target leaves the rest as the call knows it.
LEMMA KeptBelow ==
  ASSUME FilesTyped, NEW r \in FileCalls, change[r].todo # <<>>, Kept(r, fs), NEW t,
         NEW q \in Seq(Names), Under(Target(r), q),
         \A s \in FilePaths :
           s # q => t[s] = fs[s] \/ (Under(s, q) /\ fs[s] = "none" /\ t[s] = "dir")
  PROVE  Kept(r, t)
<1>1. Target(r) \in Seq(Names)
  BY SourcesNamePaths
<1>2. ASSUME NEW p \in FilePaths, ~Under(Target(r), p), Seen(r, p)
      PROVE  \/ t[p] = known[r][p]
             \/ Under(p, Target(r)) /\ known[r][p] = "none" /\ t[p] = "dir"
  <2>1. p # q /\ (Under(p, q) => Under(p, Target(r)))
    BY <1>1, <1>2, UnderOrders, PathFacts
  <2>2. \/ fs[p] = known[r][p]
        \/ Under(p, Target(r)) /\ known[r][p] = "none" /\ fs[p] = "dir"
    BY <1>2 DEF Kept
  <2>3. t[p] = fs[p] \/ (Under(p, q) /\ fs[p] = "none" /\ t[p] = "dir")
    BY <2>1
  <2> QED
    BY <2>1, <2>2, <2>3
<1> QED
  BY <1>2 DEF Kept

\* A file of the source that nobody else touches is there as it was.
LEMMA SourceKept ==
  ASSUME FilesTyped, NEW r \in FileCalls, change[r].todo # <<>>, Apart(r), NEW t, Kept(r, t),
         NEW p \in FilePaths, Under(Source(r), p), known[r][p] \in Contents
  PROVE  t[p] = known[r][p]
<1>1. ~Under(Target(r), p)
  BY SourcesNamePaths, NotBelow, PathFacts DEF Apart
<1> QED
  BY <1>1 DEF Kept, Seen, Contents


\* A directory is entered with every file below it pending.
LEMMA EntersKnows ==
  ASSUME FilesTyped, NEW r \in FileCalls, Copying(r), Apart(r), Kept(r, fs),
         NEW p, IsDir(p), Under(Source(r), p),
         NEW q \in Seq(Names), q = As(Source(r), Target(r), p), Under(Target(r), q),
         NEW below \in Seq(Frames), Enter(r, p, q, below),
         \A f \in Range(below) : GoodFrame(r, f),
         \A x \in FilePaths : FileSeen(r, x) =>
           \/ Arrived(r, x) \/ Under(p, x)
           \/ \E f \in Range(below) : \E n \in f.names : Under(f.from \o <<n>>, x)
  PROVE  CopyKnows(r)'
<1>1. /\ change[r].op = "copy" /\ change[r].todo # <<>> /\ fs \in Trees
      /\ p \in FilePaths /\ fs[p] = "dir" /\ CanMakeDirs(q) /\ fs' = WithDirs(fs, q)
  BY DEF Copying, FilesTyped, IsDir, Enter
<1>2. /\ known'[r] = known[r] /\ change'[r].op = "copy" /\ change'[r].todo = change[r].todo
      /\ change'[r].dest = change[r].dest
      /\ Entered(r, p, q, below)
  BY <1>1, Enters
<1>3. PICK f \in Frames : /\ f.from = p /\ f.to = q /\ Entries(fs', p) \subseteq f.names
                          /\ change'[r].stack = <<f>> \o below
  BY <1>2 DEF Entered
<1>4. Range(change'[r].stack) = {f} \cup Range(below)
  BY <1>3, RangeOfCons
<1>5. change'[r].stack # <<>>
  <2>1. Range(<<>>) = {}
    BY DEF Range
  <2> QED
    BY <1>4, <2>1
<1>6. Source(r)' = Source(r) /\ Target(r)' = Target(r)
  BY <1>2 DEF Source, Target
<1>7. /\ fs' \in Trees
      /\ \A s \in FilePaths : fs'[s] = fs[s] \/ (Under(s, q) /\ fs[s] = "none" /\ fs'[s] = "dir")
  BY <1>1, MadeDirs
<1>8. Kept(r, fs')
  BY <1>1, <1>7, KeptBelow
<1>9. Kept(r, fs)'
  BY <1>2, <1>6, <1>8 DEF Kept, Seen
<1>10. \A g \in Range(change'[r].stack) : GoodFrame(r, g)'
  BY <1>3, <1>4, <1>6 DEF GoodFrame
<1>11. ASSUME NEW x \in FilePaths, FileSeen(r, x)'
       PROVE  Arrived(r, x)' \/ Pending(r, x)'
  <2>1. FileSeen(r, x) /\ known[r][x] \in Contents /\ Under(Source(r), x)
    BY <1>2, <1>6, <1>11 DEF FileSeen, Seen
  <2>2. ASSUME Arrived(r, x) PROVE Arrived(r, x)'
    <3>1. /\ As(Source(r), Target(r), x) \in FilePaths
          /\ fs[As(Source(r), Target(r), x)] = known[r][x]
      BY <2>2 DEF Arrived
    <3>2. fs'[As(Source(r), Target(r), x)] = known[r][x]
      BY <1>7, <2>1, <3>1 DEF Contents
    <3> QED
      BY <1>2, <1>6, <3>1, <3>2 DEF Arrived
  <2>3. ASSUME Under(p, x) PROVE Pending(r, x)'
    <3>1. fs'[x] \in Contents
      BY <1>1, <1>8, <2>1, SourceKept
    <3>2. fs'[p] = "dir"
      BY <1>1, <1>7
    <3>3. PICK n \in Entries(fs', p) : Under(p \o <<n>>, x)
      BY <1>1, <1>7, <2>3, <3>1, <3>2, EntriesLead
    <3> QED
      BY <1>3, <1>4, <3>3 DEF Pending
  <2>4. ASSUME NEW g \in Range(below), NEW n \in g.names, Under(g.from \o <<n>>, x)
        PROVE  Pending(r, x)'
    BY <1>4, <2>4 DEF Pending
  <2> QED
    BY <2>1, <2>2, <2>3, <2>4
<1> QED
  BY <1>5, <1>9, <1>10, <1>11 DEF CopyKnows, Progress

\* The first step with a source.
LEMMA SourceKnows ==
  ASSUME FilesTyped, NEW r \in FileCalls, CopyKnows(r), CopySource(r)
  PROVE  CopyKnows(r)'
<1>1. /\ change[r].op = "copy" /\ change[r].todo # <<>> /\ change[r].stack = <<>>
      /\ fs \in Trees /\ \A p \in FilePaths : Seen(r, p) => fs[p] = known[r][p]
  BY DEF CopySource, AtSource, CopyKnows, Copying, FilesTyped
<1>2. /\ Source(r) \in Seq(Names) /\ Target(r) \in Seq(Names) /\ Target(r) # Core
      /\ <<>> \in Seq(Frames)
  BY <1>1, SourcesNamePaths, EmptySeq
<1>3. CASE IsDir(Source(r)) /\ Enter(r, Source(r), Target(r), <<>>)
  <2>1. CASE Apart(r)
    <3>1. /\ Under(Source(r), Source(r)) /\ Under(Target(r), Target(r))
          /\ As(Source(r), Target(r), Source(r)) = Target(r)
      BY <1>2, UnderOrders, AsKeeps
    <3>2. Range(<<>>) = {} /\ Kept(r, fs) /\ Copying(r)
      BY <1>1 DEF Range, Kept, Copying
    <3>3. \A x \in FilePaths : FileSeen(r, x) => Under(Source(r), x)
      BY DEF FileSeen
    <3> QED
      BY <1>2, <1>3, <2>1, <3>1, <3>2, <3>3, EntersKnows
  <2>2. CASE ~Apart(r)
    <3>1. /\ change'[r].todo = change[r].todo /\ change'[r].dest = change[r].dest
          /\ Entered(r, Source(r), Target(r), <<>>)
      BY <1>1, <1>2, <1>3, Enters
    <3>2. Apart(r)' <=> Apart(r)
      BY <3>1 DEF Apart, Source, Target
    <3>3. change'[r].stack # <<>>
      BY <3>1 DEF Entered
    <3> QED
      BY <2>2, <3>2, <3>3 DEF CopyKnows
  <2> QED
    BY <2>1, <2>2
<1>4. CASE CanCopy(Source(r), Target(r)) /\ CopyFile(Source(r), Target(r)) /\ NextSource(r, TRUE, {Target(r)})
  <2>1. fs' \in Trees
    BY <1>1, <1>2, <1>4, Copies
  <2>2. Begun(r)'
    BY <1>1, <1>4, <2>1, NextOne
  <2> QED
    BY <2>2, BegunKnows
<1>5. CASE CopyFails(r, Source(r), Target(r))
  BY <1>1, <1>2, <1>5, FailsTyped, BegunKnows
<1> QED
  BY <1>3, <1>4, <1>5 DEF CopySource

\* A step with an entry of a directory.
LEMMA EntryKnows ==
  ASSUME FilesTyped, NEW r \in FileCalls, CopyKnows(r), CopyEntry(r)
  PROVE  CopyKnows(r)'
<1>0. /\ InDir(r) /\ change[r].op = "copy" /\ change[r].todo # <<>> /\ fs \in Trees
      /\ Top(r) \in Frames /\ Tail(change[r].stack) \in Seq(Frames)
      /\ change[r].stack \in Seq(Frames) /\ change[r].stack # <<>>
  BY Tops DEF CopyEntry, FilesTyped, InDir, FileChanges
<1>1. PICK n \in Top(r).names :
        LET p == Top(r).from \o <<n>>
            q == Top(r).to \o <<n>>
            rest == <<[Top(r) EXCEPT !.names = @ \ {n}]>> \o Tail(change[r].stack)
        IN  \/ ~Exists(p) /\ fs' = fs /\ Continue(r, rest, {})
            \/ IsDir(p) /\ Enter(r, p, q, rest)
            \/ CanCopy(p, q) /\ CopyFile(p, q) /\ Continue(r, rest, {q})
            \/ CopyFails(r, p, q)
  BY DEF CopyEntry
<1> DEFINE p == Top(r).from \o <<n>>
           q == Top(r).to \o <<n>>
<1>2. PICK popped : popped = [Top(r) EXCEPT !.names = @ \ {n}]
  OBVIOUS
<1>3. /\ popped \in Frames /\ popped.from = Top(r).from /\ popped.to = Top(r).to
      /\ popped.names = Top(r).names \ {n}
      /\ <<popped>> \o Tail(change[r].stack) \in Seq(Frames)
      /\ <<popped>> \o Tail(change[r].stack) # <<>>
  BY <1>0, <1>2, Tops
<1>4. PICK rest : rest = <<popped>> \o Tail(change[r].stack)
  OBVIOUS
<1>5. /\ rest \in Seq(Frames) /\ rest # <<>>
      /\ Range(rest) = {popped} \cup Range(Tail(change[r].stack))
      /\ Range(change[r].stack) = {Top(r)} \cup Range(Tail(change[r].stack))
  <2>1. Range(<<popped>> \o Tail(change[r].stack)) = {popped} \cup Range(Tail(change[r].stack))
    BY <1>0, <1>3, RangeOfCons
  <2>2. Range(change[r].stack) = {Top(r)} \cup Range(Tail(change[r].stack))
    BY <1>0, Ranges DEF Top
  <2> QED
    BY <1>3, <1>4, <2>1, <2>2
<1>6. q \in Seq(Names) /\ q # Core
  <2>1. n \in Names /\ Top(r).to \in Seq(Names)
    BY <1>0, PathFacts DEF Frames
  <2> QED
    BY <2>1, EntryIsBelow
<1> HIDE DEF p, q
<1>7. \/ ~Exists(p) /\ fs' = fs /\ Continue(r, rest, {})
      \/ IsDir(p) /\ Enter(r, p, q, rest)
      \/ CanCopy(p, q) /\ CopyFile(p, q) /\ Continue(r, rest, {q})
      \/ CopyFails(r, p, q)
  BY <1>1, <1>2, <1>4 DEF p, q
<1>8. CASE CopyFails(r, p, q)
  BY <1>0, <1>6, <1>8, FailsTyped, BegunKnows
<1>9. CASE ~CopyFails(r, p, q) /\ ~Apart(r)
  <2>1. /\ change'[r].todo = change[r].todo /\ change'[r].dest = change[r].dest
        /\ change'[r].stack # <<>>
    <3>1. CASE IsDir(p) /\ Enter(r, p, q, rest)
      <4>1. /\ change'[r].todo = change[r].todo /\ change'[r].dest = change[r].dest
            /\ Entered(r, p, q, rest)
        BY <1>0, <1>5, <3>1, Enters
      <4>2. \A f \in Frames : Range(<<f>> \o rest) = {f} \cup Range(rest)
        BY <1>5, RangeOfCons
      <4>3. Range(<<>>) = {}
        BY DEF Range
      <4> QED
        BY <4>1, <4>2, <4>3 DEF Entered
    <3>2. ASSUME fs' \in Trees, NEW w, Continue(r, rest, w)
          PROVE  /\ change'[r].todo = change[r].todo /\ change'[r].dest = change[r].dest
                 /\ change'[r].stack # <<>>
      BY <1>0, <1>5, <3>2, GoesOn
    <3>3. CanCopy(p, q) /\ CopyFile(p, q) => fs' \in Trees
      BY <1>0, <1>6, Copies
    <3> QED
      BY <1>0, <1>7, <1>9, <3>1, <3>2, <3>3
  <2>2. Apart(r)' <=> Apart(r)
    BY <2>1 DEF Apart, Source, Target
  <2> QED
    BY <1>9, <2>1, <2>2 DEF CopyKnows
<1>10. CASE ~CopyFails(r, p, q) /\ Apart(r)
  <2>1. /\ Kept(r, fs) /\ \A f \in Range(change[r].stack) : GoodFrame(r, f)
        /\ \A x \in FilePaths : FileSeen(r, x) => Arrived(r, x) \/ Pending(r, x)
    BY <1>0, <1>10 DEF CopyKnows, Progress
  <2>2. /\ n \in Names /\ p \in Seq(Names) /\ p # q
        /\ Under(Source(r), p) /\ Under(Target(r), q) /\ q # Target(r)
        /\ q = As(Source(r), Target(r), p)
    <3>1. GoodFrame(r, Top(r))
      BY <1>5, <2>1
    <3> QED
      BY <1>0, <1>10, <3>1, EntryPlaces DEF p, q
  <2>3. \A f \in Range(rest) : GoodFrame(r, f)
    BY <1>3, <1>5, <2>1 DEF GoodFrame
  \* What is pending still is, or is below p.
  <2>4. ASSUME NEW x, Pending(r, x)
        PROVE  Under(p, x) \/ \E f \in Range(rest) : \E m \in f.names : Under(f.from \o <<m>>, x)
    <3>1. PICK f \in Range(change[r].stack) : \E m \in f.names : Under(f.from \o <<m>>, x)
      BY <2>4 DEF Pending
    <3>2. PICK m \in f.names : Under(f.from \o <<m>>, x)
      BY <3>1
    <3>3. CASE f \in Range(Tail(change[r].stack))
      BY <1>5, <3>2, <3>3
    <3>4. CASE f = Top(r) /\ m = n
      BY <3>2, <3>4 DEF p
    <3>5. CASE f = Top(r) /\ m # n
      <4>1. m \in popped.names /\ popped \in Range(rest) /\ popped.from = Top(r).from
        BY <1>3, <1>5, <3>5
      <4> QED
        BY <3>2, <3>5, <4>1
    <3> QED
      BY <1>5, <3>1, <3>3, <3>4, <3>5
  <2>5. CASE IsDir(p) /\ Enter(r, p, q, rest)
    <3>1. \A x \in FilePaths : FileSeen(r, x) =>
            \/ Arrived(r, x) \/ Under(p, x)
            \/ \E f \in Range(rest) : \E m \in f.names : Under(f.from \o <<m>>, x)
      BY <2>1, <2>4
    <3>2. Copying(r)
      BY <1>0 DEF Copying
    <3> QED
      BY <1>5, <1>6, <1>10, <2>1, <2>2, <2>3, <2>5, <3>1, <3>2, EntersKnows
  \* Otherwise the call goes on with the rest, and what is below p is there.
  <2>6. ASSUME fs' \in Trees, NEW w, Continue(r, rest, w), Kept(r, fs'),
               \A x \in FilePaths : /\ FileSeen(r, x)
                                    /\ Arrived(r, x) \/ Under(p, x)
                                    => /\ As(Source(r), Target(r), x) \in FilePaths
                                       /\ fs'[As(Source(r), Target(r), x)] = known[r][x]
        PROVE  CopyKnows(r)'
    <3>1. /\ known'[r] = known[r] /\ change'[r].todo = change[r].todo
          /\ change'[r].dest = change[r].dest /\ change'[r].stack = rest
      BY <1>0, <1>5, <2>6, GoesOn
    <3>2. Source(r)' = Source(r) /\ Target(r)' = Target(r)
      BY <3>1 DEF Source, Target
    <3>3. Kept(r, fs)'
      BY <2>6, <3>1, <3>2 DEF Kept, Seen
    <3>4. \A f \in Range(change'[r].stack) : GoodFrame(r, f)'
      BY <2>3, <3>1, <3>2 DEF GoodFrame
    <3>5. ASSUME NEW x \in FilePaths, FileSeen(r, x)' PROVE Arrived(r, x)' \/ Pending(r, x)'
      <4>1. FileSeen(r, x)
        BY <3>1, <3>2, <3>5 DEF FileSeen, Seen
      <4>2. CASE Arrived(r, x) \/ Under(p, x)
        BY <2>6, <3>1, <3>2, <4>1, <4>2 DEF Arrived
      <4>3. CASE \E f \in Range(rest) : \E m \in f.names : Under(f.from \o <<m>>, x)
        BY <3>1, <4>3 DEF Pending
      <4> QED
        BY <2>1, <2>4, <4>1, <4>2, <4>3
    <3> QED
      BY <1>5, <3>1, <3>3, <3>4, <3>5 DEF CopyKnows, Progress
  <2>7. CASE ~Exists(p) /\ fs' = fs /\ Continue(r, rest, {})
    <3>1. ASSUME NEW x \in FilePaths, FileSeen(r, x), Under(p, x) PROVE FALSE
      <4>1. fs[x] = known[r][x] /\ known[r][x] \in Contents
        BY <1>0, <1>10, <2>1, <3>1, SourceKept DEF FileSeen
      <4>2. p \in FilePaths
        BY <2>2, <3>1, PathFacts
      <4>3. fs[p] # "none"
        BY <1>0, <3>1, <4>1, <4>2 DEF Trees, Contents
      <4> QED
        BY <2>7, <4>2, <4>3 DEF Exists
    <3> QED
      BY <1>0, <2>1, <2>6, <2>7, <3>1 DEF Arrived
  <2>8. CASE CanCopy(p, q) /\ CopyFile(p, q) /\ Continue(r, rest, {q})
    <3>1. /\ fs' \in Trees /\ q \in FilePaths /\ p \in FilePaths /\ fs[p] \in Contents
          /\ fs'[q] = fs[p]
          /\ \A s \in FilePaths :
               s # q => fs'[s] = fs[s] \/ (Under(s, q) /\ fs[s] = "none" /\ fs'[s] = "dir")
      BY <1>0, <1>6, <2>2, <2>8, Copies
    <3>2. Kept(r, fs')
      BY <1>0, <1>6, <2>1, <2>2, <3>1, KeptBelow
    <3>3. ASSUME NEW x \in FilePaths, FileSeen(r, x), Arrived(r, x) \/ Under(p, x)
          PROVE  /\ As(Source(r), Target(r), x) \in FilePaths
                 /\ fs'[As(Source(r), Target(r), x)] = known[r][x]
      <4>1. fs[x] = known[r][x] /\ known[r][x] \in Contents /\ Under(Source(r), x)
        BY <1>0, <1>10, <2>1, <3>3, SourceKept DEF FileSeen
      <4>2. CASE x = p
        BY <2>2, <3>1, <4>1, <4>2
      <4>3. CASE x # p /\ Arrived(r, x)
        <5>1. As(Source(r), Target(r), x) # q
          <6>1. Source(r) \in Seq(Names) /\ Target(r) \in Seq(Names) /\ x \in Seq(Names)
            BY <1>0, SourcesNamePaths, PathFacts
          <6> QED
            BY <2>2, <4>1, <4>3, <6>1, AsKeeps
        <5> QED
          BY <3>1, <4>1, <4>3, <5>1 DEF Arrived, Contents
      <4>4. CASE x # p /\ Under(p, x)
        BY <1>0, <3>1, <4>1, <4>4 DEF Trees, Contents
      <4> QED
        BY <3>3, <4>2, <4>3, <4>4
    <3> QED
      BY <2>6, <2>8, <3>1, <3>2, <3>3
  <2> QED
    BY <1>7, <1>10, <2>5, <2>7, <2>8
<1> QED
  BY <1>8, <1>9, <1>10

\* The end of a directory, or of the source.
LEMMA ReturnKnows ==
  ASSUME FilesTyped, NEW r \in FileCalls, CopyKnows(r), CopyReturns(r)
  PROVE  CopyKnows(r)'
<1>0. /\ InDir(r) /\ change[r].op = "copy" /\ change[r].todo # <<>> /\ fs \in Trees /\ fs' = fs
      /\ change[r].stack \in Seq(Frames) /\ change[r].stack # <<>>
      /\ Tail(change[r].stack) \in Seq(Frames)
  BY Tops DEF CopyReturns, FilesTyped, InDir, FileChanges
<1>1. ASSUME NEW done \in BOOLEAN, NextSource(r, done, {}) PROVE CopyKnows(r)'
  BY <1>0, <1>1, NextOne, BegunKnows
<1>2. CASE Top(r).names = {} /\ Len(change[r].stack) > 1 /\ Continue(r, Tail(change[r].stack), {})
  <2>1. /\ known'[r] = known[r] /\ change'[r].todo = change[r].todo
        /\ change'[r].dest = change[r].dest /\ change'[r].stack = Tail(change[r].stack)
    BY <1>0, <1>2, GoesOn
  <2>2. /\ Source(r)' = Source(r) /\ Target(r)' = Target(r) /\ (Apart(r)' <=> Apart(r))
        /\ Range(change[r].stack) = {Top(r)} \cup Range(Tail(change[r].stack))
    BY <1>0, <2>1, Ranges DEF Source, Target, Apart, Top
  <2>3. Tail(change[r].stack) # <<>>
    <3> DEFINE m == Len(change[r].stack)
               k == Len(Tail(change[r].stack))
    <3>1. m \in Nat /\ k = m - 1 /\ m > 1
      BY <1>0, <1>2, HeadTailProperties, LenProperties
    <3> HIDE DEF m, k
    <3>2. k # 0
      BY <3>1
    <3>3. Len(<<>>) = 0
      OBVIOUS
    <3> QED
      BY <3>2, <3>3, Zenon DEF k
  <2>4. ASSUME Apart(r) PROVE Kept(r, fs)' /\ Progress(r)'
    <3>1. Kept(r, fs) /\ Progress(r)
      BY <1>0, <2>4 DEF CopyKnows
    <3>2. Kept(r, fs)'
      BY <1>0, <2>1, <2>2, <3>1 DEF Kept, Seen
    <3>3. \A f \in Range(change'[r].stack) : GoodFrame(r, f)'
      BY <2>1, <2>2, <3>1 DEF Progress, GoodFrame
    <3>4. ASSUME NEW x \in FilePaths, FileSeen(r, x)' PROVE Arrived(r, x)' \/ Pending(r, x)'
      <4>1. FileSeen(r, x)
        BY <2>1, <2>2, <3>4 DEF FileSeen, Seen
      <4>2. Arrived(r, x) => Arrived(r, x)'
        BY <1>0, <2>1, <2>2 DEF Arrived
      <4>3. Pending(r, x) => Pending(r, x)'
        BY <1>2, <2>1, <2>2 DEF Pending
      <4> QED
        BY <3>1, <4>1, <4>2, <4>3 DEF Progress
    <3> QED
      BY <3>2, <3>3, <3>4 DEF Progress
  <2> QED
    BY <2>1, <2>2, <2>3, <2>4 DEF CopyKnows
<1> QED
  BY <1>1, <1>2 DEF CopyReturns

\* Every step keeps what the calls know.
LEMMA CopyInvariant ==
  ASSUME CopyInv, [FilesNext]_filesVars
  PROVE  CopyInv'
<1>0. FilesTyped /\ \A r \in FileCalls : CopyKnows(r)
  BY DEF CopyInv
<1>1. FilesTyped'
  BY <1>0, FilesStayTyped
<1>2. CASE \A r \in FileCalls : OfOthers(r)
  BY <1>0, <1>1, <1>2, OthersLeave DEF CopyInv
<1>3. ASSUME NEW r \in FileCalls, OthersBut(r), CopyKnows(r)' PROVE CopyInv'
  <2>1. \A s \in FileCalls \ {r} : CopyKnows(s)'
    BY <1>0, <1>3, OthersLeave DEF OthersBut
  <2> QED
    BY <1>1, <1>3, <2>1 DEF CopyInv
<1>4. ASSUME NEW r \in FileCalls, OthersBut(r), Begun(r)' PROVE CopyInv'
  BY <1>3, <1>4, BegunKnows
<1>5. CASE UNCHANGED filesVars
  <2>1. \A r \in FileCalls : OfOthers(r)
    BY <1>5 DEF filesVars, OfOthers
  <2> QED
    BY <1>2, <2>1
<1>6. ASSUME NEW r \in FileCalls, CopySource(r) \/ CopyEntry(r) \/ CopyReturns(r) PROVE CopyInv'
  <2>1. OthersBut(r)
    BY <1>0, <1>6, CopyStepsTyped
  <2>2. CopyKnows(r)'
    BY <1>0, <1>6, SourceKnows, EntryKnows, ReturnKnows
  <2> QED
    BY <1>3, <2>1, <2>2
<1>7. ASSUME NEW r \in FileCalls,
             \/ \E sources \in SourceLists, dest \in DestDirs :
                  \E op \in {"delete", "copy", "move"} : BeginMany(r, op, sources, dest)
             \/ DeletePart(r) \/ DeleteSource(r) \/ MoveSource(r) \/ EndChange(r)
      PROVE  CopyInv'
  <2>1. OthersBut(r) /\ Begun(r)'
    BY <1>0, <1>7, BeginsTyped, SourceStepsTyped, EndsTyped
  <2> QED
    BY <1>4, <2>1
<1> QED
  BY <1>0, <1>2, <1>5, <1>6, <1>7, OneGoTyped DEF FilesNext

\* Only a step of the copying of a source reports one.
LEMMA OnlyCopiesReport ==
  ASSUME FilesTyped, FilesNext, NEW r \in FileCalls, Reports(r)
  PROVE  CopySource(r) \/ CopyEntry(r) \/ CopyReturns(r)
<1>0. /\ change[r].op = "copy" /\ change'[r].op = "copy"
      /\ change'[r].reported # change[r].reported /\ ~OfOthers(r) /\ NoChange.op # "copy"
  BY DEF Reports, OfOthers, NoChange
<1>1. ASSUME NEW s \in FileCalls, OthersBut(s) PROVE s = r
  BY <1>0, <1>1 DEF OthersBut
<1>2. ASSUME NEW s \in FileCalls,
             \/ \E sources \in SourceLists, dest \in DestDirs :
                  \E op \in {"delete", "copy", "move"} : BeginMany(s, op, sources, dest)
             \/ DeletePart(s) \/ DeleteSource(s) \/ MoveSource(s) \/ EndChange(s)
      PROVE  FALSE
  <2>1. /\ OthersBut(s)
        /\ change[s] = NoChange \/ change[s].op # "copy" \/ change'[s] = NoChange
    BY <1>2, BeginsTyped, SourceStepsTyped, EndsTyped
  <2> QED
    BY <1>0, <1>1, <2>1
<1>3. ASSUME NEW s \in FileCalls, CopySource(s) \/ CopyEntry(s) \/ CopyReturns(s) PROVE s = r
  BY <1>1, <1>3, CopyStepsTyped
<1> QED
  BY <1>0, <1>2, <1>3, OneGoTyped DEF FilesNext

\* What is reported copied is (CopiedIsThere), whatever other requests, jobs and
\* the instance do meanwhile: a source apart from its target has its files there
\* as they were when its copying began, unless somebody else touched them, and
\* what nobody else touches outside the target is as it was
\* (file_manager.rs:311-329, 372-394).
THEOREM CopiesArrive == FilesSpec => CopiedIsThere
<1> DEFINE Arrives(r) ==
      Reports(r) /\ ~Under(Source(r), Target(r)) /\ ~Under(Target(r), Source(r)) =>
        /\ \A p \in FilePaths :
             /\ Under(Source(r), p) /\ known[r][p] \in Contents
             /\ Copied(r, p) \in FilePaths => known[r][Copied(r, p)] # "touched"
             => fs'[Copied(r, p)] = known[r][p]
        /\ \A p \in FilePaths :
             ~Under(Target(r), p) /\ known[r][p] # "touched" =>
               \/ fs'[p] = known[r][p]
               \/ Under(p, Target(r)) /\ known[r][p] = "none" /\ fs'[p] = "dir"
<1>1. FilesInit => CopyInv
  <2>1. /\ NoChange \in FileChanges /\ NoChange.stack = <<>> /\ NoChange.op # "copy"
        /\ Unknown \in Knowledge
    BY EmptySeq, PathFacts DEF NoChange, FileChanges, Unknown, Knowledge
  <2> QED
    BY <2>1, FilesAssumption DEF FilesInit, FilesTyped, CopyInv, CopyKnows, Copying, InDir
<1>2. CopyInv /\ [FilesNext]_filesVars => CopyInv'
  BY CopyInvariant
<1>3. ASSUME CopyInv, FilesNext, NEW r \in FileCalls PROVE Arrives(r)
  <2> SUFFICES ASSUME Reports(r), Apart(r)
               PROVE  /\ \A p \in FilePaths :
                           FileSeen(r, p) => fs'[As(Source(r), Target(r), p)] = known[r][p]
                      /\ Kept(r, fs')
    BY DEF Apart, As, Copied, FileSeen, Seen, Kept
  <2>1. /\ FilesTyped /\ CopyKnows(r) /\ fs \in Trees /\ change[r].op = "copy"
        /\ change'[r].reported # change[r].reported
    BY <1>3 DEF CopyInv, FilesTyped, Reports
  <2>2. CASE CopySource(r)
    <3>1. /\ change[r].todo # <<>> /\ change[r].stack = <<>>
          /\ \A p \in FilePaths : Seen(r, p) => fs[p] = known[r][p]
          /\ Source(r) \in Seq(Names) /\ Source(r) \in FilePaths
          /\ Target(r) \in Seq(Names) /\ Target(r) # Core
      BY <2>1, <2>2, SourcesNamePaths DEF CopySource, AtSource, CopyKnows, Copying
    <3>2. ~CopyFails(r, Source(r), Target(r))
      BY <2>1, <3>1, FailsTyped
    <3>3. ~(IsDir(Source(r)) /\ Enter(r, Source(r), Target(r), <<>>))
      <4>1. <<>> \in Seq(Frames)
        BY EmptySeq
      <4> QED
        BY <2>1, <3>1, <4>1, Enters
    <3>4. CanCopy(Source(r), Target(r)) /\ CopyFile(Source(r), Target(r))
      BY <2>2, <3>2, <3>3 DEF CopySource
    <3>5. /\ Under(Target(r), Target(r)) /\ Source(r) # Target(r)
          /\ As(Source(r), Target(r), Source(r)) = Target(r)
      BY <3>1, UnderOrders, AsKeeps DEF Apart
    <3>6. /\ fs'[Target(r)] = fs[Source(r)] /\ fs[Source(r)] \in Contents
          /\ \A s \in FilePaths : s # Target(r) =>
               fs'[s] = fs[s] \/ (Under(s, Target(r)) /\ fs[s] = "none" /\ fs'[s] = "dir")
      BY <2>1, <3>1, <3>4, <3>5, Copies
    <3>7. Kept(r, fs) /\ Kept(r, fs')
      <4>1. Kept(r, fs)
        BY <3>1 DEF Kept
      <4> QED
        BY <2>1, <3>1, <3>5, <3>6, <4>1, KeptBelow
    <3>8. ASSUME NEW p \in FilePaths, FileSeen(r, p)
          PROVE  fs'[As(Source(r), Target(r), p)] = known[r][p]
      <4>1. fs[p] = known[r][p] /\ known[r][p] \in Contents /\ Under(Source(r), p)
        BY <2>1, <3>1, <3>7, <3>8, SourceKept DEF FileSeen
      <4>2. p = Source(r)
        BY <2>1, <3>1, <3>6, <4>1 DEF Trees, Contents
      <4> QED
        BY <3>5, <3>6, <4>1, <4>2
    <3> QED
      BY <3>7, <3>8
  <2>3. CASE CopyEntry(r)
    <3>1. /\ InDir(r) /\ change[r].todo # <<>> /\ Top(r) \in Frames
      BY <2>1, <2>3, Tops DEF CopyEntry
    <3>2. PICK n \in Top(r).names :
            LET p == Top(r).from \o <<n>>
                q == Top(r).to \o <<n>>
                rest == <<[Top(r) EXCEPT !.names = @ \ {n}]>> \o Tail(change[r].stack)
            IN  \/ ~Exists(p) /\ fs' = fs /\ Continue(r, rest, {})
                \/ IsDir(p) /\ Enter(r, p, q, rest)
                \/ CanCopy(p, q) /\ CopyFile(p, q) /\ Continue(r, rest, {q})
                \/ CopyFails(r, p, q)
      BY <2>3 DEF CopyEntry
    <3> DEFINE p == Top(r).from \o <<n>>
               q == Top(r).to \o <<n>>
               rest == <<[Top(r) EXCEPT !.names = @ \ {n}]>> \o Tail(change[r].stack)
    <3>3. rest \in Seq(Frames)
      BY <2>1, <3>1, Tops
    <3>4. q \in Seq(Names) /\ q # Core
      <4>1. n \in Names /\ Top(r).to \in Seq(Names)
        BY <3>1, PathFacts DEF Frames
      <4> QED
        BY <4>1, EntryIsBelow
    <3> HIDE DEF p, q, rest
    <3>5. ASSUME fs' \in Trees, NEW w, Continue(r, rest, w) PROVE FALSE
      BY <2>1, <3>1, <3>3, <3>5, GoesOn
    <3>6. ~(IsDir(p) /\ Enter(r, p, q, rest))
      BY <2>1, <3>1, <3>3, Enters
    <3>7. ~CopyFails(r, p, q)
      BY <2>1, <3>1, <3>4, FailsTyped
    <3>8. ~(CanCopy(p, q) /\ CopyFile(p, q) /\ Continue(r, rest, {q}))
      BY <2>1, <3>4, <3>5, Copies
    <3> QED
      BY <2>1, <3>2, <3>5, <3>6, <3>7, <3>8 DEF p, q, rest
  <2>4. CASE CopyReturns(r)
    <3>1. /\ InDir(r) /\ change[r].todo # <<>> /\ fs' = fs
          /\ change[r].stack \in Seq(Frames) /\ change[r].stack # <<>>
          /\ Tail(change[r].stack) \in Seq(Frames) /\ Kept(r, fs) /\ Progress(r)
      BY <2>1, <2>4, Tops DEF CopyReturns, CopyKnows, InDir, FilesTyped, FileChanges
    <3>2. ~NextSource(r, FALSE, {}) /\ ~Continue(r, Tail(change[r].stack), {})
      BY <2>1, <3>1, NextOne, GoesOn
    <3>3. Top(r).names = {} /\ Len(change[r].stack) = 1
      BY <2>4, <3>2 DEF CopyReturns
    <3>4. Range(change[r].stack) = {Top(r)}
      <4>1. Range(change[r].stack) = {Top(r)} \cup Range(Tail(change[r].stack))
        BY <3>1, Ranges DEF Top
      <4>2. Tail(change[r].stack) \in Seq(Frames) /\ Len(Tail(change[r].stack)) = 0
        BY <3>1, <3>3, HeadTailProperties
      <4>3. Tail(change[r].stack) = <<>>
        BY <4>2, EmptySeq
      <4>4. Range(<<>>) = {}
        BY DEF Range
      <4> QED
        BY <4>1, <4>3, <4>4
    <3>5. \A p : ~Pending(r, p)
      BY <3>3, <3>4 DEF Pending
    <3> QED
      BY <3>1, <3>5 DEF Progress, Arrived
  <2> QED
    BY <1>3, <2>1, <2>2, <2>3, <2>4, OnlyCopiesReport
<1>4. CopyInv /\ [FilesNext]_filesVars => [\A r \in FileCalls : Arrives(r)]_filesVars
  BY <1>3
<1> QED
  BY <1>1, <1>2, <1>4, PTL DEF FilesSpec, CopiedIsThere
=============================================================================
