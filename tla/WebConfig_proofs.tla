--------------------------- MODULE WebConfig_proofs ---------------------------
(***************************************************************************)
(* What setup and teardown leave on the server, for any number of them, of *)
(* edits and of rewrites, and for files of any length; and that what they  *)
(* write into a shared file has all the lines of others' that they read in *)
(* it.                                                                     *)
(*                                                                         *)
(* The edits are recursive over the lines of a file.  What they do to a    *)
(* file with one line more comes from the recursion by way of a least      *)
(* counterexample; the rest is induction over files, of which InAllFiles   *)
(* is the form the provers can take: closure of a set of files.            *)
(***************************************************************************)
EXTENDS WebConfig, FiniteSetTheorems, SequenceTheorems, WellFoundedInduction, TLAPS

-----------------------------------------------------------------------------
(* Induction *)

\* A set of numbers has a least one.
LEMMA LeastNat ==
  ASSUME NEW T \in SUBSET Nat, T # {}
  PROVE  \E n \in T : \A m \in T : n <= m
  <1> DEFINE R == {ss \in Nat \X Nat : ss[1] < ss[2]}
  <1>0. IsWellFoundedOn(R, Nat)
    BY NatLessThanWellFounded DEF OpToRel
  <1>1. \A m, n \in Nat : m < n => <<m, n>> \in R
    OBVIOUS
  <1>2. PICK n \in T : \A m \in T : ~(<<m, n>> \in R)
    <2> HIDE DEF R
    <2> QED BY <1>0, WFMin
  <1> HIDE DEF R
  <1>3. \A m \in T : ~(m < n)
    BY <1>1, <1>2
  <1> QED BY <1>3

\* What holds of the empty file, and of a file with one line more, holds of all files.
LEMMA InAllFiles ==
  ASSUME NEW S, NEW P \in SUBSET Seq(S), <<>> \in P,
         \A s \in P, e \in S : Append(s, e) \in P
  PROVE  P = Seq(S)
  <1> DEFINE T == {n \in Nat : \E s \in Seq(S) : Len(s) = n /\ s \notin P}
  <1>1. SUFFICES ASSUME T # {} PROVE FALSE
    <2>1. \A s \in Seq(S) : Len(s) \in Nat
      BY LenProperties
    <2> QED BY <2>1
  <1>2. PICK n \in T : \A m \in T : n <= m
    BY <1>1, LeastNat
  <1>3. PICK s \in Seq(S) : Len(s) = n /\ s \notin P
    BY <1>2
  <1>4. PICK t \in Seq(S), e \in S : s = Append(t, e)
    BY <1>3, SequenceEmptyOrAppend
  <1>5. Len(t) \in Nat /\ n = Len(t) + 1
    BY <1>3, <1>4, LenProperties, AppendProperties
  <1>6. t \in P
    <2>1. t \notin P => Len(t) \in T
      BY <1>5
    <2> HIDE DEF T
    <2>2. Len(t) \notin T
      BY <1>2, <1>5
    <2> QED BY <2>1, <2>2
  <1> QED BY <1>3, <1>4, <1>6

-----------------------------------------------------------------------------
(* The lines among W *)

\* A function that picks the lines of W out of the first n of s.
Picks(f, s, W, n) ==
    f = [k \in 0..n |-> IF k = 0 THEN <<>>
                        ELSE IF s[k] \in W THEN Append(f[k - 1], s[k]) ELSE f[k - 1]]

LEMMA OnlyIsPicked ==
  ASSUME NEW s, NEW W
  PROVE  Only(s, W) = (CHOOSE f : Picks(f, s, W, Len(s)))[Len(s)]
  BY Zenon DEF Only, Picks

LEMMA PicksEach ==
  ASSUME NEW f, NEW s, NEW W, NEW n, Picks(f, s, W, n), NEW k \in 0..n
  PROVE  f[k] = IF k = 0 THEN <<>>
                ELSE IF s[k] \in W THEN Append(f[k - 1], s[k]) ELSE f[k - 1]
  <1>1. f = [j \in 0..n |-> IF j = 0 THEN <<>>
                            ELSE IF s[j] \in W THEN Append(f[j - 1], s[j]) ELSE f[j - 1]]
    BY DEF Picks
  <1> DEFINE h == [j \in 0..n |-> IF j = 0 THEN <<>>
                            ELSE IF s[j] \in W THEN Append(f[j - 1], s[j]) ELSE f[j - 1]]
  <1>2. h[k] = IF k = 0 THEN <<>>
               ELSE IF s[k] \in W THEN Append(f[k - 1], s[k]) ELSE f[k - 1]
    OBVIOUS
  <1> HIDE DEF h
  <1>3. f = h
    BY <1>1 DEF h
  <1> QED BY <1>2, <1>3

\* There is one: the least number of lines without would have one.
LEMMA SomethingPicks ==
  ASSUME NEW s, NEW W, NEW n \in Nat
  PROVE  Picks(CHOOSE f : Picks(f, s, W, n), s, W, n)
  <1> SUFFICES \E f : Picks(f, s, W, n)
    OBVIOUS
  <1> DEFINE T == {m \in Nat : ~\E f : Picks(f, s, W, m)}
  <1>1. SUFFICES ASSUME T # {} PROVE FALSE
    OBVIOUS
  <1>2. PICK m \in T : \A k \in T : m <= k
    BY <1>1, LeastNat
  <1>3. CASE m = 0
    <2> DEFINE f == [k \in 0..0 |-> <<>>]
    <2>1. Picks(f, s, W, 0)
      BY DEF Picks
    <2> QED BY <1>2, <1>3, <2>1
  <1>4. CASE m # 0
    <2>1. m - 1 \in Nat /\ m - 1 \notin T
      BY <1>2, <1>4
    <2>2. PICK g : Picks(g, s, W, m - 1)
      BY <2>1
    <2> DEFINE f == [k \in 0..m |-> IF k = 0 THEN <<>>
                        ELSE IF s[k] \in W THEN Append(g[k - 1], s[k]) ELSE g[k - 1]]
    <2>3. ASSUME NEW k \in 0..(m - 1) PROVE f[k] = g[k]
      <3>1. k \in 0..m
        BY <2>1
      <3>2. f[k] = IF k = 0 THEN <<>>
                   ELSE IF s[k] \in W THEN Append(g[k - 1], s[k]) ELSE g[k - 1]
        BY <3>1
      <3> QED BY <2>2, <3>2, PicksEach
    <2>4. ASSUME NEW k \in 0..m, k # 0 PROVE g[k - 1] = f[k - 1]
      <3>1. k - 1 \in 0..(m - 1)
        BY <2>1, <2>4
      <3> QED BY <2>3, <3>1
    <2>5. Picks(f, s, W, m)
      BY <2>4 DEF Picks
    <2> QED BY <1>2, <2>5
  <1> QED BY <1>3, <1>4

LEMMA OnlyOfNothing ==
  ASSUME NEW W
  PROVE  Only(<<>>, W) = <<>>
  <1>1. Len(<<>>) = 0 /\ 0 \in 0..0
    BY EmptySeq
  <1>2. Only(<<>>, W) = (CHOOSE f : Picks(f, <<>>, W, 0))[0]
    BY <1>1, OnlyIsPicked
  <1> QED BY <1>1, <1>2, SomethingPicks, PicksEach

\* One line more.
LEMMA OnlyAppend ==
  ASSUME NEW s \in Seq(Lines), NEW e \in Lines, NEW W
  PROVE  Only(Append(s, e), W) = IF e \in W THEN Append(Only(s, W), e) ELSE Only(s, W)
  <1> DEFINE t == Append(s, e)
             n == Len(s)
             f == CHOOSE h : Picks(h, t, W, n + 1)
             g == CHOOSE h : Picks(h, s, W, n)
  <1>1. /\ n \in Nat /\ Len(t) = n + 1 /\ t[n + 1] = e
        /\ \A k \in 1..n : t[k] = s[k]
    BY LenProperties, AppendProperties
  <1>2. Picks(f, t, W, n + 1) /\ Picks(g, s, W, n)
    BY <1>1, SomethingPicks
  <1>3. Only(t, W) = f[n + 1] /\ Only(s, W) = g[n]
    BY <1>1, OnlyIsPicked
  <1> HIDE DEF t, n, f, g
  <1>4. \A k \in 0..n : f[k] = g[k]
    <2> DEFINE T == {k \in 0..n : f[k] # g[k]}
    <2> SUFFICES ASSUME T # {} PROVE FALSE
      OBVIOUS
    <2>0. T \in SUBSET Nat
      BY <1>1
    <2>1. PICK k \in T : \A j \in T : k <= j
      BY <2>0, LeastNat
    <2>2. /\ f[k] = IF k = 0 THEN <<>>
                    ELSE IF t[k] \in W THEN Append(f[k - 1], t[k]) ELSE f[k - 1]
          /\ g[k] = IF k = 0 THEN <<>>
                    ELSE IF s[k] \in W THEN Append(g[k - 1], s[k]) ELSE g[k - 1]
      <3>1. k \in 0..n /\ k \in 0..(n + 1)
        BY <1>1
      <3> QED BY <1>2, <3>1, PicksEach
    <2>3. k # 0 => k - 1 \in 0..n /\ f[k - 1] = g[k - 1] /\ t[k] = s[k]
      BY <1>1, <2>1
    <2> QED BY <2>2, <2>3
  <1>5. f[n + 1] = IF t[n + 1] \in W THEN Append(f[n], t[n + 1]) ELSE f[n]
    <2>1. n + 1 \in 0..(n + 1) /\ n + 1 # 0 /\ (n + 1) - 1 = n
      BY <1>1
    <2>2. f[n + 1] = IF n + 1 = 0 THEN <<>>
                     ELSE IF t[n + 1] \in W THEN Append(f[(n + 1) - 1], t[n + 1])
                          ELSE f[(n + 1) - 1]
      BY <1>2, <2>1, PicksEach
    <2> QED BY <2>1, <2>2
  <1>6. f[n] = g[n]
    BY <1>1, <1>4
  <1> QED BY <1>1, <1>3, <1>5, <1>6 DEF t

\* A file, and another with one line more.
LEMMA ConcatAppend ==
  ASSUME NEW s \in Seq(Lines), NEW r \in Seq(Lines), NEW e \in Lines
  PROVE  s \o Append(r, e) = Append(s \o r, e)
  <1>1. <<e>> \in Seq(Lines)
    OBVIOUS
  <1>2. Append(r, e) = r \o <<e>> /\ s \o r \in Seq(Lines)
    BY AppendIsConcat, ConcatProperties
  <1>3. Append(s \o r, e) = (s \o r) \o <<e>>
    BY <1>2, AppendIsConcat
  <1> QED BY <1>1, <1>2, <1>3, ConcatAssociative

LEMMA HasAppend ==
  ASSUME NEW s \in Seq(Lines), NEW e \in Lines, NEW l
  PROVE  Has(Append(s, e), l) <=> Has(s, l) \/ e = l
  <1>1. /\ DOMAIN s = 1..Len(s) /\ DOMAIN Append(s, e) = 1..(Len(s) + 1) /\ Len(s) \in Nat
        /\ \A i \in 1..Len(s) : Append(s, e)[i] = s[i]
        /\ Append(s, e)[Len(s) + 1] = e
    BY LenProperties, AppendProperties
  <1> QED BY <1>1 DEF Has

LEMMA HasNothing == \A l : ~Has(<<>>, l)
  BY EmptySeq DEF Has

LEMMA HasConcat ==
  ASSUME NEW s \in Seq(Lines), NEW t \in Seq(Lines), NEW l
  PROVE  Has(s \o t, l) <=> Has(s, l) \/ Has(t, l)
  <1>1. /\ DOMAIN s = 1..Len(s) /\ DOMAIN t = 1..Len(t) /\ Len(s) \in Nat /\ Len(t) \in Nat
        /\ DOMAIN (s \o t) = 1..(Len(s) + Len(t))
        /\ \A i \in 1..(Len(s) + Len(t)) :
              (s \o t)[i] = IF i <= Len(s) THEN s[i] ELSE t[i - Len(s)]
    BY LenProperties, ConcatProperties
  <1>2. ASSUME Has(t, l) PROVE Has(s \o t, l)
    <2>1. PICK k \in 1..Len(t) : t[k] = l
      BY <1>1, <1>2 DEF Has
    <2>2. k + Len(s) \in 1..(Len(s) + Len(t)) /\ (s \o t)[k + Len(s)] = l
      BY <1>1, <2>1
    <2> QED BY <1>1, <2>2 DEF Has
  <1>3. ASSUME Has(s, l) PROVE Has(s \o t, l)
    BY <1>1, <1>3 DEF Has
  <1>4. ASSUME Has(s \o t, l) PROVE Has(s, l) \/ Has(t, l)
    <2>1. PICK k \in 1..(Len(s) + Len(t)) : (s \o t)[k] = l
      BY <1>1, <1>4 DEF Has
    <2>2. CASE k <= Len(s)
      BY <1>1, <2>1, <2>2 DEF Has
    <2>3. CASE ~(k <= Len(s))
      <3>1. k - Len(s) \in 1..Len(t) /\ t[k - Len(s)] = l
        BY <1>1, <2>1, <2>3
      <3> QED BY <1>1, <3>1 DEF Has
    <2> QED BY <2>2, <2>3
  <1> QED BY <1>2, <1>3, <1>4

\* What is picked is a file, and has what is picked of what was there.
LEMMA OnlyHas ==
  ASSUME NEW s \in Seq(Lines), NEW W
  PROVE  /\ Only(s, W) \in Seq(Lines)
         /\ \A l : Has(Only(s, W), l) <=> l \in W /\ Has(s, l)
  <1> DEFINE P == {t \in Seq(Lines) : /\ Only(t, W) \in Seq(Lines)
                                      /\ \A l : Has(Only(t, W), l) <=> l \in W /\ Has(t, l)}
  <1>1. <<>> \in P
    BY EmptySeq, OnlyOfNothing, HasNothing
  <1>2. ASSUME NEW t \in P, NEW e \in Lines PROVE Append(t, e) \in P
    <2>1. Append(t, e) \in Seq(Lines)
      BY AppendProperties
    <2>2. CASE e \in W
      <3>1. Only(Append(t, e), W) = Append(Only(t, W), e)
        BY <2>2, OnlyAppend
      <3>2. Append(Only(t, W), e) \in Seq(Lines)
        BY AppendProperties
      <3>3. \A l : Has(Append(Only(t, W), e), l) <=> Has(Only(t, W), l) \/ e = l
        BY HasAppend
      <3>4. \A l : Has(Append(t, e), l) <=> Has(t, l) \/ e = l
        BY HasAppend
      <3> QED BY <2>1, <2>2, <3>1, <3>2, <3>3, <3>4
    <2>3. CASE e \notin W
      BY <2>1, <2>3, OnlyAppend, HasAppend
    <2> QED BY <2>2, <2>3
  <1> HIDE DEF P
  <1>3. P = Seq(Lines)
    BY <1>1, <1>2, InAllFiles DEF P
  <1> QED BY <1>3 DEF P

\* What is picked of two files is picked of each.
LEMMA OnlyConcat ==
  ASSUME NEW s \in Seq(Lines), NEW t \in Seq(Lines), NEW W
  PROVE  Only(s \o t, W) = Only(s, W) \o Only(t, W)
  <1> DEFINE P == {r \in Seq(Lines) : Only(s \o r, W) = Only(s, W) \o Only(r, W)}
  <1>1. <<>> \in P
    <2>1. s \o <<>> = s /\ Only(s, W) \o <<>> = Only(s, W)
      BY OnlyHas, ConcatEmptySeq
    <2> QED BY <2>1, EmptySeq, OnlyOfNothing
  <1>2. ASSUME NEW r \in P, NEW e \in Lines PROVE Append(r, e) \in P
    <2>1. Append(r, e) \in Seq(Lines) /\ s \o r \in Seq(Lines)
      BY AppendProperties, ConcatProperties
    <2>2. s \o Append(r, e) = Append(s \o r, e)
      BY ConcatAppend
    <2>3. CASE e \in W
      <3>1. Only(s \o Append(r, e), W) = Append(Only(s \o r, W), e)
        <4>1. Only(Append(s \o r, e), W) = Append(Only(s \o r, W), e)
          <5> HIDE DEF P
          <5> QED BY <2>1, <2>3, OnlyAppend
        <4> QED BY <2>2, <4>1
      <3>2. Only(s, W) \in Seq(Lines) /\ Only(r, W) \in Seq(Lines)
        BY OnlyHas
      <3>3. Only(s, W) \o Append(Only(r, W), e) = Append(Only(s, W) \o Only(r, W), e)
        BY <3>2, ConcatAppend
      <3>4. Only(Append(r, e), W) = Append(Only(r, W), e)
        BY <2>3, OnlyAppend
      <3>5. Only(s \o r, W) = Only(s, W) \o Only(r, W)
        OBVIOUS
      <3> HIDE DEF P
      <3>6. Only(s \o Append(r, e), W) = Only(s, W) \o Only(Append(r, e), W)
        BY <3>1, <3>3, <3>4, <3>5
      <3> QED BY <2>1, <3>6 DEF P
    <2>4. CASE e \notin W
      <3>1. Only(s \o Append(r, e), W) = Only(s \o r, W)
        <4>1. Only(Append(s \o r, e), W) = Only(s \o r, W)
          <5> HIDE DEF P
          <5> QED BY <2>1, <2>4, OnlyAppend
        <4> QED BY <2>2, <4>1
      <3>2. Only(Append(r, e), W) = Only(r, W)
        BY <2>4, OnlyAppend
      <3>3. Only(s \o r, W) = Only(s, W) \o Only(r, W)
        OBVIOUS
      <3> HIDE DEF P
      <3>4. Only(s \o Append(r, e), W) = Only(s, W) \o Only(Append(r, e), W)
        BY <3>1, <3>2, <3>3
      <3> QED BY <2>1, <3>4 DEF P
    <2> QED BY <2>3, <2>4
  <1> HIDE DEF P
  <1>3. P = Seq(Lines)
    BY <1>1, <1>2, InAllFiles DEF P
  <1> QED BY <1>3 DEF P

LEMMA OfAppend ==
  ASSUME NEW s \in Seq(Lines), NEW e \in Lines, NEW l
  PROVE  Of(Append(s, e), l) = IF e = l THEN Append(Of(s, l), e) ELSE Of(s, l)
  BY OnlyAppend DEF Of

\* What is picked again was picked before.
LEMMA OnlyTwice ==
  ASSUME NEW s \in Seq(Lines), NEW W, NEW l \in W
  PROVE  Of(Only(s, W), l) = Of(s, l)
  <1> DEFINE P == {r \in Seq(Lines) : Of(Only(r, W), l) = Of(r, l)}
  <1>1. <<>> \in P
    BY EmptySeq, OnlyOfNothing DEF Of
  <1>2. ASSUME NEW r \in P, NEW e \in Lines PROVE Append(r, e) \in P
    <2>1. Append(r, e) \in Seq(Lines) /\ Only(r, W) \in Seq(Lines)
      BY AppendProperties, OnlyHas
    <2>2. Of(Append(r, e), l) = IF e = l THEN Append(Of(r, l), e) ELSE Of(r, l)
      BY OfAppend
    <2>3. CASE e \in W
      <3>1. Only(Append(r, e), W) = Append(Only(r, W), e)
        BY <2>3, OnlyAppend
      <3>2. Of(Append(Only(r, W), e), l) =
               IF e = l THEN Append(Of(Only(r, W), l), e) ELSE Of(Only(r, W), l)
        <4> HIDE DEF P
        <4> QED BY <2>1, OfAppend
      <3>3. Of(Only(r, W), l) = Of(r, l)
        OBVIOUS
      <3> HIDE DEF P
      <3>4. Of(Only(Append(r, e), W), l) = Of(Append(r, e), l)
        BY <2>2, <3>1, <3>2, <3>3
      <3> QED BY <2>1, <3>4 DEF P
    <2>4. CASE e \notin W
      <3>1. Only(Append(r, e), W) = Only(r, W) /\ e # l
        BY <2>4, OnlyAppend
      <3>2. Of(Only(r, W), l) = Of(r, l)
        OBVIOUS
      <3>3. Of(Append(r, e), l) = Of(r, l)
        BY <2>2, <3>1
      <3> HIDE DEF P
      <3>4. Of(Only(Append(r, e), W), l) = Of(Append(r, e), l)
        BY <3>1, <3>2, <3>3
      <3> QED BY <2>1, <3>4 DEF P
    <2> QED BY <2>3, <2>4
  <1> HIDE DEF P
  <1>3. P = Seq(Lines)
    BY <1>1, <1>2, InAllFiles DEF P
  <1> QED BY <1>3 DEF P

\* Files in which nothing is the panel's.
Theirs == Seq({"theirs"})

LEMMA TheirsAreFiles == \A p \in Theirs : p \in Seq(Lines)
  <1> SUFFICES ASSUME NEW p \in Theirs PROVE p \in Seq(Lines)
    OBVIOUS
  <1>1. {"theirs"} \subseteq Lines
    BY DEF Lines
  <1> QED BY <1>1, SeqMonotonic DEF Theirs

LEMMA TheirsHave == \A p \in Theirs : \A l : Has(p, l) => l = "theirs"
  BY LenProperties DEF Theirs, Has

LEMMA OnlyTheirs ==
  ASSUME NEW p \in Theirs, NEW W
  PROVE  Only(p, W) = IF "theirs" \in W THEN p ELSE <<>>
  <1> DEFINE P == {r \in Theirs : Only(r, W) = IF "theirs" \in W THEN r ELSE <<>>}
  <1>1. <<>> \in P
    BY EmptySeq, OnlyOfNothing DEF Theirs
  <1>2. ASSUME NEW r \in P, NEW e \in {"theirs"} PROVE Append(r, e) \in P
    <2>1. Append(r, e) \in Theirs
      BY AppendProperties DEF Theirs
    <2>2. Only(Append(r, e), W) = IF e \in W THEN Append(Only(r, W), e) ELSE Only(r, W)
      BY TheirsAreFiles, OnlyAppend DEF Lines
    <2> QED BY <2>1, <2>2
  <1>3. P \in SUBSET Seq({"theirs"})
    BY DEF Theirs
  <1> HIDE DEF P
  <1>4. P = Theirs
    BY <1>1, <1>2, <1>3, InAllFiles DEF Theirs
  <1> QED BY <1>4 DEF P

-----------------------------------------------------------------------------
(* The lines outside the marks *)

Blank == [inside |-> FALSE, kept |-> <<>>]

\* What the scan does with a line.
ScanLine(scan, l) ==
    [inside |-> IF l = "begin" THEN TRUE ELSE IF l = "end" THEN FALSE ELSE scan.inside,
     kept   |-> IF l \in {"begin", "end"} \/ scan.inside THEN scan.kept
                ELSE Append(scan.kept, l)]

\* A function that scans the places of a file, the last first.
Scans(f, s, D) ==
    f = [r \in SUBSET D |-> IF r = {} THEN Blank ELSE ScanLine(f[r \ {Max(r)}], s[Max(r)])]

Scanned(s) == (CHOOSE f : Scans(f, s, DOMAIN s))[DOMAIN s]

LEMMA KeptIsScanned ==
  ASSUME NEW s
  PROVE  Kept(s) = Scanned(s).kept
  BY Zenon DEF Kept, FoldLeft, MapThenFoldSet, ScanLine, Scanned, Scans, Blank

\* The last of some places.
LEMMA LastPlace ==
  ASSUME NEW n \in Nat, NEW r \in SUBSET (1..n), r # {}
  PROVE  /\ Max(r) \in r /\ \A k \in r : k <= Max(r)
         /\ IsFiniteSet(r) /\ Cardinality(r) \in Nat /\ Cardinality(r) # 0
         /\ r \ {Max(r)} \in SUBSET (1..n) /\ Cardinality(r \ {Max(r)}) = Cardinality(r) - 1
  <1> DEFINE T == {m \in Nat : \A k \in r : k <= m}
  <1>1. n \in T /\ T \in SUBSET Nat
    OBVIOUS
  <1>2. PICK m \in T : \A j \in T : m <= j
    <2> HIDE DEF T
    <2> QED BY <1>1, LeastNat
  <1>3. m \in r
    <2> SUFFICES ASSUME m \notin r PROVE FALSE
      OBVIOUS
    <2>1. m # 0
      <3>1. PICK k \in r : TRUE
        OBVIOUS
      <3> QED BY <3>1
    <2>2. m - 1 \in Nat /\ \A k \in r : k <= m - 1
      BY <2>1
    <2>3. m - 1 \in T
      BY <2>2
    <2> QED BY <1>2, <2>3
  <1>4. Max(r) \in r /\ \A k \in r : Max(r) >= k
    BY <1>3 DEF Max
  <1>5. IsFiniteSet(r)
    <2>1. IsFiniteSet(1..n)
      BY FS_Interval
    <2> QED BY <2>1, FS_Subset
  <1> QED BY <1>4, <1>5, FS_CardinalityType, FS_EmptySet, FS_RemoveElement

\* One that scans no more than m of them at a time.
ScansUpTo(f, s, n, m) ==
    f = [r \in {q \in SUBSET (1..n) : Cardinality(q) <= m} |->
            IF r = {} THEN Blank ELSE ScanLine(f[r \ {Max(r)}], s[Max(r)])]

LEMMA SomethingScansUpTo ==
  ASSUME NEW s, NEW n \in Nat, NEW b \in Nat
  PROVE  \E f : ScansUpTo(f, s, n, b)
  <1> DEFINE T == {m \in Nat : ~\E f : ScansUpTo(f, s, n, m)}
  <1>1. SUFFICES ASSUME T # {} PROVE FALSE
    OBVIOUS
  <1>2. PICK m \in T : \A k \in T : m <= k
    BY <1>1, LeastNat
  <1>3. CASE m = 0
    <2> DEFINE f == [r \in {q \in SUBSET (1..n) : Cardinality(q) <= 0} |-> Blank]
    <2>1. ASSUME NEW r \in SUBSET (1..n), Cardinality(r) <= 0 PROVE r = {}
      <3>1. r # {} => Cardinality(r) \in Nat /\ Cardinality(r) # 0
        BY LastPlace
      <3> QED BY <2>1, <3>1
    <2>2. ScansUpTo(f, s, n, 0)
      BY <2>1 DEF ScansUpTo
    <2> QED BY <1>3, <2>2
  <1>4. CASE m # 0
    <2>1. m - 1 \in Nat /\ m - 1 \notin T
      BY <1>2, <1>4
    <2>2. PICK g : ScansUpTo(g, s, n, m - 1)
      BY <2>1
    <2> DEFINE f == [r \in {q \in SUBSET (1..n) : Cardinality(q) <= m} |->
                        IF r = {} THEN Blank ELSE ScanLine(g[r \ {Max(r)}], s[Max(r)])]
    <2>3. ASSUME NEW r \in SUBSET (1..n), Cardinality(r) <= m - 1 PROVE f[r] = g[r]
      <3>1. Cardinality(r) <= m
        <4>1. Cardinality(r) \in Nat
          <5>1. r = {} => Cardinality(r) \in Nat
            BY FS_EmptySet
          <5> QED BY <5>1, LastPlace
        <4> QED BY <2>3, <4>1
      <3>2. f[r] = IF r = {} THEN Blank ELSE ScanLine(g[r \ {Max(r)}], s[Max(r)])
        BY <3>1
      <3>3. g[r] = IF r = {} THEN Blank ELSE ScanLine(g[r \ {Max(r)}], s[Max(r)])
        BY <2>2, <2>3 DEF ScansUpTo
      <3> QED BY <3>2, <3>3
    <2>4. ASSUME NEW r \in SUBSET (1..n), Cardinality(r) <= m, r # {}
          PROVE  g[r \ {Max(r)}] = f[r \ {Max(r)}]
      <3>1. Cardinality(r \ {Max(r)}) <= m - 1 /\ r \ {Max(r)} \in SUBSET (1..n)
        BY <2>4, LastPlace
      <3> QED BY <2>3, <3>1
    <2>5. ScansUpTo(f, s, n, m)
      BY <2>4 DEF ScansUpTo
    <2> QED BY <1>2, <2>5
  <1> QED BY <1>3, <1>4

\* So the function the library's fold chooses is one that scans.
LEMMA SomethingScans ==
  ASSUME NEW s, NEW n \in Nat
  PROVE  Scans(CHOOSE f : Scans(f, s, 1..n), s, 1..n)
  <1>1. IsFiniteSet(1..n) /\ Cardinality(1..n) = n
    BY FS_Interval
  <1>2. \A r \in SUBSET (1..n) : Cardinality(r) <= n
    BY <1>1, FS_Subset
  <1>3. PICK f : ScansUpTo(f, s, n, n)
    BY SomethingScansUpTo
  <1>4. {q \in SUBSET (1..n) : Cardinality(q) <= n} = SUBSET (1..n)
    BY <1>2
  <1>5. Scans(f, s, 1..n)
    BY <1>3, <1>4 DEF Scans, ScansUpTo
  <1> QED BY <1>5

\* What it does with some places.
ScansAt(f, s, r) ==
    f[r] = IF r = {} THEN Blank ELSE ScanLine(f[r \ {Max(r)}], s[Max(r)])

LEMMA ScansEach ==
  ASSUME NEW f, NEW s, NEW D, Scans(f, s, D)
  PROVE  \A r \in SUBSET D : ScansAt(f, s, r)
  <1> SUFFICES ASSUME NEW r \in SUBSET D
               PROVE  f[r] = IF r = {} THEN Blank ELSE ScanLine(f[r \ {Max(r)}], s[Max(r)])
    BY DEF ScansAt
  <1> DEFINE h == [q \in SUBSET D |-> IF q = {} THEN Blank
                                      ELSE ScanLine(f[q \ {Max(q)}], s[Max(q)])]
  <1>1. f = h
    BY DEF Scans
  <1>2. h[r] = IF r = {} THEN Blank ELSE ScanLine(f[r \ {Max(r)}], s[Max(r)])
    OBVIOUS
  <1> HIDE DEF h
  <1> QED BY <1>1, <1>2

LEMMA ScanNothing == Scanned(<<>>) = Blank
  <1>1. DOMAIN <<>> = 1..0 /\ {} = 1..0
    OBVIOUS
  <1>2. Scans(CHOOSE f : Scans(f, <<>>, 1..0), <<>>, 1..0)
    BY SomethingScans
  <1>3. (CHOOSE f : Scans(f, <<>>, 1..0))[{}] = Blank
    <2> DEFINE f == CHOOSE h : Scans(h, <<>>, 1..0)
    <2>1. Scans(f, <<>>, 1..0)
      BY <1>2
    <2> HIDE DEF f
    <2>2. ScansAt(f, <<>>, {})
      BY <2>1, ScansEach
    <2>3. f[{}] = Blank
      BY <2>2 DEF ScansAt
    <2> QED BY <2>3 DEF f
  <1> QED BY <1>1, <1>3 DEF Scanned

\* One line more.
LEMMA ScanAppend ==
  ASSUME NEW s \in Seq(Lines), NEW e \in Lines
  PROVE  Scanned(Append(s, e)) = ScanLine(Scanned(s), e)
  <1> DEFINE t == Append(s, e)
             n == Len(s)
             f == CHOOSE h : Scans(h, t, 1..(n + 1))
             g == CHOOSE h : Scans(h, s, 1..n)
  <1>1. /\ n \in Nat /\ DOMAIN s = 1..n /\ DOMAIN t = 1..(n + 1) /\ t[n + 1] = e
        /\ \A k \in 1..n : t[k] = s[k]
    BY LenProperties, AppendProperties
  <1>2. Scans(f, t, 1..(n + 1)) /\ Scans(g, s, 1..n)
    BY <1>1, SomethingScans
  <1>3. Scanned(t) = f[1..(n + 1)] /\ Scanned(s) = g[1..n]
    BY <1>1 DEF Scanned
  <1> HIDE DEF t, n, f, g
  <1>a. \A r \in SUBSET (1..(n + 1)) : ScansAt(f, t, r)
    BY <1>2, ScansEach
  <1>b. \A r \in SUBSET (1..n) : ScansAt(g, s, r)
    BY <1>2, ScansEach
  <1>4. \A r \in SUBSET (1..n) : f[r] = g[r]
    <2> DEFINE T == {m \in Nat : \E r \in SUBSET (1..n) : Cardinality(r) = m /\ f[r] # g[r]}
    <2>1. SUFFICES ASSUME NEW r \in SUBSET (1..n), f[r] # g[r] PROVE FALSE
      OBVIOUS
    <2>2. T # {}
      <3>1. Cardinality(r) \in Nat
        <4>1. r = {} => Cardinality(r) \in Nat
          BY FS_EmptySet
        <4> QED BY <1>1, <4>1, LastPlace
      <3> QED BY <2>1, <3>1
    <2>3. PICK m \in T : \A j \in T : m <= j
      BY <2>2, LeastNat
    <2>4. PICK q \in SUBSET (1..n) : Cardinality(q) = m /\ f[q] # g[q]
      BY <2>3
    <2>5. /\ f[q] = IF q = {} THEN Blank ELSE ScanLine(f[q \ {Max(q)}], t[Max(q)])
          /\ g[q] = IF q = {} THEN Blank ELSE ScanLine(g[q \ {Max(q)}], s[Max(q)])
      <3>1. q \in SUBSET (1..(n + 1))
        BY <1>1
      <3>2. ScansAt(f, t, q) /\ ScansAt(g, s, q)
        <4> HIDE DEF T
        <4> QED BY <1>a, <1>b, <3>1
      <3> QED BY <3>2 DEF ScansAt
    <2>6. q # {}
      BY <2>4, <2>5
    <2>7. /\ Max(q) \in 1..n /\ q \ {Max(q)} \in SUBSET (1..n)
          /\ Cardinality(q \ {Max(q)}) = m - 1 /\ m \in Nat /\ m # 0
      BY <1>1, <2>4, <2>6, LastPlace
    <2>8. f[q \ {Max(q)}] = g[q \ {Max(q)}]
      <3>1. m - 1 \notin T /\ m - 1 \in Nat
        BY <2>3, <2>7
      <3> QED BY <2>7, <3>1
    <2> QED BY <1>1, <2>4, <2>5, <2>6, <2>7, <2>8
  <1>5. Max(1..(n + 1)) = n + 1
    <2>1. 1..(n + 1) \in SUBSET (1..(n + 1)) /\ 1..(n + 1) # {} /\ n + 1 \in Nat
          /\ n + 1 \in 1..(n + 1)
      <3>1. n + 1 \in Nat /\ n + 1 \in 1..(n + 1)
        BY <1>1
      <3> QED
        BY <3>1
    <2>2. Max(1..(n + 1)) \in 1..(n + 1) /\ \A k \in 1..(n + 1) : k <= Max(1..(n + 1))
      BY <2>1, LastPlace
    <2> QED BY <1>1, <2>1, <2>2
  <1>6. (1..(n + 1)) \ {n + 1} = 1..n /\ 1..(n + 1) # {}
    <2>1. \A k : k \in 1..(n + 1) /\ k # n + 1 <=> k \in 1..n
      BY <1>1
    <2>2. n + 1 \in 1..(n + 1)
      BY <1>1
    <2> QED BY <2>1, <2>2
  <1>7. f[1..(n + 1)] = ScanLine(f[1..n], t[n + 1])
    <2>1. f[1..(n + 1)] = IF 1..(n + 1) = {} THEN Blank
                          ELSE ScanLine(f[(1..(n + 1)) \ {Max(1..(n + 1))}], t[Max(1..(n + 1))])
      BY <1>a DEF ScansAt
    <2> QED BY <1>5, <1>6, <2>1
  <1>8. f[1..n] = g[1..n]
    BY <1>4
  <1> QED BY <1>1, <1>3, <1>7, <1>8 DEF t

\* Outside the marks, other people's lines are kept.
LEMMA ScanOn ==
  ASSUME NEW s \in Seq(Lines), NEW k \in Seq(Lines), NEW q \in Theirs,
         Scanned(s) = [inside |-> FALSE, kept |-> k]
  PROVE  Scanned(s \o q) = [inside |-> FALSE, kept |-> k \o q]
  <1> DEFINE P == {r \in Theirs : Scanned(s \o r) = [inside |-> FALSE, kept |-> k \o r]}
  <1>1. <<>> \in P
    <2>1. s \o <<>> = s /\ k \o <<>> = k
      BY ConcatEmptySeq
    <2> QED BY <2>1, EmptySeq DEF Theirs
  <1>2. ASSUME NEW r \in P, NEW e \in {"theirs"} PROVE Append(r, e) \in P
    <2>1. Append(r, e) \in Theirs /\ r \in Seq(Lines) /\ e \in Lines
      BY TheirsAreFiles, AppendProperties DEF Theirs, Lines
    <2>2. Scanned(s \o r) = [inside |-> FALSE, kept |-> k \o r]
      OBVIOUS
    <2> HIDE DEF P
    <2>3. s \o Append(r, e) = Append(s \o r, e) /\ k \o Append(r, e) = Append(k \o r, e)
      BY <2>1, ConcatAppend
    <2>4. Scanned(Append(s \o r, e)) = ScanLine(Scanned(s \o r), e)
      BY <2>1, ConcatProperties, ScanAppend
    <2>5. ScanLine([inside |-> FALSE, kept |-> k \o r], e)
             = [inside |-> FALSE, kept |-> Append(k \o r, e)]
      BY DEF ScanLine
    <2>6. Scanned(s \o Append(r, e)) = [inside |-> FALSE, kept |-> k \o Append(r, e)]
      BY <2>2, <2>3, <2>4, <2>5
    <2> QED BY <2>1, <2>6 DEF P
  <1>3. P \in SUBSET Seq({"theirs"})
    BY DEF Theirs
  <1> HIDE DEF P
  <1>4. P = Theirs
    BY <1>1, <1>2, <1>3, InAllFiles DEF Theirs
  <1> QED BY <1>4 DEF P

LEMMA AppendToOne ==
  ASSUME NEW x, NEW y
  PROVE  Append(<<x>>, y) = <<x, y>>
  <1> DEFINE r == Append(<<x>>, y)
             t == <<x, y>>
  <1>1. <<x>> \in Seq({x, y}) /\ t \in Seq({x, y}) /\ Len(<<x>>) = 1 /\ Len(t) = 2
    OBVIOUS
  <1>2. r \in Seq({x, y}) /\ Len(r) = 2 /\ r[1] = x /\ r[2] = y
    BY <1>1, AppendProperties
  <1>3. \A i \in 1..2 : r[i] = t[i]
    BY <1>2
  <1> QED BY <1>1, <1>2, <1>3, SeqEqual

LEMMA AppendToTwo ==
  ASSUME NEW x, NEW y, NEW z
  PROVE  Append(<<x, y>>, z) = <<x, y, z>>
  <1> DEFINE r == Append(<<x, y>>, z)
             t == <<x, y, z>>
  <1>1. <<x, y>> \in Seq({x, y, z}) /\ t \in Seq({x, y, z}) /\ Len(<<x, y>>) = 2 /\ Len(t) = 3
    OBVIOUS
  <1>2. r \in Seq({x, y, z}) /\ Len(r) = 3 /\ r[1] = x /\ r[2] = y /\ r[3] = z
    BY <1>1, AppendProperties
  <1>3. \A i \in 1..3 : r[i] = t[i]
    BY <1>2
  <1> QED BY <1>1, <1>2, <1>3, SeqEqual

LEMMA BlockIsLines ==
  ASSUME NEW p \in Seq(Lines)
  PROVE  /\ Block \in Seq(Lines)
         /\ p \o Block = Append(Append(Append(p, "begin"), "block"), "end")
  <1>1. /\ Append(<<>>, "begin") = <<"begin">>
        /\ Append(<<"begin">>, "block") = <<"begin", "block">>
        /\ Append(<<"begin", "block">>, "end") = Block
    <2>1. Append(<<>>, "begin") = <<"begin">>
      OBVIOUS
    <2>2. Append(<<"begin">>, "block") = <<"begin", "block">>
      BY AppendToOne
    <2>3. Append(<<"begin", "block">>, "end") = Block
      BY AppendToTwo DEF Block
    <2> QED BY <2>1, <2>2, <2>3
  <1>2. /\ "begin" \in Lines /\ "block" \in Lines /\ "end" \in Lines
        /\ <<>> \in Seq(Lines) /\ <<"begin">> \in Seq(Lines)
        /\ <<"begin", "block">> \in Seq(Lines) /\ Block \in Seq(Lines)
    BY DEF Block, Lines
  <1>3. p \o <<>> = p
    BY ConcatEmptySeq
  <1>4. p \o <<"begin">> = Append(p, "begin")
    BY <1>1, <1>2, <1>3, ConcatAppend
  <1>5. p \o <<"begin", "block">> = Append(Append(p, "begin"), "block")
    BY <1>1, <1>2, <1>4, ConcatAppend
  <1>6. p \o Block = Append(Append(Append(p, "begin"), "block"), "end")
    <2>1. p \o Append(<<"begin", "block">>, "end") = Append(p \o <<"begin", "block">>, "end")
      BY <1>2, ConcatAppend
    <2> QED BY <1>1, <1>5, <2>1
  <1> QED BY <1>2, <1>6

LEMMA KeptOfTheirs ==
  ASSUME NEW p \in Theirs
  PROVE  Scanned(p) = [inside |-> FALSE, kept |-> p] /\ Kept(p) = p
  <1>1. <<>> \in Seq(Lines) /\ <<>> \o p = p
    BY TheirsAreFiles, ConcatEmptySeq
  <1>2. Scanned(<<>>) = [inside |-> FALSE, kept |-> <<>>]
    BY ScanNothing DEF Blank
  <1>3. Scanned(<<>> \o p) = [inside |-> FALSE, kept |-> <<>> \o p]
    BY <1>1, <1>2, ScanOn
  <1> QED BY <1>1, <1>3, KeptIsScanned

LEMMA KeptOfBlock ==
  ASSUME NEW p \in Theirs, NEW q \in Theirs
  PROVE  Kept((p \o Block) \o q) = p \o q
  <1> DEFINE a == Append(p, "begin")
             b == Append(a, "block")
             c == Append(b, "end")
  <1>1. /\ p \in Seq(Lines) /\ "begin" \in Lines /\ "block" \in Lines /\ "end" \in Lines
        /\ a \in Seq(Lines) /\ b \in Seq(Lines) /\ c \in Seq(Lines)
    <2>1. p \in Seq(Lines) /\ "begin" \in Lines /\ "block" \in Lines /\ "end" \in Lines
      BY TheirsAreFiles DEF Lines
    <2>2. a \in Seq(Lines)
      BY <2>1, AppendProperties
    <2>3. b \in Seq(Lines)
      BY <2>1, <2>2, AppendProperties
    <2>4. c \in Seq(Lines)
      BY <2>1, <2>3, AppendProperties
    <2> QED BY <2>1, <2>2, <2>3, <2>4
  <1>2. p \o Block = c
    BY <1>1, BlockIsLines
  <1>3. Scanned(a) = ScanLine(Scanned(p), "begin")
    BY <1>1, ScanAppend
  <1>4. Scanned(b) = ScanLine(Scanned(a), "block")
    BY <1>1, ScanAppend
  <1>5. Scanned(c) = ScanLine(Scanned(b), "end")
    BY <1>1, ScanAppend
  <1> HIDE DEF a, b, c
  <1>6. Scanned(a) = [inside |-> TRUE, kept |-> p]
    <2>1. Scanned(p) = [inside |-> FALSE, kept |-> p]
      BY KeptOfTheirs
    <2> QED BY <1>3, <2>1 DEF ScanLine
  <1>7. Scanned(b) = [inside |-> TRUE, kept |-> p]
    BY <1>4, <1>6 DEF ScanLine
  <1>8. Scanned(c) = [inside |-> FALSE, kept |-> p]
    BY <1>5, <1>7 DEF ScanLine
  <1>9. Scanned(c \o q) = [inside |-> FALSE, kept |-> p \o q]
    BY <1>1, <1>8, ScanOn
  <1> QED BY <1>2, <1>9, KeptIsScanned

LEMMA TheirsConcat ==
  ASSUME NEW p \in Theirs, NEW q \in Theirs
  PROVE  p \o q \in Theirs
  BY ConcatProperties DEF Theirs

LEMMA OnlyBlock ==
  ASSUME NEW W, "begin" \notin W, "block" \notin W, "end" \notin W
  PROVE  Only(Block, W) = <<>>
  <1>1. <<>> \o Block = Block /\ <<>> \in Seq(Lines)
    BY BlockIsLines, ConcatEmptySeq
  <1>2. Block = Append(Append(Append(<<>>, "begin"), "block"), "end")
    BY <1>1, BlockIsLines
  <1>3. /\ "begin" \in Lines /\ "block" \in Lines /\ "end" \in Lines
        /\ Append(<<>>, "begin") \in Seq(Lines)
        /\ Append(Append(<<>>, "begin"), "block") \in Seq(Lines)
    BY AppendProperties DEF Lines
  <1>4. Only(Append(<<>>, "begin"), W) = <<>>
    BY <1>1, <1>3, OnlyAppend, OnlyOfNothing
  <1>5. Only(Append(Append(<<>>, "begin"), "block"), W) = <<>>
    BY <1>3, <1>4, OnlyAppend
  <1>6. Only(Append(Append(Append(<<>>, "begin"), "block"), "end"), W) = <<>>
    BY <1>3, <1>5, OnlyAppend
  <1> QED BY <1>2, <1>6

LEMMA AppendToThree ==
  ASSUME NEW x, NEW y, NEW z, NEW w
  PROVE  Append(<<x, y, z>>, w) = <<x, y, z, w>>
  <1> DEFINE r == Append(<<x, y, z>>, w)
             t == <<x, y, z, w>>
             S == {x, y, z, w}
  <1>1. <<x, y, z>> \in Seq(S) /\ t \in Seq(S) /\ Len(<<x, y, z>>) = 3 /\ Len(t) = 4
    OBVIOUS
  <1>2. r \in Seq(S) /\ Len(r) = 4 /\ r[1] = x /\ r[2] = y /\ r[3] = z /\ r[4] = w
    BY <1>1, AppendProperties
  <1>3. \A i \in 1..4 : r[i] = t[i]
    BY <1>2
  <1> QED BY <1>1, <1>2, <1>3, SeqEqual

LEMMA AppendToFour ==
  ASSUME NEW x, NEW y, NEW z, NEW w, NEW v
  PROVE  Append(<<x, y, z, w>>, v) = <<x, y, z, w, v>>
  <1> DEFINE r == Append(<<x, y, z, w>>, v)
             t == <<x, y, z, w, v>>
             S == {x, y, z, w, v}
  <1>1. <<x, y, z, w>> \in Seq(S) /\ t \in Seq(S) /\ Len(<<x, y, z, w>>) = 4 /\ Len(t) = 5
    OBVIOUS
  <1>2. r \in Seq(S) /\ Len(r) = 5 /\ r[1] = x /\ r[2] = y /\ r[3] = z /\ r[4] = w /\ r[5] = v
    BY <1>1, AppendProperties
  <1>3. \A i \in 1..5 : r[i] = t[i]
    BY <1>2
  <1> QED BY <1>1, <1>2, <1>3, SeqEqual

\* The panel's block is there, once.
Blocked(s) == \E p, q \in Theirs : s = (p \o Block) \o q

\* The files of an older installation.
LEMMA OlderFiles ==
  /\ <<>> \in Theirs
  /\ Blocked(<<"begin", "block", "end", "theirs">>)
  /\ Blocked(<<"theirs", "begin", "block", "end", "theirs">>)
  <1>1. /\ <<>> \in Theirs /\ <<"theirs">> \in Theirs /\ <<"theirs">> \in Seq(Lines)
        /\ <<>> \in Seq(Lines) /\ Block \in Seq(Lines) /\ "theirs" \in Lines
    <2>1. <<>> \in Seq(Lines)
      BY EmptySeq
    <2>2. Block \in Seq(Lines)
      BY <2>1, BlockIsLines
    <2>3. <<>> \in Theirs /\ <<"theirs">> \in Theirs /\ <<"theirs">> \in Seq(Lines)
          /\ "theirs" \in Lines
      BY DEF Theirs, Lines
    <2> QED BY <2>1, <2>2, <2>3
  <1>2. <<>> \o Block = Block
    BY <1>1, ConcatEmptySeq
  <1>3. Block \o <<"theirs">> = <<"begin", "block", "end", "theirs">>
    <2>1. Append(Block, "theirs") = Block \o <<"theirs">>
      BY <1>1, AppendIsConcat
    <2>2. Append(Block, "theirs") = <<"begin", "block", "end", "theirs">>
      BY AppendToThree DEF Block
    <2> QED BY <2>1, <2>2
  <1>4. <<"theirs">> \o Block = <<"theirs", "begin", "block", "end">>
    <2>1. <<"theirs">> \o Block = Append(Append(Append(<<"theirs">>, "begin"), "block"), "end")
      BY <1>1, BlockIsLines
    <2>2. Append(<<"theirs">>, "begin") = <<"theirs", "begin">>
      BY AppendToOne
    <2>3. Append(<<"theirs", "begin">>, "block") = <<"theirs", "begin", "block">>
      BY AppendToTwo
    <2>4. Append(<<"theirs", "begin", "block">>, "end") = <<"theirs", "begin", "block", "end">>
      BY AppendToThree
    <2> QED BY <2>1, <2>2, <2>3, <2>4
  <1>5. <<"theirs", "begin", "block", "end">> \o <<"theirs">>
           = <<"theirs", "begin", "block", "end", "theirs">>
    <2>1. <<"theirs", "begin", "block", "end">> \in Seq(Lines)
      BY DEF Lines
    <2>2. Append(<<"theirs", "begin", "block", "end">>, "theirs")
             = <<"theirs", "begin", "block", "end">> \o <<"theirs">>
      BY <1>1, <2>1, AppendIsConcat
    <2>3. Append(<<"theirs", "begin", "block", "end">>, "theirs")
             = <<"theirs", "begin", "block", "end", "theirs">>
      BY AppendToFour
    <2> QED BY <2>2, <2>3
  <1>6. Blocked(<<"begin", "block", "end", "theirs">>)
    BY <1>1, <1>2, <1>3 DEF Blocked
  <1>7. Blocked(<<"theirs", "begin", "block", "end", "theirs">>)
    BY <1>1, <1>4, <1>5 DEF Blocked
  <1> QED BY <1>1, <1>6, <1>7

LEMMA BlockedIsLines ==
  ASSUME NEW s, Blocked(s)
  PROVE  /\ s \in Seq(Lines) /\ Has(s, "begin") /\ Has(s, "block")
         /\ Of(s, "begin") = <<"begin">> /\ Kept(s) \in Theirs
         /\ Of(s, "theirs") = Kept(s)
  <1>1. PICK p, q \in Theirs : s = (p \o Block) \o q
    BY DEF Blocked
  <1>2. p \in Seq(Lines) /\ q \in Seq(Lines) /\ Block \in Seq(Lines) /\ p \o Block \in Seq(Lines)
        /\ s \in Seq(Lines)
    <2>1. p \in Seq(Lines) /\ q \in Seq(Lines) /\ Block \in Seq(Lines)
      BY TheirsAreFiles, BlockIsLines
    <2>2. p \o Block \in Seq(Lines)
      BY <2>1, ConcatProperties
    <2> QED BY <1>1, <2>1, <2>2, ConcatProperties
  <1>3. Has(Block, "begin") /\ Has(Block, "block")
    <2>1. 1 \in DOMAIN Block /\ 2 \in DOMAIN Block /\ Block[1] = "begin" /\ Block[2] = "block"
      BY DEF Block
    <2> QED BY <2>1 DEF Has
  <1>4. Has(s, "begin") /\ Has(s, "block")
    BY <1>1, <1>2, <1>3, HasConcat
  <1>5. Kept(s) = p \o q /\ Kept(s) \in Theirs
    BY <1>1, KeptOfBlock, TheirsConcat
  <1>6. \A W : Only(s, W) = (Only(p, W) \o Only(Block, W)) \o Only(q, W)
    <2> TAKE W
    <2>1. Only((p \o Block) \o q, W) = Only(p \o Block, W) \o Only(q, W)
      BY <1>2, OnlyConcat
    <2>2. Only(p \o Block, W) = Only(p, W) \o Only(Block, W)
      BY <1>2, OnlyConcat
    <2> QED BY <1>1, <2>1, <2>2
  <1>7. Of(s, "theirs") = p \o q
    <2>1. Only(Block, {"theirs"}) = <<>>
      BY OnlyBlock
    <2>2. Only(p, {"theirs"}) = p /\ Only(q, {"theirs"}) = q
      BY OnlyTheirs
    <2>3. p \o <<>> = p
      BY <1>2, ConcatEmptySeq
    <2> QED BY <1>6, <2>1, <2>2, <2>3 DEF Of
  <1>8. Of(s, "begin") = <<"begin">>
    <2>1. Only(p, {"begin"}) = <<>> /\ Only(q, {"begin"}) = <<>>
      BY OnlyTheirs
    <2>2. Only(Block, {"begin"}) = <<"begin">>
      <3>1. <<>> \o Block = Block /\ <<>> \in Seq(Lines)
        BY BlockIsLines, ConcatEmptySeq
      <3>2. Block = Append(Append(Append(<<>>, "begin"), "block"), "end")
        BY <3>1, BlockIsLines
      <3>3. /\ "begin" \in Lines /\ "block" \in Lines /\ "end" \in Lines
            /\ Append(<<>>, "begin") \in Seq(Lines)
            /\ Append(Append(<<>>, "begin"), "block") \in Seq(Lines)
        BY AppendProperties DEF Lines
      <3>4. Only(Append(<<>>, "begin"), {"begin"}) = Append(<<>>, "begin")
        <4>1. Only(<<>>, {"begin"}) = <<>>
          BY OnlyOfNothing
        <4>2. Only(Append(<<>>, "begin"), {"begin"}) = Append(Only(<<>>, {"begin"}), "begin")
          BY <3>1, <3>3, OnlyAppend
        <4> QED BY <4>1, <4>2
      <3>5. Only(Append(Append(<<>>, "begin"), "block"), {"begin"}) = Append(<<>>, "begin")
        BY <3>3, <3>4, OnlyAppend
      <3>6. Only(Block, {"begin"}) = Append(<<>>, "begin")
        BY <3>2, <3>3, <3>5, OnlyAppend
      <3> QED BY <3>6
    <2>3. (<<>> \o <<"begin">>) \o <<>> = <<"begin">>
      <3>1. <<"begin">> \in Seq({"begin"})
        OBVIOUS
      <3> QED BY <3>1, ConcatEmptySeq
    <2> QED BY <1>6, <2>1, <2>2, <2>3 DEF Of
  <1> QED BY <1>2, <1>4, <1>5, <1>7, <1>8

\* What setup writes, and what it and teardown take out.
LEMMA UpsertBlocks ==
  ASSUME NEW s, s \in Theirs \/ Blocked(s)
  PROVE  /\ s \in Seq(Lines) /\ Blocked(Upsert(s))
         /\ Kept(s) \in Theirs /\ Of(Kept(s), "theirs") = Of(s, "theirs")
         /\ Of(Upsert(s), "theirs") = Of(s, "theirs")
  <1>1. s \in Seq(Lines) /\ Kept(s) \in Theirs /\ Of(s, "theirs") = Kept(s)
    BY BlockedIsLines, KeptOfTheirs, TheirsAreFiles, OnlyTheirs DEF Of
  <1>2. Of(Kept(s), "theirs") = Kept(s)
    BY <1>1, OnlyTheirs DEF Of
  <1>3. ASSUME NEW t \in Theirs PROVE Blocked(Block \o t) /\ Of(Block \o t, "theirs") = t
    <2>1. <<>> \in Theirs /\ <<>> \o Block = Block /\ Block \in Seq(Lines) /\ t \in Seq(Lines)
      BY BlockIsLines, ConcatEmptySeq, TheirsAreFiles DEF Theirs
    <2>2. Blocked(Block \o t)
      BY <2>1 DEF Blocked
    <2>3. Only(Block \o t, {"theirs"}) = Only(Block, {"theirs"}) \o Only(t, {"theirs"})
      BY <2>1, OnlyConcat
    <2>4. Only(Block, {"theirs"}) = <<>> /\ Only(t, {"theirs"}) = t /\ <<>> \o t = t
      BY <2>1, OnlyBlock, OnlyTheirs, ConcatEmptySeq
    <2> QED BY <2>2, <2>3, <2>4 DEF Of
  <1> QED BY <1>1, <1>2, <1>3 DEF Upsert

\* A line of somebody's before or after.
LEMMA EditTheirs ==
  ASSUME NEW s \in Theirs
  PROVE  <<"theirs">> \o s \in Theirs /\ Append(s, "theirs") \in Theirs
  BY ConcatProperties, AppendProperties DEF Theirs

LEMMA EditBlocked ==
  ASSUME NEW s, Blocked(s)
  PROVE  Blocked(<<"theirs">> \o s) /\ Blocked(Append(s, "theirs"))
  <1>1. PICK p, q \in Theirs : s = (p \o Block) \o q
    BY DEF Blocked
  <1> DEFINE u == <<"theirs">>
  <1>2. /\ p \in Seq(Lines) /\ q \in Seq(Lines) /\ Block \in Seq(Lines) /\ p \o Block \in Seq(Lines)
        /\ u \in Seq(Lines) /\ "theirs" \in Lines
    BY TheirsAreFiles, BlockIsLines, ConcatProperties DEF Lines
  <1>3. u \o p \in Theirs /\ Append(q, "theirs") \in Theirs
    BY EditTheirs
  <1> HIDE DEF u
  <1>4. u \o ((p \o Block) \o q) = (u \o (p \o Block)) \o q
    <2> DEFINE b == p \o Block
    <2>1. b \in Seq(Lines)
      BY <1>2
    <2> HIDE DEF b
    <2>2. (u \o b) \o q = u \o (b \o q)
      BY ONLY <1>2, <2>1, ConcatAssociative
    <2> QED BY <2>2 DEF b
  <1>5. u \o (p \o Block) = (u \o p) \o Block
    BY <1>2, ConcatAssociative
  <1>6. Append((p \o Block) \o q, "theirs") = (p \o Block) \o Append(q, "theirs")
    BY <1>2, ConcatAppend
  <1>7. Blocked(u \o s)
    BY <1>1, <1>3, <1>4, <1>5 DEF Blocked
  <1>8. Blocked(Append(s, "theirs"))
    BY <1>1, <1>3, <1>6 DEF Blocked
  <1> QED BY <1>7, <1>8 DEF u

LEMMA EditMain ==
  ASSUME NEW s \in Seq(Lines), NEW t \in {<<"theirs">> \o s, Append(s, "theirs")}
  PROVE  t \in Seq(Lines) /\ \A l : l # "theirs" => (Has(t, l) <=> Has(s, l))
  <1>1. <<"theirs">> \in Theirs /\ <<"theirs">> \in Seq(Lines) /\ "theirs" \in Lines
    BY DEF Theirs, Lines
  <1>2. CASE t = <<"theirs">> \o s
    <2>1. t \in Seq(Lines)
      BY <1>1, <1>2, ConcatProperties
    <2>2. \A l : Has(t, l) <=> Has(<<"theirs">>, l) \/ Has(s, l)
      BY <1>1, <1>2, HasConcat
    <2> QED BY <1>1, <2>1, <2>2, TheirsHave
  <1>3. CASE t = Append(s, "theirs")
    BY <1>1, <1>3, AppendProperties, HasAppend
  <1> QED BY <1>2, <1>3

\* The includes.
LEMMA OutOfMain ==
  ASSUME NEW s \in Seq(Lines), NEW W, "inc" \notin W, {"dropin", "theirs"} \subseteq W
  PROVE  /\ Only(s, W) \in Seq(Lines) /\ ~Has(Only(s, W), "inc")
         /\ Has(Only(s, W), "dropin") <=> Has(s, "dropin")
         /\ Of(Only(s, W), "theirs") = Of(s, "theirs")
  BY OnlyHas, OnlyTwice

LEMMA Retires ==
  ASSUME NEW s \in Seq(Lines)
  PROVE  /\ StripInclude(s) \in Seq(Lines) /\ ~Has(StripInclude(s), "inc")
         /\ Has(StripInclude(s), "dropin") <=> Has(s, "dropin")
         /\ Of(StripInclude(s), "theirs") = Of(s, "theirs")
  <1> DEFINE W == Lines \ {"ibegin", "inc", "iend"}
  <1>1. "inc" \notin W /\ {"dropin", "theirs"} \subseteq W
    BY DEF Lines
  <1> HIDE DEF W
  <1> QED BY <1>1, OutOfMain DEF StripInclude, W

LEMMA Filters ==
  ASSUME NEW s \in Seq(Lines)
  PROVE  /\ FilterInclude(s) \in Seq(Lines) /\ ~Has(FilterInclude(s), "inc")
         /\ Of(FilterInclude(s), "theirs") = Of(s, "theirs")
  <1> DEFINE W == Lines \ {"inc"}
  <1>1. "inc" \notin W /\ {"dropin", "theirs"} \subseteq W
    BY DEF Lines
  <1> HIDE DEF W
  <1> QED BY <1>1, OutOfMain DEF FilterInclude, W

LEMMA Includes ==
  ASSUME NEW s \in Seq(Lines)
  PROVE  LET t == s \o <<"ibegin", "inc", "iend">>
         IN  /\ t \in Seq(Lines) /\ Has(t, "inc")
             /\ Has(t, "dropin") <=> Has(s, "dropin")
             /\ Of(t, "theirs") = Of(s, "theirs")
  <1> DEFINE u == <<"ibegin", "inc", "iend">>
  <1>1. u \in Seq(Lines) /\ DOMAIN u = 1..3 /\ u[1] = "ibegin" /\ u[2] = "inc" /\ u[3] = "iend"
    BY DEF Lines
  <1>2. Has(u, "inc") /\ ~Has(u, "dropin")
    BY <1>1 DEF Has
  <1>3. Only(u, {"theirs"}) = <<>>
    <2>1. Only(u, {"theirs"}) \in Seq(Lines) /\ \A l : ~Has(Only(u, {"theirs"}), l)
      <3>1. ~Has(u, "theirs")
        BY <1>1 DEF Has
      <3>2. Only(u, {"theirs"}) \in Seq(Lines)
            /\ \A l : Has(Only(u, {"theirs"}), l) <=> l \in {"theirs"} /\ Has(u, l)
        <4> HIDE DEF u
        <4> QED BY <1>1, OnlyHas
      <3> QED BY <3>1, <3>2
    <2> HIDE DEF u
    <2>2. Len(Only(u, {"theirs"})) \in Nat /\ DOMAIN Only(u, {"theirs"}) = 1..Len(Only(u, {"theirs"}))
      BY <2>1, LenProperties
    <2>3. Len(Only(u, {"theirs"})) # 0 => 1 \in DOMAIN Only(u, {"theirs"})
      BY <2>2
    <2>4. Len(Only(u, {"theirs"})) = 0
      BY <2>1, <2>3 DEF Has
    <2> QED BY <2>1, <2>4, EmptySeq
  <1> HIDE DEF u
  <1>4. /\ s \o u \in Seq(Lines)
        /\ \A l : Has(s \o u, l) <=> Has(s, l) \/ Has(u, l)
        /\ Only(s \o u, {"theirs"}) = Only(s, {"theirs"}) \o Only(u, {"theirs"})
    BY <1>1, ConcatProperties, HasConcat, OnlyConcat
  <1>5. Only(s, {"theirs"}) \o <<>> = Only(s, {"theirs"})
    BY OnlyHas, ConcatEmptySeq
  <1> QED BY <1>2, <1>3, <1>4, <1>5 DEF Of, u

LEMMA RegeneratedIs == Regenerated \in Seq(Lines) /\ ~Has(Regenerated, "inc")
  <1>1. <<"dropin">> \in Seq(Lines) /\ ~Has(<<"dropin">>, "inc")
    BY DEF Lines, Has
  <1>2. <<>> \in Seq(Lines)
    OBVIOUS
  <1> QED BY <1>1, <1>2, HasNothing DEF Regenerated

\* What vhosts are generated with.
LEMMA GeneratedIs ==
  /\ Blocked(five) /\ seven \in Theirs => Generated = {"routed"}
  /\ five \in Theirs /\ seven \in Theirs => Generated = {}
  <1>1. \A p \in Theirs : ~Has(p, "block")
    BY TheirsHave
  <1>2. Blocked(five) => Has(five, "block")
    BY BlockedIsLines
  <1> QED BY <1>1, <1>2 DEF Generated

-----------------------------------------------------------------------------
(* What holds on the way *)

\* The steps of setup from each on, where what went before leads to something.
FromUnits   == {"s_units", "s_done"}
FromInclude == {"s_include", "s_append", "s_retire"} \cup FromUnits
FromRebuild == {"s_rebuild"} \cup FromInclude
FromWebUser == {"s_web_user"} \cup FromRebuild
FromSeven   == {"s_seven", "s_seven_w"} \cup FromWebUser
FromFive    == {"s_five", "s_five_w"} \cup FromSeven
FromChown   == {"s_chown", "s_modes", "s_setuid"} \cup FromFive
FromBase    == {"s_base"} \cup FromChown

\* And of teardown.
OnceDown    == {"t_done"}
OnceRebuilt == {"t_rebuild"} \cup OnceDown
OnceFiles   == {"t_files"} \cup OnceRebuilt
OnceMain    == {"t_main", "t_main_w"} \cup OnceFiles
OnceSeven   == {"t_seven", "t_seven_w"} \cup OnceMain
OnceFive    == {"t_five", "t_five_w"} \cup OnceSeven
OnceBase    == {"t_base"} \cup OnceFive
OnceUnits   == {"t_units"} \cup OnceBase

Shaped == /\ five \in Theirs \/ Blocked(five)
          /\ seven \in Theirs \/ Blocked(seven)

\* What a setup has done that nothing of it failed in.
SetUp ==
    okay =>
        /\ pc \in FromBase => {"da_user", "da_cgi_user"} \subseteq known
        /\ pc \in FromChown => base
        /\ pc \in FromFive => tree = "ready"
        /\ pc \in FromSeven => Blocked(five)
        /\ pc \in FromWebUser /\ legible => seven \in Theirs
        /\ pc \in FromRebuild => "ols_web_user" \in known
        /\ pc \in FromInclude /\ rebuilt /\ legible => vhosts = {"routed"}
        /\ pc \in FromUnits /\ alone => (ReadsDropIns <=> ~Has(main, "inc"))
        /\ pc = "s_done" => timer

\* What a teardown has undone.
TornDown ==
    /\ pc \in OnceUnits /\ alone => sync = "idle"
    /\ okay =>
        /\ pc \in OnceBase => ~timer
        /\ pc \in OnceFive => ~base
        /\ pc \in OnceSeven /\ legible => five \in Theirs
        /\ pc \in OnceMain /\ legible => seven \in Theirs
        /\ pc \in OnceFiles /\ alone => ~Has(main, "inc")
        /\ pc \in OnceRebuilt /\ alone => handlers = {}
        /\ pc \in OnceDown /\ rebuilt /\ legible => vhosts = {}

\* What has been read, and not yet been written.
Reads ==
    /\ pc \in {"s_five_w", "s_seven_w", "t_five_w", "t_seven_w"} =>
          read \in Theirs \/ Blocked(read)
    /\ pc = "s_append" /\ alone => ~(confd /\ Has(read, "dropin"))
    /\ pc = "s_retire" => confd /\ Has(read, "dropin")
    /\ sync = "rename" => confd /\ Has(syncread, "dropin")

WInv == TypeOK /\ Shaped /\ Reads /\ SetUp /\ TornDown

\* The two halves of TypeOK.
Flags ==
    /\ legible \in BOOLEAN /\ confd \in BOOLEAN /\ datpl \in BOOLEAN /\ base \in BOOLEAN
    /\ timer \in BOOLEAN /\ okay \in BOOLEAN /\ rebuilt \in BOOLEAN /\ alone \in BOOLEAN

Places ==
    /\ five \in Seq(Lines) /\ seven \in Seq(Lines) /\ main \in Seq(Lines)
    /\ read \in Seq(Lines) /\ syncread \in Seq(Lines)
    /\ handlers \subseteq {"legacy", "dropin"} /\ vhosts \subseteq {"routed", "defines"}
    /\ tree \in {"foreign", "owned", "moded", "ready"} /\ known \subseteq Identities
    /\ pc \in {"idle", "s_accounts", "s_base", "s_chown", "s_modes", "s_setuid", "s_failed",
               "s_five", "s_five_w", "s_seven", "s_seven_w", "s_web_user", "s_rebuild",
               "s_include", "s_append", "s_retire", "s_units", "s_done",
               "t_units", "t_base", "t_five", "t_five_w", "t_seven", "t_seven_w", "t_main",
               "t_main_w", "t_files", "t_rebuild", "t_done"}
    /\ sync \in {"idle", "write", "retire", "rename"} /\ path \in {"legacy", "dropin"}
    /\ installs \in Nat /\ edits \in Nat /\ rebuilds \in Nat

LEMMA WInvInit == Init => WInv
  <1> SUFFICES ASSUME Init PROVE WInv
    OBVIOUS
  <1>1. five \in Theirs \/ Blocked(five)
    BY OlderFiles DEF Init
  <1>2. seven \in Theirs \/ Blocked(seven)
    BY OlderFiles DEF Init
  <1>3. main \in Seq(Lines)
    <2>1. Regenerated \in Seq(Lines) /\ "theirs" \in Lines
      BY RegeneratedIs DEF Lines
    <2>2. <<"theirs", "ibegin", "inc", "iend">> \in Seq(Lines)
      BY DEF Lines
    <2>3. Append(Regenerated, "theirs") \in Seq(Lines)
          /\ Regenerated \o <<"theirs", "ibegin", "inc", "iend">> \in Seq(Lines)
      BY <2>1, <2>2, AppendProperties, ConcatProperties
    <2> QED BY <2>3 DEF Init
  <1>4. five \in Seq(Lines) /\ seven \in Seq(Lines)
    BY <1>1, <1>2, UpsertBlocks
  <1>5. handlers \subseteq {"legacy", "dropin"} /\ vhosts \subseteq {"routed", "defines"}
    BY DEF Init, Generated
  <1>6. TypeOK
    BY <1>3, <1>4, <1>5, EmptySeq DEF Init, TypeOK, Identities
  <1>7. Reads /\ SetUp /\ TornDown
    BY DEF Init, Reads, SetUp, TornDown, FromUnits, FromInclude, FromRebuild, FromWebUser, FromSeven,
           FromFive, FromChown, FromBase, OnceDown, OnceRebuilt, OnceFiles, OnceMain, OnceSeven,
           OnceFive, OnceBase, OnceUnits
  <1> QED BY <1>1, <1>2, <1>6, <1>7 DEF WInv, Shaped

\* Setup, teardown and everybody else leave the templates that can be read so.
LEMMA ShapedStep == WInv /\ [Next]_vars => Shaped'
  <1> SUFFICES ASSUME WInv, [Next]_vars PROVE Shaped'
    OBVIOUS
  <1> USE DEF Goto, Fail, da, files, own, local, syncs, count, WInv, Shaped
  <1>1. CASE Begin("s_accounts")
    BY <1>1 DEF Begin
  <1>2. CASE Begin("t_units")
    BY <1>2 DEF Begin
  <1>3. CASE End
    BY <1>3 DEF End
  <1>4. CASE SetupAccounts
    BY <1>4 DEF SetupAccounts
  <1>5. CASE SetupBase
    BY <1>5 DEF SetupBase
  <1>6. CASE SetupChown
    BY <1>6 DEF SetupChown
  <1>7. CASE SetupModes
    BY <1>7 DEF SetupModes
  <1>8. CASE SetupSetuid
    BY <1>8 DEF SetupSetuid
  <1>9. CASE SetupFive
    BY <1>9 DEF SetupFive
  <1>10. CASE SetupFiveWrite
    <2>1. five' \in {five, Upsert(read)} /\ seven' = seven
      BY <1>10 DEF SetupFiveWrite
    <2>2. read \in Theirs \/ Blocked(read)
      BY <1>10 DEF SetupFiveWrite, Reads
    <2>3. Upsert(read) \in Theirs \/ Blocked(Upsert(read))
      BY <2>2, UpsertBlocks
    <2> QED BY <1>10, <2>1, <2>2, <2>3
  <1>11. CASE SetupSeven
    BY <1>11 DEF SetupSeven, StripRead
  <1>12. CASE SetupSevenWrite
    <2>1. seven' \in {seven, Kept(read)} /\ five' = five
      BY <1>12 DEF SetupSevenWrite
    <2>2. read \in Theirs \/ Blocked(read)
      BY <1>12 DEF SetupSevenWrite, Reads
    <2>3. Kept(read) \in Theirs \/ Blocked(Kept(read))
      BY <2>2, UpsertBlocks
    <2> QED BY <1>12, <2>1, <2>2, <2>3
  <1>13. CASE SetupWebUser
    BY <1>13 DEF SetupWebUser
  <1>14. CASE Rebuild("s_rebuild", "s_include")
    BY <1>14 DEF Rebuild
  <1>15. CASE SetupInclude
    BY <1>15 DEF SetupInclude
  <1>16. CASE SetupIncludeWrite
    BY <1>16 DEF SetupIncludeWrite
  <1>17. CASE SetupUnits
    BY <1>17 DEF SetupUnits
  <1>18. CASE TearUnits
    BY <1>18 DEF TearUnits
  <1>19. CASE TearBase
    BY <1>19 DEF TearBase
  <1>20. CASE TearFive
    BY <1>20 DEF TearFive, StripRead
  <1>21. CASE TearFiveWrite
    <2>1. five' \in {five, Kept(read)} /\ seven' = seven
      BY <1>21 DEF TearFiveWrite
    <2>2. read \in Theirs \/ Blocked(read)
      BY <1>21 DEF TearFiveWrite, Reads
    <2>3. Kept(read) \in Theirs \/ Blocked(Kept(read))
      BY <2>2, UpsertBlocks
    <2> QED BY <1>21, <2>1, <2>2, <2>3
  <1>22. CASE TearSeven
    BY <1>22 DEF TearSeven, StripRead
  <1>23. CASE TearSevenWrite
    <2>1. seven' \in {seven, Kept(read)} /\ five' = five
      BY <1>23 DEF TearSevenWrite
    <2>2. read \in Theirs \/ Blocked(read)
      BY <1>23 DEF TearSevenWrite, Reads
    <2>3. Kept(read) \in Theirs \/ Blocked(Kept(read))
      BY <2>2, UpsertBlocks
    <2> QED BY <1>23, <2>1, <2>2, <2>3
  <1>24. CASE TearMain
    BY <1>24 DEF TearMain
  <1>25. CASE TearMainWrite
    BY <1>25 DEF TearMainWrite
  <1>26. CASE TearFiles
    BY <1>26 DEF TearFiles
  <1>27. CASE Rebuild("t_rebuild", "t_done")
    BY <1>27 DEF Rebuild
  <1>28. CASE SyncBegin
    BY <1>28 DEF SyncBegin
  <1>29. CASE SyncWrite
    BY <1>29 DEF SyncWrite
  <1>30. CASE SyncRetire
    BY <1>30 DEF SyncRetire
  <1>31. CASE SyncRename
    BY <1>31 DEF SyncRename
  <1>32. CASE Regenerate
    BY <1>32 DEF Regenerate
  <1>33. CASE Edit
    <2>1. five' \in {five, <<"theirs">> \o five, Append(five, "theirs")} /\ seven' = seven
      BY <1>33 DEF Edit
    <2> QED BY <1>33, <2>1, EditTheirs, EditBlocked
  <1>34. CASE UNCHANGED vars
    BY <1>34 DEF vars
  <1> QED BY <1>1, <1>2, <1>3, <1>4, <1>5, <1>6, <1>7, <1>8, <1>9, <1>10, <1>11, <1>12,
          <1>13, <1>14, <1>15, <1>16, <1>17, <1>18, <1>19, <1>20, <1>21, <1>22, <1>23,
          <1>24, <1>25, <1>26, <1>27, <1>28, <1>29, <1>30, <1>31, <1>32, <1>33, <1>34 DEF
          Next, Setup, Teardown, Sync

\* What has been read is of the shape it is read for until it is written.
LEMMA ReadsStep == WInv /\ [Next]_vars => Reads'
  <1> SUFFICES ASSUME WInv, [Next]_vars PROVE Reads'
    OBVIOUS
  <1> USE DEF Goto, Fail, da, files, own, local, syncs, count, WInv, TypeOK, Shaped, Reads,
            ReadsDropIns, NothingToRetire
  <1>1. CASE Begin("s_accounts")
    BY <1>1 DEF Begin
  <1>2. CASE Begin("t_units")
    BY <1>2 DEF Begin
  <1>3. CASE End
    BY <1>3 DEF End
  <1>4. CASE SetupAccounts
    BY <1>4 DEF SetupAccounts
  <1>5. CASE SetupBase
    BY <1>5 DEF SetupBase
  <1>6. CASE SetupChown
    BY <1>6 DEF SetupChown
  <1>7. CASE SetupModes
    BY <1>7 DEF SetupModes
  <1>8. CASE SetupSetuid
    BY <1>8 DEF SetupSetuid
  <1>9. CASE SetupFive
    <2>1. <<>> \in Theirs
      BY OlderFiles
    <2> QED BY <1>9, <2>1 DEF SetupFive
  <1>10. CASE SetupFiveWrite
    BY <1>10 DEF SetupFiveWrite
  <1>11. CASE SetupSeven
    BY <1>11 DEF SetupSeven, StripRead
  <1>12. CASE SetupSevenWrite
    BY <1>12 DEF SetupSevenWrite
  <1>13. CASE SetupWebUser
    BY <1>13 DEF SetupWebUser
  <1>14. CASE Rebuild("s_rebuild", "s_include")
    BY <1>14 DEF Rebuild
  <1>15. CASE SetupInclude
    BY <1>15 DEF SetupInclude
  <1>16. CASE SetupIncludeWrite
    BY <1>16 DEF SetupIncludeWrite
  <1>17. CASE SetupUnits
    BY <1>17 DEF SetupUnits
  <1>18. CASE TearUnits
    BY <1>18 DEF TearUnits
  <1>19. CASE TearBase
    BY <1>19 DEF TearBase
  <1>20. CASE TearFive
    BY <1>20 DEF TearFive, StripRead
  <1>21. CASE TearFiveWrite
    BY <1>21 DEF TearFiveWrite
  <1>22. CASE TearSeven
    BY <1>22 DEF TearSeven, StripRead
  <1>23. CASE TearSevenWrite
    BY <1>23 DEF TearSevenWrite
  <1>24. CASE TearMain
    BY <1>24 DEF TearMain
  <1>25. CASE TearMainWrite
    BY <1>25 DEF TearMainWrite
  <1>26. CASE TearFiles
    BY <1>26 DEF TearFiles
  <1>27. CASE Rebuild("t_rebuild", "t_done")
    BY <1>27 DEF Rebuild
  <1>28. CASE SyncBegin
    BY <1>28 DEF SyncBegin
  <1>29. CASE SyncWrite
    BY <1>29 DEF SyncWrite
  <1>30. CASE SyncRetire
    BY <1>30 DEF SyncRetire
  <1>31. CASE SyncRename
    BY <1>31 DEF SyncRename
  <1>32. CASE Regenerate
    BY <1>32 DEF Regenerate
  <1>33. CASE Edit
    BY <1>33 DEF Edit
  <1>34. CASE UNCHANGED vars
    BY <1>34 DEF vars
  <1> QED BY <1>1, <1>2, <1>3, <1>4, <1>5, <1>6, <1>7, <1>8, <1>9, <1>10, <1>11, <1>12,
          <1>13, <1>14, <1>15, <1>16, <1>17, <1>18, <1>19, <1>20, <1>21, <1>22, <1>23,
          <1>24, <1>25, <1>26, <1>27, <1>28, <1>29, <1>30, <1>31, <1>32, <1>33, <1>34 DEF
          Next, Setup, Teardown, Sync

\* What is either so or not stays either.
LEMMA FlagsStep == WInv /\ [Next]_vars => Flags'
  <1> SUFFICES ASSUME WInv, [Next]_vars PROVE Flags'
    OBVIOUS
  <1> USE DEF Goto, Fail, da, files, own, local, syncs, count, WInv, TypeOK, Flags
  <1>1. CASE Begin("s_accounts")
    BY <1>1 DEF Begin
  <1>2. CASE Begin("t_units")
    BY <1>2 DEF Begin
  <1>3. CASE End
    BY <1>3 DEF End
  <1>4. CASE SetupAccounts
    BY <1>4 DEF SetupAccounts
  <1>5. CASE SetupBase
    BY <1>5 DEF SetupBase
  <1>6. CASE SetupChown
    BY <1>6 DEF SetupChown
  <1>7. CASE SetupModes
    BY <1>7 DEF SetupModes
  <1>8. CASE SetupSetuid
    BY <1>8 DEF SetupSetuid
  <1>9. CASE SetupFive
    BY <1>9 DEF SetupFive
  <1>10. CASE SetupFiveWrite
    BY <1>10 DEF SetupFiveWrite
  <1>11. CASE SetupSeven
    BY <1>11 DEF SetupSeven, StripRead
  <1>12. CASE SetupSevenWrite
    BY <1>12 DEF SetupSevenWrite
  <1>13. CASE SetupWebUser
    BY <1>13 DEF SetupWebUser
  <1>14. CASE Rebuild("s_rebuild", "s_include")
    BY <1>14 DEF Rebuild
  <1>15. CASE SetupInclude
    BY <1>15 DEF SetupInclude
  <1>16. CASE SetupIncludeWrite
    BY <1>16 DEF SetupIncludeWrite
  <1>17. CASE SetupUnits
    BY <1>17 DEF SetupUnits
  <1>18. CASE TearUnits
    BY <1>18 DEF TearUnits
  <1>19. CASE TearBase
    BY <1>19 DEF TearBase
  <1>20. CASE TearFive
    BY <1>20 DEF TearFive, StripRead
  <1>21. CASE TearFiveWrite
    BY <1>21 DEF TearFiveWrite
  <1>22. CASE TearSeven
    BY <1>22 DEF TearSeven, StripRead
  <1>23. CASE TearSevenWrite
    BY <1>23 DEF TearSevenWrite
  <1>24. CASE TearMain
    BY <1>24 DEF TearMain
  <1>25. CASE TearMainWrite
    BY <1>25 DEF TearMainWrite
  <1>26. CASE TearFiles
    BY <1>26 DEF TearFiles
  <1>27. CASE Rebuild("t_rebuild", "t_done")
    BY <1>27 DEF Rebuild
  <1>28. CASE SyncBegin
    BY <1>28 DEF SyncBegin
  <1>29. CASE SyncWrite
    BY <1>29 DEF SyncWrite
  <1>30. CASE SyncRetire
    BY <1>30 DEF SyncRetire
  <1>31. CASE SyncRename
    BY <1>31 DEF SyncRename
  <1>32. CASE Regenerate
    BY <1>32 DEF Regenerate
  <1>33. CASE Edit
    BY <1>33 DEF Edit
  <1>34. CASE UNCHANGED vars
    BY <1>34 DEF vars
  <1> QED BY <1>1, <1>2, <1>3, <1>4, <1>5, <1>6, <1>7, <1>8, <1>9, <1>10, <1>11, <1>12,
          <1>13, <1>14, <1>15, <1>16, <1>17, <1>18, <1>19, <1>20, <1>21, <1>22, <1>23,
          <1>24, <1>25, <1>26, <1>27, <1>28, <1>29, <1>30, <1>31, <1>32, <1>33, <1>34 DEF
          Next, Setup, Teardown, Sync

\* Every other variable keeps its type.
LEMMA PlacesStep == WInv /\ [Next]_vars => Places'
  <1> SUFFICES ASSUME WInv, [Next]_vars PROVE Places'
    OBVIOUS
  <1>a. five' \in Seq(Lines) /\ seven' \in Seq(Lines)
    <2>1. Shaped'
      BY ShapedStep
    <2> QED BY <2>1, UpsertBlocks DEF Shaped
  <1>b. /\ main \in Seq(Lines) /\ read \in Seq(Lines) /\ syncread \in Seq(Lines)
        /\ <<>> \in Seq(Lines)
    BY EmptySeq DEF WInv, TypeOK
  <1>c. Generated \subseteq {"routed", "defines"} /\ Regenerated \in Seq(Lines)
    BY RegeneratedIs DEF Generated
  <1> USE DEF Goto, Fail, da, files, own, local, syncs, count, WInv, TypeOK, Places
  <1>1. CASE Begin("s_accounts")
    BY <1>1, <1>a, <1>b DEF Begin
  <1>2. CASE Begin("t_units")
    BY <1>2, <1>a, <1>b DEF Begin
  <1>3. CASE End
    BY <1>3, <1>a, <1>b DEF End
  <1>4. CASE SetupAccounts
    BY <1>4, <1>a, <1>b DEF SetupAccounts, Identities
  <1>5. CASE SetupBase
    BY <1>5, <1>a, <1>b DEF SetupBase
  <1>6. CASE SetupChown
    BY <1>6, <1>a, <1>b DEF SetupChown
  <1>7. CASE SetupModes
    BY <1>7, <1>a, <1>b DEF SetupModes
  <1>8. CASE SetupSetuid
    BY <1>8, <1>a, <1>b DEF SetupSetuid
  <1>9. CASE SetupFive
    BY <1>9, <1>a, <1>b DEF SetupFive
  <1>10. CASE SetupFiveWrite
    BY <1>10, <1>a, <1>b DEF SetupFiveWrite
  <1>11. CASE SetupSeven
    BY <1>11, <1>a, <1>b DEF SetupSeven, StripRead
  <1>12. CASE SetupSevenWrite
    BY <1>12, <1>a, <1>b DEF SetupSevenWrite
  <1>13. CASE SetupWebUser
    BY <1>13, <1>a, <1>b DEF SetupWebUser, Identities
  <1>14. CASE Rebuild("s_rebuild", "s_include")
    <2>1. main' \in Seq(Lines)
      BY <1>14, <1>b, <1>c DEF Rebuild
    <2> QED BY <1>14, <1>a, <1>b, <2>1, <1>c DEF Rebuild
  <1>15. CASE SetupInclude
    BY <1>15, <1>a, <1>b DEF SetupInclude
  <1>16. CASE SetupIncludeWrite
    <2>1. main' \in Seq(Lines)
      BY <1>16, <1>b, Retires, Includes DEF SetupIncludeWrite
    <2> QED BY <1>16, <1>a, <1>b, <2>1 DEF SetupIncludeWrite
  <1>17. CASE SetupUnits
    BY <1>17, <1>a, <1>b DEF SetupUnits
  <1>18. CASE TearUnits
    BY <1>18, <1>a, <1>b DEF TearUnits
  <1>19. CASE TearBase
    BY <1>19, <1>a, <1>b DEF TearBase
  <1>20. CASE TearFive
    BY <1>20, <1>a, <1>b DEF TearFive, StripRead
  <1>21. CASE TearFiveWrite
    BY <1>21, <1>a, <1>b DEF TearFiveWrite
  <1>22. CASE TearSeven
    BY <1>22, <1>a, <1>b DEF TearSeven, StripRead
  <1>23. CASE TearSevenWrite
    BY <1>23, <1>a, <1>b DEF TearSevenWrite
  <1>24. CASE TearMain
    BY <1>24, <1>a, <1>b DEF TearMain
  <1>25. CASE TearMainWrite
    <2>1. main' \in Seq(Lines)
      BY <1>25, <1>b, Filters DEF TearMainWrite
    <2> QED BY <1>25, <1>a, <1>b, <2>1 DEF TearMainWrite
  <1>26. CASE TearFiles
    BY <1>26, <1>a, <1>b DEF TearFiles
  <1>27. CASE Rebuild("t_rebuild", "t_done")
    <2>1. main' \in Seq(Lines)
      BY <1>27, <1>b, <1>c DEF Rebuild
    <2> QED BY <1>27, <1>a, <1>b, <2>1, <1>c DEF Rebuild
  <1>28. CASE SyncBegin
    BY <1>28, <1>a, <1>b DEF SyncBegin
  <1>29. CASE SyncWrite
    BY <1>29, <1>a, <1>b DEF SyncWrite
  <1>30. CASE SyncRetire
    BY <1>30, <1>a, <1>b DEF SyncRetire
  <1>31. CASE SyncRename
    <2>1. main' \in Seq(Lines)
      BY <1>31, <1>b, Retires DEF SyncRename
    <2> QED BY <1>31, <1>a, <1>b, <2>1 DEF SyncRename
  <1>32. CASE Regenerate
    <2>1. <<"dropin">> \in Seq(Lines) /\ Of(main, "inc") \in Seq(Lines)
      BY <1>b, OnlyHas DEF Lines, Of
    <2>2. <<"dropin">> \o Of(main, "inc") \in Seq(Lines)
      BY <2>1, ConcatProperties
    <2>3. main' \in Seq(Lines)
      BY <1>32, <1>c, <2>1, <2>2 DEF Regenerate
    <2> QED BY <1>32, <1>a, <1>b, <2>1, <2>2, <2>3, <1>c DEF Regenerate
  <1>33. CASE Edit
    <2>1. main' \in Seq(Lines)
      BY <1>33, <1>b, EditMain DEF Edit
    <2> QED BY <1>33, <1>a, <1>b, <2>1 DEF Edit
  <1>34. CASE UNCHANGED vars
    BY <1>34, <1>a, <1>b DEF vars
  <1> QED BY <1>1, <1>2, <1>3, <1>4, <1>5, <1>6, <1>7, <1>8, <1>9, <1>10, <1>11, <1>12,
          <1>13, <1>14, <1>15, <1>16, <1>17, <1>18, <1>19, <1>20, <1>21, <1>22, <1>23,
          <1>24, <1>25, <1>26, <1>27, <1>28, <1>29, <1>30, <1>31, <1>32, <1>33, <1>34 DEF
          Next, Setup, Teardown, Sync

\* What setup has done stays done until it ends.
LEMMA SetUpStep == WInv /\ [Next]_vars => SetUp'
  <1> SUFFICES ASSUME WInv, [Next]_vars PROVE SetUp'
    OBVIOUS
  <1> USE DEF Goto, Fail, da, files, own, local, syncs, count, WInv, TypeOK, SetUp,
            ReadsDropIns, NothingToRetire, FromUnits, FromInclude, FromRebuild, FromWebUser,
            FromSeven, FromFive, FromChown, FromBase
  <1>1. CASE Begin("s_accounts")
    BY <1>1 DEF Begin
  <1>2. CASE Begin("t_units")
    BY <1>2 DEF Begin
  <1>3. CASE End
    BY <1>3 DEF End
  <1>4. CASE SetupAccounts
    BY <1>4 DEF SetupAccounts
  <1>5. CASE SetupBase
    BY <1>5 DEF SetupBase
  <1>6. CASE SetupChown
    BY <1>6 DEF SetupChown
  <1>7. CASE SetupModes
    BY <1>7 DEF SetupModes
  <1>8. CASE SetupSetuid
    BY <1>8 DEF SetupSetuid
  <1>9. CASE SetupFive
    BY <1>9 DEF SetupFive
  <1>10. CASE SetupFiveWrite
    <2>1. read \in Theirs \/ Blocked(read)
      BY <1>10 DEF SetupFiveWrite, Reads
    <2>2. Blocked(Upsert(read))
      BY <2>1, UpsertBlocks
    <2> QED BY <1>10, <2>1, <2>2 DEF SetupFiveWrite
  <1>11. CASE SetupSeven
    <2>1. <<>> \in Theirs
      BY OlderFiles
    <2> QED BY <1>11, <2>1 DEF SetupSeven, StripRead
  <1>12. CASE SetupSevenWrite
    <2>1. read \in Theirs \/ Blocked(read)
      BY <1>12 DEF SetupSevenWrite, Reads
    <2>2. Kept(read) \in Theirs
      BY <2>1, UpsertBlocks
    <2> QED BY <1>12, <2>1, <2>2 DEF SetupSevenWrite
  <1>13. CASE SetupWebUser
    BY <1>13 DEF SetupWebUser
  <1>14. CASE Rebuild("s_rebuild", "s_include")
    <2>1. Blocked(five) /\ seven \in Theirs => Generated = {"routed"}
      BY GeneratedIs
    <2> QED BY <1>14, <2>1 DEF Rebuild
  <1>15. CASE SetupInclude
    BY <1>15 DEF SetupInclude
  <1>16. CASE SetupIncludeWrite
    <2>1. read \in Seq(Lines)
      OBVIOUS
    <2>2. /\ ~Has(StripInclude(read), "inc")
          /\ Has(StripInclude(read), "dropin") <=> Has(read, "dropin")
      BY <2>1, Retires
    <2>3. LET t == read \o <<"ibegin", "inc", "iend">>
          IN  Has(t, "inc") /\ (Has(t, "dropin") <=> Has(read, "dropin"))
      BY <2>1, Includes
    <2> QED BY <1>16, <2>1, <2>2, <2>3 DEF SetupIncludeWrite, Reads
  <1>17. CASE SetupUnits
    BY <1>17 DEF SetupUnits
  <1>18. CASE TearUnits
    BY <1>18 DEF TearUnits
  <1>19. CASE TearBase
    BY <1>19 DEF TearBase
  <1>20. CASE TearFive
    BY <1>20 DEF TearFive, StripRead
  <1>21. CASE TearFiveWrite
    BY <1>21 DEF TearFiveWrite
  <1>22. CASE TearSeven
    BY <1>22 DEF TearSeven, StripRead
  <1>23. CASE TearSevenWrite
    BY <1>23 DEF TearSevenWrite
  <1>24. CASE TearMain
    BY <1>24 DEF TearMain
  <1>25. CASE TearMainWrite
    BY <1>25 DEF TearMainWrite
  <1>26. CASE TearFiles
    BY <1>26 DEF TearFiles
  <1>27. CASE Rebuild("t_rebuild", "t_done")
    <2>1. Blocked(five) /\ seven \in Theirs => Generated = {"routed"}
      BY GeneratedIs
    <2> QED BY <1>27, <2>1 DEF Rebuild
  <1>28. CASE SyncBegin
    BY <1>28 DEF SyncBegin
  <1>29. CASE SyncWrite
    BY <1>29 DEF SyncWrite
  <1>30. CASE SyncRetire
    BY <1>30 DEF SyncRetire
  <1>31. CASE SyncRename
    <2>1. syncread \in Seq(Lines)
      OBVIOUS
    <2>2. /\ ~Has(StripInclude(syncread), "inc")
          /\ Has(StripInclude(syncread), "dropin") <=> Has(syncread, "dropin")
      BY <2>1, Retires
    <2> QED BY <1>31, <2>1, <2>2 DEF SyncRename, Reads
  <1>32. CASE Regenerate
    <2>1. Blocked(five) /\ seven \in Theirs => Generated = {"routed"}
      BY GeneratedIs
    <2> QED BY <1>32, <2>1 DEF Regenerate
  <1>33. CASE Edit
    <2>1. main \in Seq(Lines)
      OBVIOUS
    <2>2. /\ Has(main', "inc") <=> Has(main, "inc")
          /\ Has(main', "dropin") <=> Has(main, "dropin")
      BY <1>33, <2>1, EditMain DEF Edit
    <2>3. Blocked(five) => Blocked(five')
      BY <1>33, EditBlocked DEF Edit
    <2> QED BY <1>33, <2>1, <2>2, <2>3 DEF Edit
  <1>34. CASE UNCHANGED vars
    BY <1>34 DEF vars
  <1> QED BY <1>1, <1>2, <1>3, <1>4, <1>5, <1>6, <1>7, <1>8, <1>9, <1>10, <1>11, <1>12,
          <1>13, <1>14, <1>15, <1>16, <1>17, <1>18, <1>19, <1>20, <1>21, <1>22, <1>23,
          <1>24, <1>25, <1>26, <1>27, <1>28, <1>29, <1>30, <1>31, <1>32, <1>33, <1>34 DEF
          Next, Setup, Teardown, Sync

\* What teardown has undone stays undone until it ends.
LEMMA TornDownStep == WInv /\ [Next]_vars => TornDown'
  <1> SUFFICES ASSUME WInv, [Next]_vars PROVE TornDown'
    OBVIOUS
  <1> USE DEF Goto, Fail, da, files, own, local, syncs, count, WInv, TypeOK, TornDown,
            NothingToRetire, OnceDown, OnceRebuilt, OnceFiles, OnceMain, OnceSeven,
            OnceFive, OnceBase, OnceUnits
  <1>1. CASE Begin("s_accounts")
    BY <1>1 DEF Begin
  <1>2. CASE Begin("t_units")
    BY <1>2 DEF Begin
  <1>3. CASE End
    BY <1>3 DEF End
  <1>4. CASE SetupAccounts
    BY <1>4 DEF SetupAccounts
  <1>5. CASE SetupBase
    BY <1>5 DEF SetupBase
  <1>6. CASE SetupChown
    BY <1>6 DEF SetupChown
  <1>7. CASE SetupModes
    BY <1>7 DEF SetupModes
  <1>8. CASE SetupSetuid
    BY <1>8 DEF SetupSetuid
  <1>9. CASE SetupFive
    BY <1>9 DEF SetupFive
  <1>10. CASE SetupFiveWrite
    BY <1>10 DEF SetupFiveWrite
  <1>11. CASE SetupSeven
    BY <1>11 DEF SetupSeven, StripRead
  <1>12. CASE SetupSevenWrite
    BY <1>12 DEF SetupSevenWrite
  <1>13. CASE SetupWebUser
    BY <1>13 DEF SetupWebUser
  <1>14. CASE Rebuild("s_rebuild", "s_include")
    <2>1. five \in Theirs /\ seven \in Theirs => Generated = {}
      BY GeneratedIs
    <2>2. ~Has(Regenerated, "inc")
      BY RegeneratedIs
    <2> QED BY <1>14, <2>1, <2>2 DEF Rebuild
  <1>15. CASE SetupInclude
    BY <1>15 DEF SetupInclude
  <1>16. CASE SetupIncludeWrite
    BY <1>16 DEF SetupIncludeWrite
  <1>17. CASE SetupUnits
    BY <1>17 DEF SetupUnits
  <1>18. CASE TearUnits
    BY <1>18 DEF TearUnits
  <1>19. CASE TearBase
    BY <1>19 DEF TearBase
  <1>20. CASE TearFive
    <2>1. <<>> \in Theirs
      BY OlderFiles
    <2> QED BY <1>20, <2>1 DEF TearFive, StripRead
  <1>21. CASE TearFiveWrite
    <2>1. read \in Theirs \/ Blocked(read)
      BY <1>21 DEF TearFiveWrite, Reads
    <2>2. Kept(read) \in Theirs
      BY <2>1, UpsertBlocks
    <2> QED BY <1>21, <2>1, <2>2 DEF TearFiveWrite
  <1>22. CASE TearSeven
    <2>1. <<>> \in Theirs
      BY OlderFiles
    <2> QED BY <1>22, <2>1 DEF TearSeven, StripRead
  <1>23. CASE TearSevenWrite
    <2>1. read \in Theirs \/ Blocked(read)
      BY <1>23 DEF TearSevenWrite, Reads
    <2>2. Kept(read) \in Theirs
      BY <2>1, UpsertBlocks
    <2> QED BY <1>23, <2>1, <2>2 DEF TearSevenWrite
  <1>24. CASE TearMain
    BY <1>24 DEF TearMain
  <1>25. CASE TearMainWrite
    <2>1. ~Has(FilterInclude(read), "inc")
      BY Filters
    <2> QED BY <1>25, <2>1 DEF TearMainWrite
  <1>26. CASE TearFiles
    BY <1>26 DEF TearFiles
  <1>27. CASE Rebuild("t_rebuild", "t_done")
    <2>1. five \in Theirs /\ seven \in Theirs => Generated = {}
      BY GeneratedIs
    <2>2. ~Has(Regenerated, "inc")
      BY RegeneratedIs
    <2> QED BY <1>27, <2>1, <2>2 DEF Rebuild
  <1>28. CASE SyncBegin
    BY <1>28 DEF SyncBegin
  <1>29. CASE SyncWrite
    BY <1>29 DEF SyncWrite
  <1>30. CASE SyncRetire
    BY <1>30 DEF SyncRetire
  <1>31. CASE SyncRename
    <2>1. ~Has(StripInclude(syncread), "inc")
      BY Retires
    <2> QED BY <1>31, <2>1 DEF SyncRename
  <1>32. CASE Regenerate
    <2>1. five \in Theirs /\ seven \in Theirs => Generated = {}
      BY GeneratedIs
    <2> QED BY <1>32, <2>1 DEF Regenerate
  <1>33. CASE Edit
    <2>1. Has(main', "inc") <=> Has(main, "inc")
      BY <1>33, EditMain DEF Edit
    <2>2. five \in Theirs => five' \in Theirs
      BY <1>33, EditTheirs DEF Edit
    <2> QED BY <1>33, <2>1, <2>2 DEF Edit
  <1>34. CASE UNCHANGED vars
    BY <1>34 DEF vars
  <1> QED BY <1>1, <1>2, <1>3, <1>4, <1>5, <1>6, <1>7, <1>8, <1>9, <1>10, <1>11, <1>12,
          <1>13, <1>14, <1>15, <1>16, <1>17, <1>18, <1>19, <1>20, <1>21, <1>22, <1>23,
          <1>24, <1>25, <1>26, <1>27, <1>28, <1>29, <1>30, <1>31, <1>32, <1>33, <1>34 DEF
          Next, Setup, Teardown, Sync

LEMMA WInvStep == WInv /\ [Next]_vars => WInv'
  <1> SUFFICES ASSUME WInv, [Next]_vars PROVE WInv'
    OBVIOUS
  <1>1. Flags' /\ Places'
    BY FlagsStep, PlacesStep
  <1>2. TypeOK'
    BY <1>1 DEF TypeOK, Flags, Places
  <1> QED BY <1>2, ShapedStep, ReadsStep, SetUpStep, TornDownStep DEF WInv

LEMMA WInvHolds == Spec => []WInv
  BY WInvInit, WInvStep, PTL DEF Spec

-----------------------------------------------------------------------------
(* The theorems *)

\* A setup in which nothing failed leaves a server that serves (setup.rs and ols::run
\* against diagnose.rs).
THEOREM ServesOnceSetUp == Spec => []SetupServes
  <1>1. WInv => SetupServes
    <2> SUFFICES ASSUME WInv, pc = "s_done", okay, rebuilt, alone, legible
                 PROVE  /\ Complaints \subseteq {"extproc_missing"}
                        /\ Of(five, "begin") = <<"begin">> /\ ~Has(seven, "begin")
                        /\ vhosts = {"routed"}
                        /\ ReadsDropIns \/ Has(main, "inc")
                        /\ ~(ReadsDropIns /\ Has(main, "inc"))
      BY DEF SetupServes
    <2>1. /\ {"da_user", "da_cgi_user"} \subseteq known /\ "ols_web_user" \in known
          /\ base /\ tree = "ready" /\ Blocked(five) /\ seven \in Theirs
          /\ vhosts = {"routed"} /\ (ReadsDropIns <=> ~Has(main, "inc")) /\ timer
      BY DEF WInv, SetUp, FromUnits, FromInclude, FromRebuild, FromWebUser, FromSeven, FromFive,
             FromChown, FromBase
    <2>2. known = Identities
      BY <2>1 DEF WInv, TypeOK, Identities
    <2>3. Has(five, "begin") /\ Of(five, "begin") = <<"begin">>
      BY <2>1, BlockedIsLines
    <2>4. ~Has(seven, "begin")
      BY <2>1, TheirsHave
    <2>5. TemplateComplaints = {}
      BY <2>3, <2>4 DEF TemplateComplaints
    <2>6. ProxyComplaints \subseteq {"extproc_missing"}
      <3>1. vhosts # {}
        BY <2>1
      <3>2. ~ReadsDropIns => Has(main, "inc")
        BY <2>1
      <3> QED BY <3>1, <3>2 DEF ProxyComplaints
    <2>7. Complaints \subseteq {"extproc_missing"}
      BY <2>1, <2>2, <2>5, <2>6 DEF Complaints
    <2> QED BY <2>1, <2>3, <2>4, <2>7
  <1> QED BY <1>1, WInvHolds, PTL

\* A teardown in which nothing failed leaves nothing that routes to the panel or names
\* its files (teardown.rs).
THEOREM NothingOnceTornDown == Spec => []TeardownLeavesNothing
  <1>1. WInv => TeardownLeavesNothing
    <2> SUFFICES ASSUME WInv, pc = "t_done", okay, rebuilt, alone, legible
                 PROVE  /\ ~Has(five, "begin") /\ ~Has(five, "block") /\ ~Has(seven, "block")
                        /\ vhosts = {} /\ handlers = {} /\ ~Has(main, "inc") /\ ~timer /\ ~base
      BY DEF TeardownLeavesNothing
    <2>1. /\ five \in Theirs /\ seven \in Theirs /\ vhosts = {} /\ handlers = {}
          /\ ~Has(main, "inc") /\ ~timer /\ ~base
      BY DEF WInv, TornDown, OnceDown, OnceRebuilt, OnceFiles, OnceMain, OnceSeven, OnceFive,
             OnceBase, OnceUnits
    <2>2. ~Has(five, "begin") /\ ~Has(five, "block") /\ ~Has(seven, "block")
      BY <2>1, TheirsHave
    <2> QED BY <2>1, <2>2
  <1> QED BY <1>1, WInvHolds, PTL

\* What setup, teardown or the sync write in place of what they read has everybody else's
\* lines (ols.rs upsert_block, strip_block, strip_legacy_include; teardown.rs).
THEOREM OthersLinesStay == Spec => TheirsSurvive
  <1> DEFINE Stay == legible /\ rebuilds' = rebuilds /\ edits' = edits =>
                        /\ Keeps(five, five', read) /\ Keeps(seven, seven', read)
                        /\ pc \notin {"s_rebuild", "t_rebuild"} =>
                              Keeps(main, main', IF sync' # sync THEN syncread ELSE read)
  <1>1. WInv /\ [Next]_vars => [Stay]_vars
    <2> SUFFICES ASSUME WInv, [Next]_vars, legible, rebuilds' = rebuilds, edits' = edits
                 PROVE  /\ Keeps(five, five', read) /\ Keeps(seven, seven', read)
                        /\ pc \notin {"s_rebuild", "t_rebuild"} =>
                              Keeps(main, main', IF sync' # sync THEN syncread ELSE read)
      OBVIOUS
    <2>a. /\ read \in Seq(Lines) /\ syncread \in Seq(Lines)
          /\ rebuilds \in Nat /\ edits \in Nat
      BY DEF WInv, TypeOK
    <2> USE DEF Keeps, Goto, Fail, da, files, own, local, syncs, count
    <2>1. CASE Begin("s_accounts")
      BY <2>1 DEF Begin
    <2>2. CASE Begin("t_units")
      BY <2>2 DEF Begin
    <2>3. CASE End
      BY <2>3 DEF End
    <2>4. CASE SetupAccounts
      BY <2>4 DEF SetupAccounts
    <2>5. CASE SetupBase
      BY <2>5 DEF SetupBase
    <2>6. CASE SetupChown
      BY <2>6 DEF SetupChown
    <2>7. CASE SetupModes
      BY <2>7 DEF SetupModes
    <2>8. CASE SetupSetuid
      BY <2>8 DEF SetupSetuid
    <2>9. CASE SetupFive
      BY <2>9 DEF SetupFive
    <2>10. CASE SetupFiveWrite
      <3>1. read \in Theirs \/ Blocked(read)
        BY <2>10 DEF WInv, Reads, SetupFiveWrite
      <3>2. Of(Upsert(read), "theirs") = Of(read, "theirs")
        BY <3>1, UpsertBlocks
      <3> QED BY <2>10, <3>1, <3>2 DEF SetupFiveWrite
    <2>11. CASE SetupSeven
      BY <2>11 DEF SetupSeven, StripRead
    <2>12. CASE SetupSevenWrite
      <3>1. read \in Theirs \/ Blocked(read)
        BY <2>12 DEF WInv, Reads, SetupSevenWrite
      <3>2. Of(Kept(read), "theirs") = Of(read, "theirs")
        BY <3>1, UpsertBlocks
      <3> QED BY <2>12, <3>1, <3>2 DEF SetupSevenWrite
    <2>13. CASE SetupWebUser
      BY <2>13 DEF SetupWebUser
    <2>14. CASE Rebuild("s_rebuild", "s_include")
      BY <2>14 DEF Rebuild
    <2>15. CASE SetupInclude
      BY <2>15 DEF SetupInclude
    <2>16. CASE SetupIncludeWrite
      <3>1. /\ Of(StripInclude(read), "theirs") = Of(read, "theirs")
            /\ Of(read \o <<"ibegin", "inc", "iend">>, "theirs") = Of(read, "theirs")
        BY <2>a, Retires, Includes
      <3> QED BY <2>16, <3>1 DEF SetupIncludeWrite
    <2>17. CASE SetupUnits
      BY <2>17 DEF SetupUnits
    <2>18. CASE TearUnits
      BY <2>18 DEF TearUnits
    <2>19. CASE TearBase
      BY <2>19 DEF TearBase
    <2>20. CASE TearFive
      BY <2>20 DEF TearFive, StripRead
    <2>21. CASE TearFiveWrite
      <3>1. read \in Theirs \/ Blocked(read)
        BY <2>21 DEF WInv, Reads, TearFiveWrite
      <3>2. Of(Kept(read), "theirs") = Of(read, "theirs")
        BY <3>1, UpsertBlocks
      <3> QED BY <2>21, <3>1, <3>2 DEF TearFiveWrite
    <2>22. CASE TearSeven
      BY <2>22 DEF TearSeven, StripRead
    <2>23. CASE TearSevenWrite
      <3>1. read \in Theirs \/ Blocked(read)
        BY <2>23 DEF WInv, Reads, TearSevenWrite
      <3>2. Of(Kept(read), "theirs") = Of(read, "theirs")
        BY <3>1, UpsertBlocks
      <3> QED BY <2>23, <3>1, <3>2 DEF TearSevenWrite
    <2>24. CASE TearMain
      BY <2>24 DEF TearMain
    <2>25. CASE TearMainWrite
      <3>1. Of(FilterInclude(read), "theirs") = Of(read, "theirs")
        BY <2>a, Filters
      <3> QED BY <2>25, <3>1 DEF TearMainWrite
    <2>26. CASE TearFiles
      BY <2>26 DEF TearFiles
    <2>27. CASE Rebuild("t_rebuild", "t_done")
      BY <2>27 DEF Rebuild
    <2>28. CASE SyncBegin
      BY <2>28 DEF SyncBegin
    <2>29. CASE SyncWrite
      BY <2>29 DEF SyncWrite
    <2>30. CASE SyncRetire
      BY <2>30 DEF SyncRetire
    <2>31. CASE SyncRename
      <3>1. Of(StripInclude(syncread), "theirs") = Of(syncread, "theirs")
        BY <2>a, Retires
      <3>2. sync' # sync /\ five' = five /\ seven' = seven
        BY <2>31 DEF SyncRename
      <3> QED BY <2>31, <3>1, <3>2 DEF SyncRename
    <2>32. CASE Regenerate
      BY <2>32, <2>a DEF Regenerate
    <2>33. CASE Edit
      BY <2>33, <2>a DEF Edit
    <2>34. CASE UNCHANGED vars
      BY <2>34 DEF vars
    <2> QED BY <2>1, <2>2, <2>3, <2>4, <2>5, <2>6, <2>7, <2>8, <2>9, <2>10, <2>11, <2>12,
            <2>13, <2>14, <2>15, <2>16, <2>17, <2>18, <2>19, <2>20, <2>21, <2>22, <2>23,
            <2>24, <2>25, <2>26, <2>27, <2>28, <2>29, <2>30, <2>31, <2>32, <2>33, <2>34 DEF
            Next, Setup, Teardown, Sync
  <1> QED BY <1>1, WInvHolds, PTL DEF Spec, TheirsSurvive
=============================================================================
