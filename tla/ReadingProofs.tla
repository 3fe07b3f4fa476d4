----------------------------- MODULE ReadingProofs -----------------------------
(***************************************************************************)
(* What is computed from what is read: the verdict on a capture, for any   *)
(* chunks of any sizes (VerdictIsRight); the lines of a run's output, for  *)
(* any text and any interleaving of its writing and reading                *)
(* (LinesAreThose); what a run says of its progress, for any epochs and    *)
(* times (ProgressIsTold); what a worker's rows say of its epochs, for any *)
(* rows (EstimatesAgree).                                                  *)
(*                                                                         *)
(* The first three compute step by step what a reference says of the       *)
(* whole, so the invariant says what is known of the part that has been    *)
(* read: which chunks the walk has passed (Tells), which lines the         *)
(* characters so far end and what is behind the last end (Terminated,      *)
(* Rest), between which costs the rate lies (RateBetween).  The estimates  *)
(* are computed at once; there the argument is about the rows: those the   *)
(* query leaves out have nothing to add (LastAreRecent), and a sum over    *)
(* rows is one over epochs (SumsByFirst).                                  *)
(*                                                                         *)
(* Where a chunk begins and what rows add up to are recursive: what holds  *)
(* of them for every number or finite set is proved for the smallest       *)
(* exception, which exists because the subsets of a finite set are ordered *)
(* well-foundedly (WFMin).                                                 *)
(***************************************************************************)
EXTENDS WavCheck, LineReader, Progress, Estimates, FiniteSetTheorems, WellFoundedInduction, TLAPS

-----------------------------------------------------------------------------
(* Induction over numbers and finite sets.                                 *)

\* Induction on the numbers, for a set of them.
LEMMA NatInduct ==
  ASSUME NEW X, 0 \in X, \A n \in Nat : n \in X => n + 1 \in X
  PROVE  \A n \in Nat : n \in X
<1> DEFINE F == FiniteSubsetsOf(Nat)
           B == {0..n : n \in Nat \ X}
<1>1. IsWellFoundedOn(StrictSubsetOrdering(Nat), F)
  BY FS_StrictSubsetOrderingWellFounded
<1>2. SUFFICES ASSUME B # {} PROVE FALSE
  OBVIOUS
<1>3. B \subseteq F
  <2> SUFFICES ASSUME NEW n \in Nat PROVE 0..n \in F
    OBVIOUS
  <2>1. IsFiniteSet(0..n) /\ 0..n \subseteq Nat
    BY FS_Interval
  <2> QED BY <2>1 DEF FiniteSubsetsOf
<1>4. PICK m \in B : \A y \in B : ~(<<y, m>> \in StrictSubsetOrdering(Nat))
  <2> HIDE DEF F, B
  <2> QED BY <1>1, <1>2, <1>3, WFMin
<1>5. PICK n \in Nat \ X : m = 0..n
  OBVIOUS
<1>6. n # 0 /\ n - 1 \in Nat /\ n - 1 \notin X
  OBVIOUS
<1>7. 0..(n - 1) \in B
  BY <1>6
<1>8. 0..(n - 1) \subseteq 0..n /\ n \in 0..n /\ n \notin 0..(n - 1)
  BY <1>5, <1>6
<1>9. <<0..(n - 1), m>> \in StrictSubsetOrdering(Nat)
  BY <1>5, <1>8 DEF StrictSubsetOrdering
<1> QED BY <1>4, <1>7, <1>9

\* Induction on finite sets, for a set of them.
LEMMA SetsInduct ==
  ASSUME NEW U, NEW X, {} \in X,
         \A S \in SUBSET U : \A x \in U \ S : IsFiniteSet(S) /\ S \in X => S \cup {x} \in X
  PROVE  \A S \in SUBSET U : IsFiniteSet(S) => S \in X
<1> DEFINE F == FiniteSubsetsOf(U)
           B == F \ X
<1>1. IsWellFoundedOn(StrictSubsetOrdering(U), F)
  BY FS_StrictSubsetOrderingWellFounded
<1>2. SUFFICES ASSUME B # {} PROVE FALSE
  BY DEF FiniteSubsetsOf
<1>3. PICK m \in B : \A y \in B : ~(<<y, m>> \in StrictSubsetOrdering(U))
  <2> HIDE DEF F
  <2> QED BY <1>1, <1>2, WFMin
<1>4. m \in SUBSET U /\ IsFiniteSet(m) /\ m # {} /\ m \notin X
  BY DEF FiniteSubsetsOf
<1>5. PICK x \in m : TRUE
  BY <1>4
<1>6. m \ {x} \in SUBSET U /\ IsFiniteSet(m \ {x}) /\ m \ {x} # m
  BY <1>4, FS_RemoveElement
<1>7. m \ {x} \in F
  BY <1>6 DEF FiniteSubsetsOf
<1>8. <<m \ {x}, m>> \in StrictSubsetOrdering(U)
  BY <1>4, <1>6 DEF StrictSubsetOrdering
<1>9. m \ {x} \in X
  BY <1>3, <1>7, <1>8
<1>10. (m \ {x}) \cup {x} = m
  OBVIOUS
<1> QED BY <1>4, <1>6, <1>9, <1>10

\* What cannot be the smallest exception has none.
LEMMA SetsDescend ==
  ASSUME NEW U, IsFiniteSet(U), NEW X,
         \A S \in SUBSET U : (\A T \in SUBSET S : T # S => T \in X) => S \in X
  PROVE  \A S \in SUBSET U : S \in X
<1> DEFINE F == FiniteSubsetsOf(U)
           B == F \ X
<1>1. IsWellFoundedOn(StrictSubsetOrdering(U), F)
  BY FS_StrictSubsetOrderingWellFounded
<1>2. F = SUBSET U
  BY FS_FiniteSubsetsOfFinite
<1>3. SUFFICES ASSUME B # {} PROVE FALSE
  BY <1>2
<1>4. PICK m \in B : \A y \in B : ~(<<y, m>> \in StrictSubsetOrdering(U))
  <2>1. B \subseteq F
    OBVIOUS
  <2> HIDE DEF F, B
  <2> QED BY <1>1, <1>3, <2>1, WFMin
<1>5. m \in SUBSET U /\ m \notin X
  BY <1>2
<1>6. ASSUME NEW T \in SUBSET m, T # m PROVE T \in X
  <2>1. <<T, m>> \in StrictSubsetOrdering(U)
    BY <1>5, <1>6 DEF StrictSubsetOrdering
  <2>2. T \notin B
    BY <1>4, <2>1
  <2>3. T \in F
    BY <1>2, <1>5
  <2> QED BY <2>2, <2>3
<1> QED BY <1>5, <1>6

\* A finite set of numbers has a largest and a smallest.
LEMMA Extremes ==
  ASSUME NEW S, S \subseteq Int, IsFiniteSet(S), S # {}
  PROVE  /\ Max(S) \in S /\ \A y \in S : y <= Max(S)
         /\ Min(S) \in S /\ \A y \in S : Min(S) <= y
<1> DEFINE X == {T \in SUBSET S : T # {} => /\ \E x \in T : \A y \in T : x >= y
                                           /\ \E x \in T : \A y \in T : x =< y}
<1>1. {} \in X
  OBVIOUS
<1>2. ASSUME NEW T \in SUBSET S, NEW x \in S \ T, T \in X PROVE T \cup {x} \in X
  <2>1. CASE T = {}
    <3>1. T \cup {x} = {x} /\ x \in Int
      BY <2>1
    <3> QED BY <3>1
  <2>2. CASE T # {}
    <3>1. PICK a \in T : \A y \in T : a >= y
      BY <1>2, <2>2
    <3>2. PICK b \in T : \A y \in T : b =< y
      BY <1>2, <2>2
    <3>3. a \in Int /\ b \in Int /\ x \in Int /\ \A y \in T : y \in Int
      OBVIOUS
    <3>4. \E z \in T \cup {x} : \A y \in T \cup {x} : z >= y
      <4>1. CASE a >= x
        BY <3>1, <4>1
      <4>2. CASE ~(a >= x)
        <5>1. \A y \in T \cup {x} : x >= y
          BY <3>1, <3>3, <4>2
        <5> QED BY <5>1
      <4> QED BY <4>1, <4>2
    <3>5. \E z \in T \cup {x} : \A y \in T \cup {x} : z =< y
      <4>1. CASE b =< x
        BY <3>2, <4>1
      <4>2. CASE ~(b =< x)
        <5>1. \A y \in T \cup {x} : x =< y
          BY <3>2, <3>3, <4>2
        <5> QED BY <5>1
      <4> QED BY <4>1, <4>2
    <3> QED BY <3>4, <3>5
  <2> QED BY <2>1, <2>2
<1> HIDE DEF X
<1>3. S \in X
  BY <1>1, <1>2, SetsInduct
<1>4. (\E x \in S : \A y \in S : x >= y) /\ (\E x \in S : \A y \in S : x =< y)
  BY <1>3 DEF X
<1>5. Max(S) \in S /\ \A y \in S : Max(S) >= y
  BY <1>4, Zenon DEF Max
<1>6. Min(S) \in S /\ \A y \in S : Min(S) =< y
  BY <1>4, Zenon DEF Min
<1> QED BY <1>5, <1>6

-----------------------------------------------------------------------------
(* A verdict on a capture.                                                 *)

Upward(f, n) ==
  f = [i \in 0..n |-> IF i <= 1 THEN 12 ELSE f[i - 1] + 8 + Padded(chunks[i - 1].size)]

LEMMA UpwardExists == \A n \in Nat : \E f : Upward(f, n)
<1> DEFINE X == {n \in Nat : \E f : Upward(f, n)}
<1>1. 0 \in X
  <2>1. Upward([i \in 0..0 |-> 12], 0)
    BY DEF Upward
  <2> QED BY <2>1
<1>2. ASSUME NEW n \in Nat, n \in X PROVE n + 1 \in X
  <2>1. PICK f : Upward(f, n)
    BY <1>2
  <2> DEFINE g == [i \in 0..(n + 1) |-> IF i <= 1 THEN 12
                     ELSE (IF i = n + 1 THEN f[n] ELSE f[i - 1]) + 8 + Padded(chunks[i - 1].size)]
  <2>2. \A i \in 0..n : g[i] = f[i]
    BY <2>1 DEF Upward
  <2>3. \A i \in 2..(n + 1) : (IF i = n + 1 THEN f[n] ELSE f[i - 1]) = g[i - 1]
    <3> TAKE i \in 2..(n + 1)
    <3>1. i - 1 \in 0..n
      OBVIOUS
    <3>2. g[i - 1] = f[i - 1]
      BY <2>2, <3>1
    <3> HIDE DEF g
    <3> QED BY <3>1, <3>2
  <2>4. Upward(g, n + 1)
    <3> SUFFICES \A i \in 0..(n + 1) : (IF i <= 1 THEN 12
                     ELSE (IF i = n + 1 THEN f[n] ELSE f[i - 1]) + 8 + Padded(chunks[i - 1].size))
                   = (IF i <= 1 THEN 12 ELSE g[i - 1] + 8 + Padded(chunks[i - 1].size))
      BY Zenon DEF Upward
    <3> TAKE i \in 0..(n + 1)
    <3>1. CASE i <= 1
      BY <3>1
    <3>2. CASE ~(i <= 1)
      <4>1. i \in 2..(n + 1)
        BY <3>2
      <4> HIDE DEF g
      <4> QED BY <2>3, <4>1, <3>2
    <3> QED BY <3>1, <3>2
  <2>5. n + 1 \in Nat
    OBVIOUS
  <2> QED BY <2>4, <2>5, Zenon
<1> HIDE DEF X
<1>3. \A n \in Nat : n \in X
  BY <1>1, <1>2, NatInduct
<1> QED BY <1>3 DEF X

LEMMA UpwardUnique ==
  ASSUME NEW n \in Nat, NEW m \in Nat, NEW f, NEW g, Upward(f, n), Upward(g, m)
  PROVE  \A i \in Nat : i <= n /\ i <= m => f[i] = g[i]
<1> DEFINE X == {i \in Nat : i <= n /\ i <= m => f[i] = g[i]}
<1>1. 0 \in X
  BY DEF Upward
<1>2. ASSUME NEW i \in Nat, i \in X PROVE i + 1 \in X
  <2>1. CASE i + 1 <= n /\ i + 1 <= m
    <3>1. f[i] = g[i]
      BY <1>2, <2>1
    <3>2. i + 1 \in 0..n /\ i + 1 \in 0..m /\ (i + 1) - 1 = i
      BY <2>1
    <3> QED BY <3>1, <3>2 DEF Upward
  <2> QED BY <2>1
<1> HIDE DEF X
<1>3. \A i \in Nat : i \in X
  BY <1>1, <1>2, NatInduct
<1> QED BY <1>3 DEF X

LEMMA ChunkAtIs ==
  ChunkAt = [n \in Nat |-> IF n <= 1 THEN 12 ELSE ChunkAt[n - 1] + 8 + Padded(chunks[n - 1].size)]
<1> DEFINE F == [n \in Nat |-> (CHOOSE f : Upward(f, n))[n]]
<1>1. \A n \in Nat : Upward(CHOOSE f : Upward(f, n), n)
  BY UpwardExists, Zenon
<1>2. \A n \in Nat : F[n] = IF n <= 1 THEN 12 ELSE F[n - 1] + 8 + Padded(chunks[n - 1].size)
  <2> TAKE n \in Nat
  <2> DEFINE f == CHOOSE h : Upward(h, n)
             g == CHOOSE h : Upward(h, n - 1)
  <2>1. Upward(f, n)
    BY <1>1
  <2>2. F[n] = f[n]
    OBVIOUS
  <2>3. f[n] = IF n <= 1 THEN 12 ELSE f[n - 1] + 8 + Padded(chunks[n - 1].size)
    <3> HIDE DEF f
    <3>1. n \in 0..n
      OBVIOUS
    <3> QED BY <2>1, <3>1 DEF Upward
  <2>4. CASE n <= 1
    <3> HIDE DEF F, f
    <3> QED BY <2>2, <2>3, <2>4
  <2>5. CASE ~(n <= 1)
    <3>1. n - 1 \in Nat
      BY <2>5
    <3>2. Upward(g, n - 1) /\ F[n - 1] = g[n - 1]
      BY <1>1, <3>1
    <3>3. f[n - 1] = g[n - 1]
      <4> HIDE DEF f, g
      <4> QED BY <2>1, <3>1, <3>2, UpwardUnique
    <3> HIDE DEF F, f, g
    <3> QED BY <2>2, <2>3, <2>5, <3>2, <3>3
  <2> QED BY <2>4, <2>5
<1>3. F = [n \in Nat |-> IF n <= 1 THEN 12 ELSE F[n - 1] + 8 + Padded(chunks[n - 1].size)]
  <2>1. F = [n \in Nat |-> F[n]]
    OBVIOUS
  <2> HIDE DEF F
  <2> QED BY <1>2, <2>1, Zenon
<1> HIDE DEF F
<1>4. \E f : f = [n \in Nat |-> IF n <= 1 THEN 12 ELSE f[n - 1] + 8 + Padded(chunks[n - 1].size)]
  BY <1>3, Zenon
<1> QED BY <1>4, Zenon DEF ChunkAt

-----------------------------------------------------------------------------
WavStops == {"upload", "no wav", "scan", "judge", "accepted", "refused"}
WavTypeOK ==
  /\ chunks \in Seq(Chunk) /\ missing \in Nat
  /\ walk \in [at : WavStops, off : Nat, fmt : Chunk \cup {NoChunk},
               data : Chunk \cup {NoChunk}, body : Nat]

\* Only the last chunk can lack some of its body.
Shortened ==
  \/ missing = 0
  \/ chunks # <<>> /\ missing <= Padded(chunks[Len(chunks)].size)

LEMMA PaddedIs ==
  ASSUME NEW s \in Nat
  PROVE  Padded(s) \in Nat /\ s <= Padded(s) /\ Padded(s) <= s + 1
BY DEF Padded

LEMMA ChunkIs ==
  ASSUME NEW c \in Chunk
  PROVE  /\ c # NoChunk /\ c.size \in Nat /\ c.id \in {"fmt", "data", "LIST"}
         /\ c.rate \in Nat /\ c.byteRate \in Nat
<1>1. CASE c \in [id : {"fmt"}, size : Sizes, rate : SampleRates, byteRate : ByteRates]
  <2>1. c.id = "fmt" /\ c.size \in Sizes /\ c.rate \in SampleRates /\ c.byteRate \in ByteRates
    BY <1>1
  <2>2. c.size \in Nat /\ c.rate \in Nat /\ c.byteRate \in Nat
    BY <2>1, WavAssumption
  <2>3. c # NoChunk
    BY <2>1 DEF NoChunk
  <2> QED BY <2>1, <2>2, <2>3
<1>2. CASE c \in [id : {"data", "LIST"}, size : Sizes, rate : {0}, byteRate : {0}]
  <2>1. c.id \in {"data", "LIST"} /\ c.size \in Sizes /\ c.rate = 0 /\ c.byteRate = 0
    BY <1>2
  <2>2. c.id # "none" /\ c.id # "fmt" /\ c.size \in Nat
    BY <2>1, WavAssumption
  <2>3. c # NoChunk
    BY <2>2 DEF NoChunk
  <2> QED BY <2>1, <2>2, <2>3
<1> QED BY <1>1, <1>2 DEF Chunk

\* Where the chunks begin, one after the other.
LEMMA ChunksLie ==
  ASSUME WavTypeOK
  PROVE  /\ ChunkAt[1] = 12
         /\ \A n \in 1..(Len(chunks) + 1) : ChunkAt[n] \in Nat
         /\ \A n \in 1..Len(chunks) : ChunkAt[n + 1] = ChunkAt[n] + 8 + Padded(chunks[n].size)
         /\ \A n, m \in 1..(Len(chunks) + 1) : n < m => ChunkAt[n + 1] <= ChunkAt[m]
         /\ \A n, m \in 1..(Len(chunks) + 1) : n < m => ChunkAt[n] + 8 <= ChunkAt[m]
<1>1. /\ ChunkAt[1] = 12
      /\ \A n \in 1..Len(chunks) : ChunkAt[n + 1] = ChunkAt[n] + 8 + Padded(chunks[n].size)
  <2>1. ASSUME NEW n \in Nat
        PROVE ChunkAt[n] = IF n <= 1 THEN 12 ELSE ChunkAt[n - 1] + 8 + Padded(chunks[n - 1].size)
    BY ChunkAtIs, Zenon
  <2>2. ChunkAt[1] = 12
    BY <2>1
  <2>3. ASSUME NEW n \in 1..Len(chunks)
        PROVE ChunkAt[n + 1] = ChunkAt[n] + 8 + Padded(chunks[n].size)
    <3>1. n + 1 \in Nat /\ ~(n + 1 <= 1) /\ (n + 1) - 1 = n
      BY DEF WavTypeOK
    <3> QED BY <2>1, <3>1
  <2> QED BY <2>2, <2>3
<1>2. \A n \in 1..Len(chunks) : Padded(chunks[n].size) \in Nat
  <2> TAKE n \in 1..Len(chunks)
  <2>1. chunks[n] \in Chunk
    BY DEF WavTypeOK
  <2>2. chunks[n].size \in Nat
    BY <2>1, ChunkIs
  <2> QED BY <2>2, PaddedIs
<1> Len(chunks) \in Nat
  BY DEF WavTypeOK
<1>3. \A n \in 1..(Len(chunks) + 1) : ChunkAt[n] \in Nat
  <2> DEFINE X == {n \in Nat : n + 1 <= Len(chunks) + 1 => ChunkAt[n + 1] \in Nat}
  <2>1. 0 \in X
    BY <1>1
  <2>2. ASSUME NEW n \in Nat, n \in X PROVE n + 1 \in X
    <3>1. CASE n + 1 <= Len(chunks)
      <4>1. n + 1 \in 1..Len(chunks) /\ n + 1 <= Len(chunks) + 1
        BY <3>1
      <4> QED BY <1>1, <1>2, <2>2, <4>1
    <3> QED BY <3>1
  <2> HIDE DEF X
  <2>3. \A n \in Nat : n \in X
    BY <2>1, <2>2, NatInduct
  <2>4. ASSUME NEW n \in 1..(Len(chunks) + 1) PROVE ChunkAt[n] \in Nat
    <3>1. n - 1 \in Nat /\ (n - 1) + 1 = n
      OBVIOUS
    <3>2. n - 1 \in X
      BY <2>3, <3>1
    <3> QED BY <3>1, <3>2 DEF X
  <2> QED BY <2>4
<1>4. \A n, m \in 1..(Len(chunks) + 1) : n < m => ChunkAt[n + 1] <= ChunkAt[m]
  <2> SUFFICES ASSUME NEW n \in 1..Len(chunks)
               PROVE  \A m \in 1..(Len(chunks) + 1) : n < m => ChunkAt[n + 1] <= ChunkAt[m]
    OBVIOUS
  <2> DEFINE X == {m \in Nat : n < m /\ m <= Len(chunks) + 1 => ChunkAt[n + 1] <= ChunkAt[m]}
  <2>1. 0 \in X
    OBVIOUS
  <2>2. ASSUME NEW m \in Nat, m \in X PROVE m + 1 \in X
    <3>1. CASE n < m /\ m + 1 <= Len(chunks) + 1
      <4>1. m \in 1..Len(chunks) /\ m \in 1..(Len(chunks) + 1)
        BY <3>1
      <4>2. ChunkAt[m] \in Nat /\ ChunkAt[n + 1] \in Nat
        BY <1>3, <4>1
      <4>3. ChunkAt[m + 1] = ChunkAt[m] + 8 + Padded(chunks[m].size)
            /\ Padded(chunks[m].size) \in Nat
        BY <1>1, <1>2, <4>1
      <4>4. ChunkAt[n + 1] <= ChunkAt[m]
        BY <2>2, <3>1, <4>1
      <4>5. ChunkAt[n + 1] <= ChunkAt[m + 1]
        BY <4>2, <4>3, <4>4
      <4> QED BY <4>5
    <3>2. CASE n = m
      <4>1. ChunkAt[n + 1] \in Nat
        BY <1>3
      <4> QED BY <3>2, <4>1
    <3> QED BY <3>1, <3>2
  <2> HIDE DEF X
  <2>3. \A m \in Nat : m \in X
    BY <2>1, <2>2, NatInduct
  <2> QED BY <2>3 DEF X
<1>5. ASSUME NEW n \in 1..(Len(chunks) + 1), NEW m \in 1..(Len(chunks) + 1), n < m
      PROVE  ChunkAt[n] + 8 <= ChunkAt[m]
  <2>1. n \in 1..Len(chunks) /\ n + 1 \in 1..(Len(chunks) + 1)
    BY <1>5
  <2>2. ChunkAt[n + 1] = ChunkAt[n] + 8 + Padded(chunks[n].size) /\ Padded(chunks[n].size) \in Nat
    BY <1>1, <1>2, <2>1
  <2>3. ChunkAt[n] \in Nat /\ ChunkAt[n + 1] \in Nat /\ ChunkAt[m] \in Nat
    BY <1>3, <2>1
  <2>4. ChunkAt[n + 1] <= ChunkAt[m]
    BY <1>4, <1>5
  <2> QED BY <2>2, <2>3, <2>4
<1> QED BY <1>1, <1>3, <1>4, <1>5

\* Where the file ends: behind every chunk but the last, and within the last.
LEMMA FileEnds ==
  ASSUME WavTypeOK, Shortened
  PROVE  /\ FileSize \in Int
         /\ \A n \in 1..Len(chunks) : ChunkAt[n] + 8 <= FileSize
         /\ \A n \in 1..Len(chunks) : n < Len(chunks) => ChunkAt[n + 1] <= FileSize
         /\ FileSize <= ChunkAt[Len(chunks) + 1]
<1> DEFINE L == Len(chunks)
<1>1. L \in Nat /\ (chunks # <<>> <=> L > 0) /\ missing \in Nat
  BY DEF WavTypeOK
<1>2. ASSUME NEW n \in 1..L
      PROVE  /\ chunks[n].size \in Nat /\ Padded(chunks[n].size) \in Nat
             /\ chunks[n].size <= Padded(chunks[n].size)
  <2>1. chunks[n] \in Chunk
    BY DEF WavTypeOK
  <2>2. chunks[n].size \in Nat
    BY <2>1, ChunkIs
  <2> QED BY <2>2, PaddedIs
<1>3. ASSUME NEW n \in 1..(L + 1) PROVE ChunkAt[n] \in Nat
  BY ChunksLie
<1>4. FileSize = ChunkAt[L + 1] - missing /\ ChunkAt[L + 1] \in Nat
  BY <1>1, <1>3 DEF FileSize
<1>5. missing = 0 \/ (L > 0 /\ missing <= Padded(chunks[L].size))
  <2>1. CASE missing = 0
    BY <2>1
  <2>2. CASE chunks # <<>> /\ missing <= Padded(chunks[Len(chunks)].size)
    BY <1>1, <2>2
  <2> QED BY <2>1, <2>2 DEF Shortened
<1>6. FileSize \in Int /\ FileSize <= ChunkAt[L + 1]
  BY <1>1, <1>4
<1>7. L > 0 => ChunkAt[L] + 8 <= FileSize
  <2> SUFFICES ASSUME L > 0 PROVE ChunkAt[L] + 8 <= FileSize
    OBVIOUS
  <2>1. L \in 1..L /\ L \in 1..(L + 1)
    BY <1>1
  <2>2. ChunkAt[L + 1] = ChunkAt[L] + 8 + Padded(chunks[L].size)
    BY <2>1, ChunksLie
  <2>3. ChunkAt[L] \in Nat /\ Padded(chunks[L].size) \in Nat
    BY <2>1, <1>2, <1>3
  <2> QED BY <2>2, <2>3, <1>1, <1>4, <1>5
<1>8. ASSUME NEW n \in 1..L, n < L PROVE ChunkAt[n + 1] <= FileSize
  <2>1. L \in 1..(L + 1) /\ n \in 1..(L + 1) /\ n + 1 \in 1..(L + 1) /\ L > 0
    BY <1>1, <1>8
  <2>2. ChunkAt[n + 1] <= ChunkAt[L]
    BY <2>1, <1>8, ChunksLie
  <2>3. ChunkAt[L] \in Nat /\ ChunkAt[n + 1] \in Nat
    BY <2>1, <1>3
  <2> QED BY <2>1, <2>2, <2>3, <1>6, <1>7
<1>9. ASSUME NEW n \in 1..L PROVE ChunkAt[n] + 8 <= FileSize
  <2>1. CASE n = L
    BY <1>1, <1>7, <2>1
  <2>2. CASE n < L
    <3>1. ChunkAt[n + 1] = ChunkAt[n] + 8 + Padded(chunks[n].size)
      BY ChunksLie
    <3>2. n \in 1..(L + 1)
      BY <1>1
    <3> QED BY <3>1, <3>2, <2>2, <1>2, <1>3, <1>6, <1>8
  <2> QED BY <1>1, <2>1, <2>2
<1> QED BY <1>6, <1>8, <1>9

-----------------------------------------------------------------------------
\* What the walk has found behind it, n chunks of the file.
LastOf(i, n, id) == i \in Upto(n, id) /\ \A k \in Upto(n, id) : k <= i
FmtFound(w, n) ==
  IF Upto(n, "fmt") = {} THEN w.fmt = NoChunk
  ELSE \E i \in 1..n : LastOf(i, n, "fmt") /\ w.fmt = chunks[i]
DataFound(w, n) ==
  IF Upto(n, "data") = {} THEN w.data = NoChunk
  ELSE \E i \in 1..n : LastOf(i, n, "data") /\ w.data = chunks[i] /\ w.body = ChunkAt[i] + 8
FmtsWhole(n) == \A i \in Upto(n, "fmt") : ChunkAt[i] + 8 + FmtBody <= FileSize
Found(w, n) == FmtFound(w, n) /\ DataFound(w, n) /\ FmtsWhole(n)
Undecided(n) == \A m \in 1..n : m \notin Deciding

\* What the verdict should be.
Sound ==
  \E n \in Deciding :
    /\ \A m \in Deciding : n <= m
    /\ LET f == Latest(Upto(n, "fmt"))  d == Latest(Upto(n, "data")) IN
       /\ Behind(f) >= FmtBody /\ Behind(d) >= chunks[d].size
       /\ chunks[f].rate = RequiredSampleRate
       /\ chunks[f].byteRate > 0
       /\ chunks[d].size \in
            MinSeconds * chunks[f].byteRate..MaxSeconds * chunks[f].byteRate

\* The walk is at the beginning of a chunk, or has found what there is to judge.
Tells(w) ==
  /\ w.at = "upload" => w.off = 12 /\ w.fmt = NoChunk /\ w.data = NoChunk
  /\ w.at = "scan" => \E n \in 0..Len(chunks) :
       w.off = ChunkAt[n + 1] /\ Found(w, n) /\ Undecided(n)
  /\ w.at = "judge" => \E n \in 0..Len(chunks) :
       /\ Found(w, n)
       /\ \/ n \in Deciding /\ Undecided(n - 1)
          \/ Deciding = {} /\ (w.fmt = NoChunk \/ w.data = NoChunk)
  /\ w.at \in {"accepted", "refused"} => (w.at = "accepted" <=> Sound)

WavInv == WavTypeOK /\ Shortened /\ Tells(walk)

LEMMA LatestIs ==
  ASSUME NEW n \in Nat, NEW id, NEW i, LastOf(i, n, id)
  PROVE  Latest(Upto(n, id)) = i
<1>1. \A k \in Upto(n, id) : k \in Nat
  BY DEF Upto
<1>2. i \in Upto(n, id) /\ \A k \in Upto(n, id) : k <= i
  BY DEF LastOf
<1>3. PICK j \in Upto(n, id) : j = Latest(Upto(n, id)) /\ \A k \in Upto(n, id) : k <= j
  BY <1>2, Zenon DEF Latest
<1> QED BY <1>1, <1>2, <1>3

\* The verdict on what was found.
LEMMA JudgedRightly ==
  ASSUME WavTypeOK, Shortened, NEW n \in 0..Len(chunks), Found(walk, n),
         \/ n \in Deciding /\ Undecided(n - 1)
         \/ Deciding = {} /\ (walk.fmt = NoChunk \/ walk.data = NoChunk)
  PROVE  Playable(walk.fmt, walk.data, FileSize - walk.body) <=> Sound
<1>1. CASE Deciding = {} /\ (walk.fmt = NoChunk \/ walk.data = NoChunk)
  BY <1>1 DEF Sound, Playable
<1>2. CASE n \in Deciding /\ Undecided(n - 1)
  <2>1. n \in 1..Len(chunks) /\ Len(chunks) \in Nat /\ DOMAIN chunks = 1..Len(chunks)
    BY <1>2 DEF Deciding, WavTypeOK
  <2>2. Upto(n, "fmt") # {} /\ Upto(n, "data") # {}
    BY <1>2 DEF Deciding
  <2>3. PICK f \in 1..n : LastOf(f, n, "fmt") /\ walk.fmt = chunks[f]
    BY <2>2 DEF Found, FmtFound
  <2>4. PICK d \in 1..n : LastOf(d, n, "data") /\ walk.data = chunks[d]
        /\ walk.body = ChunkAt[d] + 8
    BY <2>2 DEF Found, DataFound
  <2>5. Latest(Upto(n, "fmt")) = f /\ Latest(Upto(n, "data")) = d
    BY <2>1, <2>3, <2>4, LatestIs
  <2>6. f \in 1..Len(chunks) /\ d \in 1..Len(chunks)
    BY <2>1
  <2>7. chunks[f] \in Chunk /\ chunks[d] \in Chunk
    BY <2>6 DEF WavTypeOK
  <2>8. /\ chunks[f] # NoChunk /\ chunks[d] # NoChunk
        /\ chunks[f].byteRate \in Nat /\ chunks[d].size \in Nat
    BY <2>7, ChunkIs
  <2>9. Behind(f) >= FmtBody
    <3>1. f \in Upto(n, "fmt") /\ chunks[f].id = "fmt"
      BY <2>3 DEF LastOf, Upto
    <3>2. ChunkAt[f] + 8 + FmtBody <= FileSize
      BY <3>1 DEF Found, FmtsWhole
    <3>3. ChunkAt[f] \in Nat /\ FileSize \in Int
      BY <2>1, <2>6, ChunksLie, FileEnds
    <3> QED BY <3>2, <3>3 DEF Behind, FmtBody
  <2>10. Behind(d) >= chunks[d].size <=> chunks[d].size <= FileSize - walk.body
    <3>1. ChunkAt[d] \in Nat /\ FileSize \in Int
      BY <2>1, <2>6, ChunksLie, FileEnds
    <3> QED BY <2>4, <2>8, <3>1 DEF Behind
  <2>11. \A m \in Deciding : n <= m
    BY <1>2, <2>1 DEF Undecided, Deciding
  <2>12. \A m \in Deciding : (\A k \in Deciding : m <= k) => m = n
    BY <1>2, <2>1, <2>11 DEF Deciding
  <2> DEFINE Long == chunks[d].size \in
               MinSeconds * chunks[f].byteRate..MaxSeconds * chunks[f].byteRate
  <2>13. Long <=> /\ chunks[d].size >= MinSeconds * chunks[f].byteRate
                  /\ chunks[d].size <= MaxSeconds * chunks[f].byteRate
    BY <2>8 DEF MinSeconds, MaxSeconds
  <2>14. chunks[f].byteRate > 0 <=> chunks[f].byteRate # 0
    BY <2>8
  <2>15. Sound <=> /\ Behind(d) >= chunks[d].size /\ chunks[f].rate = RequiredSampleRate
                   /\ chunks[f].byteRate > 0 /\ Long
    <3> HIDE DEF Long
    <3>1. Sound <=> /\ Behind(f) >= FmtBody /\ Behind(d) >= chunks[d].size
                    /\ chunks[f].rate = RequiredSampleRate
                    /\ chunks[f].byteRate > 0 /\ Long
      BY <1>2, <2>5, <2>11, <2>12, Zenon DEF Sound, Long
    <3> QED BY <3>1, <2>9
  <2> HIDE DEF Long
  <2> QED BY <2>3, <2>4, <2>8, <2>10, <2>13, <2>14, <2>15 DEF Playable
<1> QED BY <1>1, <1>2

\* The header at a chunk's beginning is that chunk's.
LEMMA HeaderIs ==
  ASSUME WavTypeOK, NEW n \in 1..Len(chunks)
  PROVE  HeaderAt(ChunkAt[n]) = chunks[n]
<1>1. DOMAIN chunks = 1..Len(chunks) /\ Len(chunks) \in Nat
  BY DEF WavTypeOK
<1>2. ASSUME NEW m \in 1..Len(chunks), ChunkAt[m] = ChunkAt[n] PROVE m = n
  <2>1. m \in 1..(Len(chunks) + 1) /\ n \in 1..(Len(chunks) + 1)
    BY <1>1
  <2>2. ChunkAt[m] \in Nat /\ ChunkAt[n] \in Nat
    BY <2>1, ChunksLie
  <2>3. ~(m < n) /\ ~(n < m)
    <3>1. m < n => ChunkAt[m] + 8 <= ChunkAt[n]
      BY <2>1, ChunksLie
    <3>2. n < m => ChunkAt[n] + 8 <= ChunkAt[m]
      BY <2>1, ChunksLie
    <3> QED BY <3>1, <3>2, <2>2, <1>2
  <2> QED BY <1>1, <2>3
<1>3. (CHOOSE m \in DOMAIN chunks : ChunkAt[m] = ChunkAt[n]) = n
  BY <1>1, <1>2, Zenon
<1> QED BY <1>1, <1>3, Zenon DEF HeaderAt

\* One chunk more.
LEMMA UptoNext ==
  ASSUME NEW n \in Nat, NEW id
  PROVE  Upto(n + 1, id) = Upto(n, id) \cup IF chunks[n + 1].id = id THEN {n + 1} ELSE {}
BY DEF Upto

LEMMA LastOfNext ==
  ASSUME NEW n \in Nat, NEW id
  PROVE  /\ chunks[n + 1].id = id => LastOf(n + 1, n + 1, id) /\ Upto(n + 1, id) # {}
         /\ chunks[n + 1].id # id => /\ Upto(n + 1, id) = Upto(n, id)
                                    /\ \A i : LastOf(i, n, id) => LastOf(i, n + 1, id)
<1>1. CASE chunks[n + 1].id = id
  <2>1. n + 1 \in Upto(n + 1, id) /\ \A k \in Upto(n + 1, id) : k <= n + 1
    BY <1>1 DEF Upto
  <2> QED BY <1>1, <2>1 DEF LastOf
<1>2. CASE chunks[n + 1].id # id
  <2>1. Upto(n + 1, id) = Upto(n, id)
    <3>1. Upto(n + 1, id) = Upto(n, id) \cup {}
      BY <1>2, UptoNext, Zenon
    <3> QED BY <3>1
  <2> QED BY <1>2, <2>1 DEF LastOf
<1> QED BY <1>1, <1>2

LEMMA LastThere ==
  ASSUME NEW n \in Nat, NEW id, Upto(n, id) # {}
  PROVE  \E i \in 1..n : LastOf(i, n, id)
<1> DEFINE X == {m \in Nat : Upto(m, id) = {} \/ \E i \in 1..m : LastOf(i, m, id)}
<1>1. 0 \in X
  BY DEF Upto
<1>2. ASSUME NEW m \in Nat, m \in X PROVE m + 1 \in X
  <2>0. m + 1 \in Nat /\ m + 1 \in 1..(m + 1) /\ \A i \in 1..m : i \in 1..(m + 1)
    OBVIOUS
  <2>1. CASE chunks[m + 1].id = id
    BY <2>0, <2>1, LastOfNext
  <2>2. CASE chunks[m + 1].id # id
    <3>1. /\ Upto(m + 1, id) = Upto(m, id)
          /\ \A i : LastOf(i, m, id) => LastOf(i, m + 1, id)
      BY <2>2, LastOfNext
    <3> QED BY <1>2, <2>0, <3>1
  <2> QED BY <2>1, <2>2
<1> HIDE DEF X
<1>3. n \in X
  BY <1>1, <1>2, NatInduct
<1> QED BY <1>3 DEF X

LEMMA FoundNext ==
  ASSUME WavTypeOK, NEW n \in Nat, n + 1 <= Len(chunks), NEW w, NEW v,
         Found(w, n),
         chunks[n + 1].id = "fmt" => ChunkAt[n + 1] + 8 + FmtBody <= FileSize,
         IF chunks[n + 1].id = "fmt" THEN v.fmt = chunks[n + 1] ELSE v.fmt = w.fmt,
         IF chunks[n + 1].id = "data" THEN v.data = chunks[n + 1] /\ v.body = ChunkAt[n + 1] + 8
         ELSE v.data = w.data /\ v.body = w.body
  PROVE  Found(v, n + 1)
<1>0. n + 1 \in 1..(n + 1) /\ \A i \in 1..n : i \in 1..(n + 1)
  OBVIOUS
<1>1. FmtFound(v, n + 1)
  <2>1. CASE chunks[n + 1].id = "fmt"
    BY <1>0, <2>1, LastOfNext DEF FmtFound
  <2>2. CASE chunks[n + 1].id # "fmt"
    <3>1. /\ Upto(n + 1, "fmt") = Upto(n, "fmt")
          /\ \A i : LastOf(i, n, "fmt") => LastOf(i, n + 1, "fmt")
      BY <2>2, LastOfNext
    <3> QED BY <1>0, <2>2, <3>1 DEF Found, FmtFound
  <2> QED BY <2>1, <2>2
<1>2. DataFound(v, n + 1)
  <2>1. CASE chunks[n + 1].id = "data"
    BY <1>0, <2>1, LastOfNext DEF DataFound
  <2>2. CASE chunks[n + 1].id # "data"
    <3>1. /\ Upto(n + 1, "data") = Upto(n, "data")
          /\ \A i : LastOf(i, n, "data") => LastOf(i, n + 1, "data")
      BY <2>2, LastOfNext
    <3> QED BY <1>0, <2>2, <3>1 DEF Found, DataFound
  <2> QED BY <2>1, <2>2
<1>3. FmtsWhole(n + 1)
  <2>1. FmtsWhole(n)
    BY DEF Found
  <2> QED BY <2>1, UptoNext DEF FmtsWhole
<1> QED BY <1>1, <1>2, <1>3 DEF Found

\* Both kinds have been found exactly from the first deciding chunk on.
LEMMA FoundBoth ==
  ASSUME WavTypeOK, NEW n \in 0..Len(chunks), NEW w, Found(w, n)
  PROVE  (n \in Deciding <=> w.fmt # NoChunk /\ w.data # NoChunk)
<1>1. DOMAIN chunks = 1..Len(chunks) /\ Len(chunks) \in Nat
  BY DEF WavTypeOK
<1>2. \A i \in 1..n : chunks[i] # NoChunk
  <2> SUFFICES ASSUME NEW i \in 1..n PROVE chunks[i] # NoChunk
    OBVIOUS
  <2>1. chunks[i] \in Chunk
    BY <1>1 DEF WavTypeOK
  <2> QED BY <2>1, ChunkIs
<1>3. w.fmt # NoChunk <=> Upto(n, "fmt") # {}
  BY <1>2 DEF Found, FmtFound
<1>4. w.data # NoChunk <=> Upto(n, "data") # {}
  BY <1>2 DEF Found, DataFound
<1>5. n = 0 => Upto(n, "fmt") = {}
  BY DEF Upto
<1> QED BY <1>1, <1>3, <1>4, <1>5 DEF Deciding

\* What the last chunk lacks, nobody after it makes up for.
LEMMA CutIsLast ==
  ASSUME WavTypeOK, Shortened, NEW n \in 1..Len(chunks), ChunkAt[n + 1] > FileSize
  PROVE  n = Len(chunks)
<1>1. n < Len(chunks) => ChunkAt[n + 1] <= FileSize
  BY FileEnds
<1>2. n + 1 \in 1..(Len(chunks) + 1) /\ Len(chunks) \in Nat
  BY DEF WavTypeOK
<1>3. ChunkAt[n + 1] \in Nat /\ FileSize \in Int
  BY <1>2, ChunksLie, FileEnds
<1> QED BY <1>1, <1>2, <1>3

LEMMA NeverDecided ==
  ASSUME WavTypeOK, Undecided(Len(chunks))
  PROVE  Deciding = {}
BY DEF WavTypeOK, Undecided, Deciding

LEMMA VisitTells ==
  ASSUME WavTypeOK, Shortened, Tells(walk), Visit
  PROVE  /\ walk' \in [at : WavStops, off : Nat, fmt : Chunk \cup {NoChunk},
                      data : Chunk \cup {NoChunk}, body : Nat]
         /\ Tells(walk')
<1>1. PICK n \in 0..Len(chunks) : walk.off = ChunkAt[n + 1] /\ Found(walk, n) /\ Undecided(n)
  BY DEF Tells, Visit
<1>2. Len(chunks) \in Nat /\ DOMAIN chunks = 1..Len(chunks)
  BY DEF WavTypeOK
<1>3. n < Len(chunks)
  <2>0. SUFFICES ASSUME n = Len(chunks) PROVE FALSE
    <3>1. n # Len(chunks) => n < Len(chunks)
      <4> DEFINE L == Len(chunks)
      <4>1. L \in Nat /\ n \in 0..L
        BY <1>2
      <4> HIDE DEF L
      <4>2. n # L => n < L
        BY <4>1
      <4> QED BY <4>2 DEF L
    <3> QED BY <2>0, <3>1, Zenon
  <2>1. FileSize <= ChunkAt[Len(chunks) + 1] /\ FileSize \in Int
    BY FileEnds
  <2>2. Len(chunks) + 1 \in 1..(Len(chunks) + 1)
    BY <1>2
  <2>3. ChunkAt[Len(chunks) + 1] \in Nat
    BY <2>2, ChunksLie
  <2>4. walk.off + 8 <= FileSize
    BY DEF Visit
  <2> QED BY <1>1, <2>0, <2>1, <2>3, <2>4
<1> DEFINE k == n + 1
           c == chunks[k]
           body == ChunkAt[k] + 8
           found == CASE c.id = "fmt"  -> [walk EXCEPT !.fmt = c]
                      [] c.id = "data" -> [walk EXCEPT !.data = c, !.body = body]
                      [] OTHER         -> walk
           short == c.id = "fmt" /\ body + FmtBody > FileSize
           both == found.fmt # NoChunk /\ found.data # NoChunk
<1>4. k \in 1..Len(chunks) /\ k \in 1..(Len(chunks) + 1) /\ k + 1 \in 1..(Len(chunks) + 1)
  BY <1>2, <1>3
<1>5. /\ HeaderAt(walk.off) = c
      /\ Advance(walk.off + 8, c.size) = ChunkAt[k + 1]
  <2>1. ChunkAt[k + 1] = ChunkAt[k] + 8 + Padded(chunks[k].size)
    BY <1>4, ChunksLie
  <2> QED BY <1>1, <1>4, <2>1, HeaderIs DEF Advance
<1>6. walk' = IF short THEN [walk EXCEPT !.at = "refused"]
              ELSE IF both \/ ChunkAt[k + 1] > FileSize THEN [found EXCEPT !.at = "judge"]
              ELSE [found EXCEPT !.off = ChunkAt[k + 1]]
  BY <1>1, <1>5, Zenon DEF Visit
<1>7. c \in Chunk
  BY <1>4 DEF WavTypeOK
<1>8. ChunkAt[k] \in Nat /\ ChunkAt[k + 1] \in Nat /\ FileSize \in Int /\ FmtBody = 16
  BY <1>4, ChunksLie, FileEnds DEF FmtBody
<1>9. /\ found.at = walk.at /\ found.off = walk.off
      /\ IF c.id = "fmt" THEN found.fmt = c ELSE found.fmt = walk.fmt
      /\ IF c.id = "data" THEN found.data = c /\ found.body = body
         ELSE found.data = walk.data /\ found.body = walk.body
      /\ found \in [at : WavStops, off : Nat, fmt : Chunk \cup {NoChunk},
                    data : Chunk \cup {NoChunk}, body : Nat]
  <2>1. c.id \in {"fmt", "data", "LIST"} /\ body \in Nat
    BY <1>7, <1>8, ChunkIs
  <2> HIDE DEF c, body
  <2> QED BY <2>1, <1>7 DEF WavTypeOK
<1>10. walk.at = "scan"
  BY DEF Visit
<1>11. walk' \in [at : WavStops, off : Nat, fmt : Chunk \cup {NoChunk},
                  data : Chunk \cup {NoChunk}, body : Nat]
  <2> HIDE DEF found, short, both, c, k
  <2> QED BY <1>6, <1>8, <1>9 DEF WavTypeOK, WavStops
<1>12. CASE short
  \* Whatever fmt chunk a verdict would rest on lies no farther from the end.
  <2>1. ASSUME NEW m \in Deciding
        PROVE  ~(Behind(Latest(Upto(m, "fmt"))) >= FmtBody)
    <3>1. m \in 1..Len(chunks) /\ m >= k /\ Upto(m, "fmt") # {}
      BY <1>1, <1>2 DEF Undecided, Deciding
    <3>2. PICK f \in 1..m : LastOf(f, m, "fmt")
      BY <1>2, <3>1, LastThere
    <3>3. Latest(Upto(m, "fmt")) = f
      BY <1>2, <3>1, <3>2, LatestIs
    <3>4. k \in Upto(m, "fmt")
      BY <1>4, <1>12, <3>1 DEF Upto
    <3>5. f \in 1..(Len(chunks) + 1) /\ k <= f
      BY <1>2, <3>1, <3>2, <3>4 DEF LastOf
    <3>6. ChunkAt[f] \in Nat /\ ChunkAt[k] <= ChunkAt[f]
      <4>1. ChunkAt[f] \in Nat
        BY <3>5, ChunksLie
      <4>2. CASE k = f
        BY <1>8, <4>1, <4>2
      <4>3. CASE k < f
        <5>1. ChunkAt[k] + 8 <= ChunkAt[f]
          BY <1>4, <3>5, <4>3, ChunksLie
        <5> QED BY <1>8, <4>1, <5>1
      <4> QED BY <1>4, <3>5, <4>1, <4>2, <4>3
    <3>7. Behind(f) = FileSize - (ChunkAt[f] + 8)
      BY DEF Behind
    <3> HIDE DEF k, c
    <3> QED BY <1>8, <1>12, <3>3, <3>6, <3>7
  <2>5. ~Sound
    BY <2>1, Zenon DEF Sound
  <2>6. walk' = [walk EXCEPT !.at = "refused"]
    BY <1>6, <1>12, Zenon
  <2>7. walk'.at = "refused"
    BY <2>6 DEF WavTypeOK
  <2> QED BY <1>11, <2>5, <2>7 DEF Tells
<1>13. CASE ~short
  <2>1. Found(found, k)
    <3>1. c.id = "fmt" => ChunkAt[k] + 8 + FmtBody <= FileSize
      <4> HIDE DEF c, k
      <4> QED BY <1>8, <1>13
    <3> HIDE DEF found
    <3> QED BY <1>1, <1>2, <1>3, <1>9, <3>1, FoundNext
  <2>2. k \in Deciding <=> both
    <3>1. k \in 0..Len(chunks)
      BY <1>4
    <3> HIDE DEF found
    <3> QED BY <2>1, <3>1, FoundBoth
  <2>3. Undecided(k - 1)
    BY <1>1
  <2>4. CASE both
    <3>1. walk' = [found EXCEPT !.at = "judge"]
      BY <1>6, <1>13, <2>4, Zenon
    <3>2. walk'.at = "judge" /\ Found(walk', k)
      <4>1. walk'.at = "judge" /\ walk'.fmt = found.fmt /\ walk'.data = found.data
            /\ walk'.body = found.body
        <5> HIDE DEF found
        <5> QED BY <1>9, <3>1
      <4> HIDE DEF found
      <4> QED BY <2>1, <4>1 DEF Found, FmtFound, DataFound
    <3>3. k \in 0..Len(chunks)
      BY <1>4
    <3> HIDE DEF k, found, both
    <3>4. \E m \in 0..Len(chunks) :
            /\ Found(walk', m)
            /\ \/ m \in Deciding /\ Undecided(m - 1)
               \/ Deciding = {} /\ (walk'.fmt = NoChunk \/ walk'.data = NoChunk)
      BY <2>2, <2>3, <2>4, <3>2, <3>3, Zenon
    <3> QED BY <1>11, <3>2, <3>4 DEF Tells
  <2>5. CASE ~both /\ ChunkAt[k + 1] > FileSize
    <3>1. walk' = [found EXCEPT !.at = "judge"]
      BY <1>6, <1>13, <2>5, Zenon
    <3>2. walk'.at = "judge" /\ walk'.fmt = found.fmt /\ walk'.data = found.data
          /\ walk'.body = found.body
      <4> HIDE DEF found
      <4> QED BY <1>9, <3>1
    <3>3. Found(walk', k)
      <4> HIDE DEF found
      <4> QED BY <2>1, <3>2 DEF Found, FmtFound, DataFound
    <3>4. k = Len(chunks)
      BY <1>4, <2>5, CutIsLast
    <3>5. Undecided(Len(chunks))
      BY <1>1, <2>2, <2>5, <3>4 DEF Undecided
    <3>6. Deciding = {}
      BY <3>5, NeverDecided
    <3>7. walk'.fmt = NoChunk \/ walk'.data = NoChunk
      BY <2>5, <3>2, Zenon
    <3>8. k \in 0..Len(chunks)
      BY <1>4
    <3> HIDE DEF k, found, both
    <3>9. \E m \in 0..Len(chunks) :
            /\ Found(walk', m)
            /\ \/ m \in Deciding /\ Undecided(m - 1)
               \/ Deciding = {} /\ (walk'.fmt = NoChunk \/ walk'.data = NoChunk)
      BY <3>3, <3>6, <3>7, <3>8, Zenon
    <3> QED BY <1>11, <3>2, <3>9 DEF Tells
  <2>6. CASE ~both /\ ~(ChunkAt[k + 1] > FileSize)
    <3>1. walk' = [found EXCEPT !.off = ChunkAt[k + 1]]
      BY <1>6, <1>13, <2>6, Zenon
    <3>2. /\ walk'.at = "scan" /\ walk'.fmt = found.fmt /\ walk'.data = found.data
          /\ walk'.body = found.body /\ walk'.off = ChunkAt[k + 1]
      <4> HIDE DEF found
      <4> QED BY <1>9, <1>10, <3>1
    <3>3. Found(walk', k)
      <4> HIDE DEF found
      <4> QED BY <2>1, <3>2 DEF Found, FmtFound, DataFound
    <3>4. Undecided(k)
      BY <1>1, <2>2, <2>6 DEF Undecided
    <3>5. k \in 0..Len(chunks)
      BY <1>4
    <3> HIDE DEF k, found, both
    <3>6. \E m \in 0..Len(chunks) :
            walk'.off = ChunkAt[m + 1] /\ Found(walk', m) /\ Undecided(m)
      <4>1. walk'.off = ChunkAt[k + 1]
        BY <3>2
      <4> QED BY <3>3, <3>4, <3>5, <4>1, Zenon
    <3> QED BY <1>11, <3>2, <3>6 DEF Tells
  <2> QED BY <2>4, <2>5, <2>6
<1> QED BY <1>11, <1>12, <1>13

LEMMA WavBegins == WavInit => WavInv
<1> SUFFICES ASSUME WavInit PROVE WavInv
  OBVIOUS
<1>1. walk = [at |-> "upload", off |-> 12, fmt |-> NoChunk, data |-> NoChunk, body |-> 0]
  BY DEF WavInit
<1>2. WavTypeOK
  BY <1>1 DEF WavInit, WavTypeOK, WavStops
<1>3. Tells(walk)
  BY <1>1 DEF Tells
<1>4. Shortened
  BY DEF WavInit, Shortened
<1> QED BY <1>2, <1>3, <1>4 DEF WavInv

\* The walk looks at a file that nobody changes any more.
LEMMA FileStands ==
  ASSUME UNCHANGED <<chunks, missing>>
  PROVE  /\ WavTypeOK /\ walk' \in [at : WavStops, off : Nat, fmt : Chunk \cup {NoChunk},
                                    data : Chunk \cup {NoChunk}, body : Nat] => WavTypeOK'
         /\ Shortened => Shortened'
         /\ Tells(walk') => Tells(walk)'
<1>1. ChunkAt' = ChunkAt
  BY DEF ChunkAt
<1>2. FileSize' = FileSize
  BY <1>1 DEF FileSize
<1>3. Deciding' = Deciding
  BY DEF Deciding, Upto
<1>4. Sound' = Sound
  BY <1>1, <1>2, <1>3 DEF Sound, Upto, Behind
<1>5. \A n : Undecided(n)' <=> Undecided(n)
  BY <1>3 DEF Undecided
<1>6. \A w, n : FmtFound(w, n)' <=> FmtFound(w, n)
  BY DEF FmtFound, LastOf, Upto
<1>7. \A w, n : DataFound(w, n)' <=> DataFound(w, n)
  BY <1>1 DEF DataFound, LastOf, Upto
<1>8. \A n : FmtsWhole(n)' <=> FmtsWhole(n)
  BY <1>1, <1>2 DEF FmtsWhole, Upto
<1>9. ASSUME Tells(walk') PROVE Tells(walk)'
  BY <1>1, <1>3, <1>4, <1>5, <1>6, <1>7, <1>8, <1>9 DEF Tells, Found
<1> QED BY <1>9 DEF WavTypeOK, Shortened

LEMMA WavKept == WavInv /\ [WavNext]_wavVars => WavInv'
<1> SUFFICES ASSUME WavInv, [WavNext]_wavVars PROVE WavInv'
  OBVIOUS
<1> USE DEF WavInv
<1> DEFINE Walks == [at : WavStops, off : Nat, fmt : Chunk \cup {NoChunk},
                     data : Chunk \cup {NoChunk}, body : Nat]
<1>0. Len(chunks) \in Nat /\ (chunks # <<>> => Len(chunks) \in 1..Len(chunks))
  BY DEF WavTypeOK
<1>1. CASE AddChunk
  <2>1. WavTypeOK'
    BY <1>1 DEF AddChunk, WavTypeOK
  <2>2. Tells(walk)'
    BY <1>1 DEF AddChunk, Tells
  <2>3. Shortened'
    <3>1. missing' = 0
      BY <1>1 DEF AddChunk
    <3> QED BY <3>1, Zenon DEF Shortened
  <2> QED BY <2>1, <2>2, <2>3
<1>2. CASE CutShort
  <2>1. WavTypeOK'
    BY <1>2 DEF CutShort, WavTypeOK
  <2>2. Tells(walk)'
    BY <1>2 DEF CutShort, Tells
  <2>3. Shortened'
    <3>1. chunks[Len(chunks)] \in Chunk
      BY <1>0, <1>2 DEF CutShort, WavTypeOK
    <3>2. Padded(chunks[Len(chunks)].size) \in Nat
      BY <3>1, ChunkIs, PaddedIs
    <3> QED BY <1>2, <3>2 DEF CutShort, Shortened
  <2> QED BY <2>1, <2>2, <2>3
<1>3. CASE Submit
  <2>1. walk' = [walk EXCEPT !.at = "no wav"] \/ walk' = [walk EXCEPT !.at = "scan"]
    BY <1>3 DEF Submit, Moved
  <2>2. walk' \in Walks
    BY <2>1 DEF WavTypeOK, WavStops
  <2>3. walk.off = ChunkAt[1] /\ walk.fmt = NoChunk /\ walk.data = NoChunk
    BY <1>3, ChunksLie DEF Submit, Tells
  <2>4. \A id : Upto(0, id) = {}
    BY DEF Upto
  <2>5. Found(walk', 0)
    BY <2>1, <2>3, <2>4 DEF Found, FmtFound, DataFound, FmtsWhole, WavTypeOK
  <2>6. Undecided(0)
    BY DEF Undecided
  <2>7. walk'.off = ChunkAt[0 + 1]
    <3>1. walk'.off = walk.off
      BY <2>1 DEF WavTypeOK
    <3>2. 0 + 1 = 1
      OBVIOUS
    <3> QED BY <2>3, <3>1, <3>2
  <2>8. \E n \in 0..Len(chunks) : walk'.off = ChunkAt[n + 1] /\ Found(walk', n) /\ Undecided(n)
    BY <1>0, <2>5, <2>6, <2>7
  <2>9. walk'.at \in {"no wav", "scan"}
    BY <2>1 DEF WavTypeOK
  <2>10. Tells(walk')
    BY <2>8, <2>9 DEF Tells
  <2> QED BY <1>3, <2>2, <2>10, FileStands DEF Submit
<1>4. CASE Visit
  <2>1. walk' \in Walks /\ Tells(walk')
    BY <1>4, VisitTells
  <2> QED BY <1>4, <2>1, FileStands DEF Visit
<1>5. CASE NoMoreHeaders
  <2>1. walk' = [walk EXCEPT !.at = "judge"]
    BY <1>5 DEF NoMoreHeaders, Moved
  <2>2. walk' \in Walks /\ walk'.at = "judge"
    BY <2>1 DEF WavTypeOK, WavStops
  <2>3. PICK n \in 0..Len(chunks) : walk.off = ChunkAt[n + 1] /\ Found(walk, n) /\ Undecided(n)
    BY <1>5 DEF NoMoreHeaders, Tells
  <2>4. n = Len(chunks)
    <3>1. ASSUME n + 1 \in 1..Len(chunks) PROVE FALSE
      <4>1. ChunkAt[n + 1] + 8 <= FileSize
        BY <3>1, FileEnds
      <4>2. n + 1 \in 1..(Len(chunks) + 1)
        BY <3>1, <1>0
      <4>3. ChunkAt[n + 1] \in Nat /\ FileSize \in Int
        BY <4>2, ChunksLie, FileEnds
      <4>4. ChunkAt[n + 1] + 8 > FileSize
        BY <1>5, <2>3 DEF NoMoreHeaders
      <4> QED BY <4>1, <4>3, <4>4
    <3> QED BY <1>0, <3>1
  <2>5. Found(walk', n)
    BY <2>1, <2>3 DEF Found, FmtFound, DataFound, WavTypeOK
  <2>6. Deciding = {}
    BY <2>3, <2>4, NeverDecided
  <2>7. walk'.fmt = NoChunk \/ walk'.data = NoChunk
    <3>1. n \notin Deciding
      BY <2>6
    <3> QED BY <2>5, <3>1, FoundBoth
  <2>8. Tells(walk')
    BY <2>2, <2>5, <2>6, <2>7 DEF Tells
  <2> QED BY <1>5, <2>2, <2>8, FileStands DEF NoMoreHeaders
<1>6. CASE Judge
  <2>1. PICK n \in 0..Len(chunks) :
          /\ Found(walk, n)
          /\ \/ n \in Deciding /\ Undecided(n - 1)
             \/ Deciding = {} /\ (walk.fmt = NoChunk \/ walk.data = NoChunk)
    BY <1>6 DEF Judge, Tells
  <2>2. Playable(walk.fmt, walk.data, FileSize - walk.body) <=> Sound
    BY <2>1, JudgedRightly
  <2>3. walk' = [walk EXCEPT !.at = IF Sound THEN "accepted" ELSE "refused"]
    BY <1>6, <2>2 DEF Judge, Moved
  <2>4. walk' \in Walks /\ walk'.at = IF Sound THEN "accepted" ELSE "refused"
    BY <2>3 DEF WavTypeOK, WavStops
  <2>5. Tells(walk')
    BY <2>4 DEF Tells
  <2> QED BY <1>6, <2>4, <2>5, FileStands DEF Judge
<1>7. CASE UNCHANGED wavVars
  <2>1. walk' \in Walks /\ Tells(walk') /\ UNCHANGED <<chunks, missing>>
    BY <1>7 DEF wavVars, WavTypeOK
  <2> QED BY <2>1, FileStands
<1> QED BY <1>1, <1>2, <1>3, <1>4, <1>5, <1>6, <1>7 DEF WavNext

\* The walk over the chunks accepts a capture exactly if what decides about it is whole and
\* in range, for any chunks of any sizes, and wherever the file was cut off (wav.go:
\* "the duration must reflect real bytes, not a claim").
THEOREM VerdictsAreRight == WavSpec => []VerdictIsRight
<1>1. WavInv => VerdictIsRight
  BY DEF WavInv, Tells, Sound, VerdictIsRight
<1> QED BY <1>1, WavBegins, WavKept, PTL DEF WavSpec

-----------------------------------------------------------------------------
(* Lines.                                                                  *)

Chars == Letters \cup {"\n", "\r"}

\* The ends of a text are among its positions, and each line has a number.
LEMMA EndsAre ==
  ASSUME NEW s \in Seq(Chars)
  PROVE  /\ EndsOf(s) \subseteq 1..Len(s) /\ IsFiniteSet(EndsOf(s))
         /\ Cardinality(EndsOf(s)) \in Nat
         /\ \A e \in EndsOf(s) : Number(s, e) \in 1..Cardinality(EndsOf(s))
<1>1. EndsOf(s) \subseteq 1..Len(s)
  BY DEF EndsOf
<1>2. IsFiniteSet(1..Len(s))
  BY FS_Interval
<1>3. IsFiniteSet(EndsOf(s))
  BY <1>1, <1>2, FS_Subset
<1>4. Cardinality(EndsOf(s)) \in Nat
  BY <1>3, FS_CardinalityType
<1>5. ASSUME NEW e \in EndsOf(s) PROVE Number(s, e) \in 1..Cardinality(EndsOf(s))
  <2> DEFINE F == {f \in EndsOf(s) : f <= e}
  <2>1. e \in F /\ F \subseteq EndsOf(s)
    BY <1>1
  <2>2. IsFiniteSet(F) /\ Cardinality(F) \in Nat /\ Cardinality(F) <= Cardinality(EndsOf(s))
    BY <1>3, <2>1, FS_Subset, FS_CardinalityType
  <2>3. Cardinality(F) # 0
    BY <2>1, <2>2, FS_EmptySet
  <2> QED BY <1>4, <2>2, <2>3 DEF Number
<1> QED BY <1>1, <1>3, <1>4, <1>5

LEMMA EndBeforeIs ==
  ASSUME NEW s \in Seq(Chars), NEW i \in Nat, i > 0
  PROVE  /\ EndBefore(s, i) \in Nat /\ EndBefore(s, i) < i
         /\ EndBefore(s, i) = 0 \/ EndBefore(s, i) \in EndsOf(s)
         /\ \A e \in EndsOf(s) : e < i => e <= EndBefore(s, i)
<1> DEFINE E == {e \in EndsOf(s) : e < i}
           S == {0} \cup E
<1>1. EndsOf(s) \subseteq Nat /\ IsFiniteSet(EndsOf(s))
  BY EndsAre
<1>2. IsFiniteSet(S)
  <2>1. IsFiniteSet(E)
    BY <1>1, FS_Subset
  <2>2. S = E \cup {0}
    OBVIOUS
  <2> HIDE DEF E
  <2> QED BY <2>1, <2>2, FS_AddElement
<1>3. S \subseteq Int /\ S # {}
  BY <1>1
<1>4. EndBefore(s, i) = Max(S)
  BY DEF EndBefore
<1>5. Max(S) \in S /\ \A y \in S : y <= Max(S)
  <2> HIDE DEF S
  <2> QED BY <1>2, <1>3, Extremes
<1> QED BY <1>1, <1>4, <1>5

\* One character more.
LEMMA EndsGrow ==
  ASSUME NEW s \in Seq(Chars), NEW c \in Chars, NEW t, t = Append(s, c)
  PROVE  /\ t \in Seq(Chars) /\ Len(t) = Len(s) + 1 /\ t[Len(t)] = c
         /\ \A i \in 1..Len(s) : t[i] = s[i]
         /\ c \in Letters => EndsOf(t) = EndsOf(s)
         /\ c = "\r" \/ (c = "\n" /\ ~(s # <<>> /\ s[Len(s)] = "\r")) =>
              EndsOf(t) = EndsOf(s) \cup {Len(s) + 1}
         /\ c = "\n" /\ s # <<>> /\ s[Len(s)] = "\r" =>
              Len(s) \in EndsOf(s) /\ EndsOf(t) = (EndsOf(s) \ {Len(s)}) \cup {Len(s) + 1}
<1>1. /\ t \in Seq(Chars) /\ Len(t) = Len(s) + 1 /\ t[Len(t)] = c
      /\ \A i \in 1..Len(s) : t[i] = s[i]
  OBVIOUS
<1>2. Len(s) \in Nat /\ (s # <<>> <=> Len(s) > 0) /\ DOMAIN s = 1..Len(s)
      /\ DOMAIN t = 1..(Len(s) + 1)
  BY <1>1
<1>3. \A i : i \in DOMAIN t <=> i \in DOMAIN s \/ i = Len(s) + 1
  BY <1>2
<1>4. ASSUME NEW i \in DOMAIN s, i # Len(s)
      PROVE  i \in EndsOf(t) <=> i \in EndsOf(s)
  <2>1. i + 1 \in 1..Len(s) /\ i # Len(t)
    BY <1>1, <1>2, <1>4
  <2>2. t[i] = s[i] /\ t[i + 1] = s[i + 1]
    BY <1>1, <1>2, <2>1
  <2> QED BY <1>2, <1>3, <1>4, <2>1, <2>2 DEF EndsOf
<1>5. Len(s) + 1 \in EndsOf(t) <=> c \in {"\n", "\r"}
  BY <1>1, <1>2 DEF EndsOf
<1>6. ASSUME s # <<>>
      PROVE  /\ Len(s) \in EndsOf(s) <=> s[Len(s)] \in {"\n", "\r"}
             /\ Len(s) \in EndsOf(t) <=> (s[Len(s)] = "\n" \/ (s[Len(s)] = "\r" /\ c # "\n"))
  <2>1. Len(s) \in DOMAIN s /\ Len(s) \in DOMAIN t /\ Len(s) # Len(t) /\ t[Len(s)] = s[Len(s)]
        /\ t[Len(s) + 1] = c
    <3>1. Len(s) \in 1..Len(s) /\ Len(s) \in 1..(Len(s) + 1) /\ Len(s) # Len(s) + 1
      <4>1. \A n \in Nat : n > 0 => n \in 1..n /\ n \in 1..(n + 1) /\ n # n + 1
        OBVIOUS
      <4>2. Len(s) \in Nat /\ Len(s) > 0
        BY <1>2, <1>6
      <4> QED BY <4>1, <4>2
    <3> QED BY <1>1, <1>2, <3>1
  <2> QED BY <2>1 DEF EndsOf
<1>7. EndsOf(s) \subseteq DOMAIN s /\ EndsOf(t) \subseteq DOMAIN t
  BY DEF EndsOf
<1>8. c \in Letters => c # "\n" /\ c # "\r"
  BY LineReaderAssumption
<1>9. Len(s) \in DOMAIN s => s # <<>>
  BY <1>2
<1>10. ASSUME c \in Letters PROVE EndsOf(t) = EndsOf(s)
  <2>1. Len(s) + 1 \notin EndsOf(t)
    BY <1>5, <1>8, <1>10
  <2>2. s # <<>> => (Len(s) \in EndsOf(s) <=> Len(s) \in EndsOf(t))
    BY <1>6, <1>8, <1>10
  <2>3. Len(s) + 1 \notin EndsOf(s)
    BY <1>2, <1>7
  <2> SUFFICES ASSUME NEW i PROVE i \in EndsOf(t) <=> i \in EndsOf(s)
    OBVIOUS
  <2>4. CASE i = Len(s)
    BY <1>3, <1>7, <1>9, <2>2, <2>4, <1>2
  <2>5. CASE i = Len(s) + 1
    BY <2>1, <2>3, <2>5
  <2>6. CASE i # Len(s) /\ i # Len(s) + 1
    BY <1>3, <1>4, <1>7, <2>6
  <2> QED BY <2>4, <2>5, <2>6
<1>11. ASSUME c = "\r" \/ (c = "\n" /\ ~(s # <<>> /\ s[Len(s)] = "\r"))
       PROVE  EndsOf(t) = EndsOf(s) \cup {Len(s) + 1}
  <2>1. Len(s) + 1 \in EndsOf(t)
    BY <1>5, <1>11
  <2>2. s # <<>> => (Len(s) \in EndsOf(s) <=> Len(s) \in EndsOf(t))
    BY <1>6, <1>11
  <2> QED BY <1>3, <1>4, <1>7, <1>9, <2>1, <2>2
<1>12. ASSUME c = "\n", s # <<>>, s[Len(s)] = "\r"
       PROVE  Len(s) \in EndsOf(s) /\ EndsOf(t) = (EndsOf(s) \ {Len(s)}) \cup {Len(s) + 1}
  <2>1. Len(s) + 1 \in EndsOf(t) /\ Len(s) \in EndsOf(s) /\ Len(s) \notin EndsOf(t)
    BY <1>5, <1>6, <1>12
  <2> QED BY <1>3, <1>4, <1>7, <1>9, <2>1
<1> QED BY <1>1, <1>10, <1>11, <1>12

Begin(s) == EndBefore(s, Len(s) + 1)

\* A line that was ended before is not touched.
LEMMA OldLinesStand ==
  ASSUME NEW s \in Seq(Chars), NEW c \in Chars, NEW t, t = Append(s, c),
         NEW e, e \in EndsOf(s), e \in EndsOf(t)
  PROVE  LineAt(t, e) = LineAt(s, e) /\ Number(t, e) = Number(s, e)
<1>1. /\ t \in Seq(Chars) /\ Len(t) = Len(s) + 1 /\ \A i \in 1..Len(s) : t[i] = s[i]
      /\ \A f \in 1..Len(s) : f # Len(s) => (f \in EndsOf(t) <=> f \in EndsOf(s))
  <2>1. \A f \in 1..Len(s) : f # Len(s) + 1
    OBVIOUS
  <2>2. \/ EndsOf(t) = EndsOf(s) \/ EndsOf(t) = EndsOf(s) \cup {Len(s) + 1}
        \/ EndsOf(t) = (EndsOf(s) \ {Len(s)}) \cup {Len(s) + 1}
    BY EndsGrow, ZenonT(60) DEF Chars
  <2> QED BY <2>1, <2>2, EndsGrow
<1>2. e \in 1..Len(s) /\ EndsOf(s) \subseteq 1..Len(s) /\ EndsOf(t) \subseteq 1..(Len(s) + 1)
  BY <1>1, EndsAre
<1>3. {f \in EndsOf(t) : f < e} = {f \in EndsOf(s) : f < e}
  <2>1. \A f : f \in EndsOf(t) /\ f < e => f \in 1..Len(s) /\ f # Len(s)
    BY <1>2
  <2>2. \A f : f \in EndsOf(s) /\ f < e => f \in 1..Len(s) /\ f # Len(s)
    BY <1>2
  <2> QED BY <1>1, <2>1, <2>2
<1>4. {f \in EndsOf(t) : f <= e} = {f \in EndsOf(s) : f <= e}
  <2>1. \A f : f \in EndsOf(t) /\ f <= e => f \in 1..Len(s) /\ (f # Len(s) \/ f = e)
    BY <1>2
  <2>2. \A f : f \in EndsOf(s) /\ f <= e => f \in 1..Len(s) /\ (f # Len(s) \/ f = e)
    BY <1>2
  <2> QED BY <1>1, <2>1, <2>2
<1>5. EndBefore(t, e) = EndBefore(s, e) /\ Number(t, e) = Number(s, e)
  BY <1>3, <1>4 DEF EndBefore, Number
<1>6. Stop(t, e) = Stop(s, e) /\ Stop(s, e) \in Int /\ Stop(s, e) <= Len(s)
  <2>1. e > 1 => e - 1 \in 1..Len(s)
    BY <1>2
  <2>2. Len(s) \in Nat
    OBVIOUS
  <2> QED BY <1>1, <1>2, <2>1, <2>2 DEF Stop
<1>7. EndBefore(s, e) \in Nat
  BY <1>2, EndBeforeIs
<1>8. SubSeq(t, EndBefore(s, e) + 1, Stop(s, e)) = SubSeq(s, EndBefore(s, e) + 1, Stop(s, e))
  <2> DEFINE b == EndBefore(s, e) + 1
             f == Stop(s, e)
  <2>1. b \in Nat /\ b >= 1 /\ f \in Int /\ f <= Len(s) /\ Len(s) \in Nat
    BY <1>6, <1>7
  <2> HIDE DEF b, f
  <2>2. SubSeq(t, b, f) = SubSeq(s, b, f)
    BY <1>1, <2>1
  <2> QED BY <2>2 DEF b, f
<1> QED BY <1>5, <1>6, <1>8 DEF LineAt

\* What an end closes was the rest before.
LEMMA RestBecomesLine ==
  ASSUME NEW s \in Seq(Chars), NEW c \in {"\n", "\r"}, NEW t, t = Append(s, c),
         ~(c = "\n" /\ s # <<>> /\ s[Len(s)] = "\r")
  PROVE  /\ LineAt(t, Len(s) + 1) = Rest(s)
         /\ Number(t, Len(s) + 1) = Cardinality(EndsOf(s)) + 1
         /\ Cardinality(EndsOf(t)) = Cardinality(EndsOf(s)) + 1
<1>1. /\ t \in Seq(Chars) /\ Len(t) = Len(s) + 1 /\ \A i \in 1..Len(s) : t[i] = s[i]
      /\ t[Len(s) + 1] = c /\ EndsOf(t) = EndsOf(s) \cup {Len(s) + 1}
  <2>1. c \in Chars /\ (c = "\r" \/ (c = "\n" /\ ~(s # <<>> /\ s[Len(s)] = "\r")))
    BY DEF Chars
  <2>2. /\ t \in Seq(Chars) /\ Len(t) = Len(s) + 1 /\ t[Len(t)] = c
        /\ \A i \in 1..Len(s) : t[i] = s[i]
        /\ EndsOf(t) = EndsOf(s) \cup {Len(s) + 1}
    <3>1. t \in Seq(Chars) /\ Len(t) = Len(s) + 1 /\ t[Len(t)] = c
      BY <2>1, EndsGrow
    <3>2. \A i \in 1..Len(s) : t[i] = s[i]
      BY <2>1, EndsGrow
    <3>3. EndsOf(t) = EndsOf(s) \cup {Len(s) + 1}
      BY <2>1, EndsGrow, ZenonT(60)
    <3> QED BY <3>1, <3>2, <3>3
  <2>3. t[Len(s) + 1] = c
    BY <2>2
  <2> QED BY <2>2, <2>3
<1>2. EndsOf(s) \subseteq 1..Len(s) /\ IsFiniteSet(EndsOf(s)) /\ Len(s) \in Nat
  BY EndsAre
<1>3. Len(s) + 1 \notin EndsOf(s)
  BY <1>2
<1>4. Cardinality(EndsOf(t)) = Cardinality(EndsOf(s)) + 1
  BY <1>1, <1>2, <1>3, FS_AddElement, ZenonT(60)
<1>5. {f \in EndsOf(t) : f <= Len(s) + 1} = EndsOf(t)
  BY <1>1, <1>2
<1>6. {f \in EndsOf(t) : f < Len(s) + 1} = {f \in EndsOf(s) : f < Len(s) + 1}
  BY <1>1, <1>2
<1>7. EndBefore(t, Len(s) + 1) = EndBefore(s, Len(s) + 1)
  BY <1>6 DEF EndBefore
<1>8. Stop(t, Len(s) + 1) = Len(s)
  <2>1. Len(s) + 1 > 1 => s # <<>> /\ Len(s) \in 1..Len(s) /\ Len(s) + 1 - 1 = Len(s)
    BY <1>2
  <2> QED BY <1>1, <1>2, <2>1 DEF Stop
<1>9. SubSeq(t, Begin(s) + 1, Len(s)) = SubSeq(s, Begin(s) + 1, Len(s))
  <2> DEFINE b == Begin(s) + 1
  <2>1. b \in Nat /\ b >= 1
    BY <1>2, EndBeforeIs DEF Begin
  <2> HIDE DEF b
  <2>2. SubSeq(t, b, Len(s)) = SubSeq(s, b, Len(s))
    BY <1>1, <1>2, <2>1
  <2> QED BY <2>2 DEF b
<1> QED BY <1>4, <1>5, <1>7, <1>8, <1>9 DEF LineAt, Rest, Number, Begin

\* A \n that follows its \r closes nothing new.
LEMMA PairIsOne ==
  ASSUME NEW s \in Seq(Chars), NEW t, t = Append(s, "\n"), s # <<>>, s[Len(s)] = "\r"
  PROVE  /\ LineAt(t, Len(s) + 1) = LineAt(s, Len(s)) /\ Len(s) \in EndsOf(s)
         /\ Number(t, Len(s) + 1) = Cardinality(EndsOf(s))
         /\ Number(s, Len(s)) = Cardinality(EndsOf(s))
         /\ Cardinality(EndsOf(t)) = Cardinality(EndsOf(s))
<1> DEFINE n == Len(s)
<1>1. /\ t \in Seq(Chars) /\ Len(t) = n + 1 /\ t[n + 1] = "\n"
      /\ \A i \in 1..n : t[i] = s[i]
      /\ n \in EndsOf(s) /\ EndsOf(t) = (EndsOf(s) \ {n}) \cup {n + 1}
  <2>1. "\n" \in Chars
    BY DEF Chars
  <2>2. /\ t \in Seq(Chars) /\ Len(t) = Len(s) + 1 /\ t[Len(t)] = "\n"
        /\ \A i \in 1..Len(s) : t[i] = s[i]
        /\ Len(s) \in EndsOf(s) /\ EndsOf(t) = (EndsOf(s) \ {Len(s)}) \cup {Len(s) + 1}
    <3>1. t \in Seq(Chars) /\ Len(t) = Len(s) + 1 /\ t[Len(t)] = "\n"
      BY <2>1, EndsGrow
    <3>2. \A i \in 1..Len(s) : t[i] = s[i]
      BY <2>1, EndsGrow
    <3>3. Len(s) \in EndsOf(s) /\ EndsOf(t) = (EndsOf(s) \ {Len(s)}) \cup {Len(s) + 1}
      BY <2>1, EndsGrow
    <3> QED BY <3>1, <3>2, <3>3
  <2>3. t[Len(s) + 1] = "\n"
    BY <2>2
  <2> QED BY <2>2, <2>3
<1>2. EndsOf(s) \subseteq 1..n /\ IsFiniteSet(EndsOf(s)) /\ n \in Nat /\ n > 0
      /\ Cardinality(EndsOf(s)) \in Nat
  BY <1>1, EndsAre
<1>3. n + 1 \notin EndsOf(s) \ {n}
  BY <1>2
<1>4. Cardinality(EndsOf(t)) = Cardinality(EndsOf(s))
  <2>1. IsFiniteSet(EndsOf(s) \ {n}) /\ Cardinality(EndsOf(s) \ {n}) = Cardinality(EndsOf(s)) - 1
    BY <1>1, <1>2, FS_RemoveElement
  <2>2. Cardinality(EndsOf(t)) = Cardinality(EndsOf(s) \ {n}) + 1
    BY <1>1, <1>3, <2>1, FS_AddElement, ZenonT(60)
  <2> QED BY <1>2, <2>1, <2>2
<1>5. {f \in EndsOf(t) : f <= n + 1} = EndsOf(t) /\ {f \in EndsOf(s) : f <= n} = EndsOf(s)
  BY <1>1, <1>2
<1>6. {f \in EndsOf(t) : f < n + 1} = {f \in EndsOf(s) : f < n}
  BY <1>1, <1>2
<1>7. EndBefore(t, n + 1) = EndBefore(s, n)
  BY <1>6 DEF EndBefore
<1>8. Stop(t, n + 1) = n - 1 /\ Stop(s, n) = n - 1
  <2>1. n \in 1..n /\ n + 1 > 1 /\ n + 1 - 1 = n /\ n + 1 - 2 = n - 1
    BY <1>2
  <2>2. t[n + 1] = "\n" /\ t[n] = "\r" /\ s[n] # "\n"
    BY <1>1, <2>1
  <2> HIDE DEF n
  <2>3. Stop(t, n + 1) = n - 1
    <3>1. t[(n + 1) - 1] = "\r" /\ (n + 1) - 2 = n - 1
      <4>1. (n + 1) - 1 = n /\ (n + 1) - 2 = n - 1
        BY <1>2 DEF n
      <4> QED BY <2>2, <4>1
    <3> QED BY <2>1, <2>2, <3>1, Zenon DEF Stop
  <2>4. Stop(s, n) = n - 1
    BY <2>2 DEF Stop
  <2> QED BY <2>3, <2>4
<1>9. SubSeq(t, EndBefore(s, n) + 1, n - 1) = SubSeq(s, EndBefore(s, n) + 1, n - 1)
  <2> DEFINE b == EndBefore(s, n) + 1
  <2>1. b \in Nat /\ b >= 1
    BY <1>2, EndBeforeIs
  <2> HIDE DEF b
  <2>2. SubSeq(t, b, n - 1) = SubSeq(s, b, n - 1)
    BY <1>1, <1>2, <2>1
  <2> QED BY <2>2 DEF b
<1> QED BY <1>1, <1>4, <1>5, <1>7, <1>8, <1>9 DEF LineAt, Number

\* Nothing lies behind an end; a letter goes to the rest.
LEMMA NothingBehind ==
  ASSUME NEW s \in Seq(Chars), Len(s) \in EndsOf(s) PROVE Rest(s) = <<>>
<1>1. Len(s) \in Nat
  OBVIOUS
<1>2. Begin(s) \in Nat /\ Begin(s) < Len(s) + 1 /\ Len(s) <= Begin(s)
  BY <1>1, EndBeforeIs DEF Begin
<1>3. Begin(s) = Len(s)
  BY <1>1, <1>2
<1>4. SubSeq(s, Len(s) + 1, Len(s)) = <<>>
  BY <1>1
<1>5. Cut(<<>>) = <<>>
  BY LineReaderAssumption DEF Cut
<1> QED BY <1>3, <1>4, <1>5 DEF Rest, Begin

LEMMA CutGrows ==
  ASSUME NEW s \in Seq(Chars), NEW c \in Chars
  PROVE  Cut(Append(s, c)) = IF Len(Cut(s)) < Longest THEN Append(Cut(s), c) ELSE Cut(s)
<1>1. Len(s) \in Nat /\ Longest \in Nat /\ Longest > 0 /\ Len(Append(s, c)) = Len(s) + 1
  BY LineReaderAssumption
<1>2. CASE Len(s) < Longest
  <2>1. Cut(s) = s
    BY <1>1, <1>2 DEF Cut
  <2>2. Cut(Append(s, c)) = Append(s, c)
    <3>1. Cut(Append(s, c)) = SubSeq(Append(s, c), 1, Len(s) + 1)
      BY <1>1, <1>2 DEF Cut
    <3> QED BY <1>1, <3>1
  <2> QED BY <1>2, <2>1, <2>2
<1>3. CASE ~(Len(s) < Longest)
  <2>1. Cut(s) = SubSeq(s, 1, Longest) /\ Cut(Append(s, c)) = SubSeq(Append(s, c), 1, Longest)
    BY <1>1, <1>3 DEF Cut
  <2>2. SubSeq(Append(s, c), 1, Longest) = SubSeq(s, 1, Longest)
        /\ Len(SubSeq(s, 1, Longest)) = Longest
    BY <1>1, <1>3
  <2>3. Cut(Append(s, c)) = Cut(s) /\ Len(Cut(s)) = Longest
    BY <2>1, <2>2
  <2>4. ~(Longest < Longest)
    BY <1>1
  <2> QED BY <2>3, <2>4
<1> QED BY <1>2, <1>3

LEMMA RestGrows ==
  ASSUME NEW s \in Seq(Chars), NEW c \in Letters, NEW t, t = Append(s, c)
  PROVE  /\ EndsOf(t) = EndsOf(s)
         /\ Rest(t) = IF Len(Rest(s)) < Longest THEN Append(Rest(s), c) ELSE Rest(s)
<1>1. t \in Seq(Chars) /\ Len(t) = Len(s) + 1 /\ EndsOf(t) = EndsOf(s)
  BY EndsGrow, ZenonT(60) DEF Chars
<1>2. EndsOf(s) \subseteq 1..Len(s) /\ Len(s) \in Nat
  BY EndsAre
<1>3. {f \in EndsOf(t) : f < Len(t) + 1} = {f \in EndsOf(s) : f < Len(s) + 1}
  BY <1>1, <1>2
<1>4. Begin(t) = Begin(s)
  BY <1>3 DEF Begin, EndBefore
<1>5. Begin(s) \in Nat /\ Begin(s) < Len(s) + 1
  BY <1>2, EndBeforeIs DEF Begin
<1> DEFINE r == SubSeq(s, Begin(s) + 1, Len(s))
<1>6. r \in Seq(Chars) /\ SubSeq(t, Begin(s) + 1, Len(t)) = Append(r, c)
  <2> DEFINE b == Begin(s) + 1
  <2>1. b \in Nat /\ b >= 1 /\ b <= Len(s) + 1
    BY <1>2, <1>5
  <2> HIDE DEF b
  <2>2. SubSeq(s, b, Len(s)) \in Seq(Chars)
    BY <1>2, <2>1
  <2>3. SubSeq(Append(s, c), b, Len(s) + 1) = Append(SubSeq(s, b, Len(s)), c)
    BY <1>2, <2>1
  <2> QED BY <1>1, <2>2, <2>3 DEF b
<1> HIDE DEF r
<1>7. Cut(Append(r, c)) = IF Len(Cut(r)) < Longest THEN Append(Cut(r), c) ELSE Cut(r)
  BY <1>6, CutGrows DEF Chars
<1> QED BY <1>1, <1>4, <1>6, <1>7 DEF Rest, Begin, r

-----------------------------------------------------------------------------
Texts == Seq(Chars)
TextLists == Seq(Texts)
LineTypeOK ==
  /\ written \in Seq(Chars) /\ closed \in BOOLEAN
  /\ cutter \in [at : {"byte", "peek", "eof"}, read : Nat, buf : Texts, lines : TextLists]
  /\ cutter.read <= Len(written)

LEMMA TextsAre ==
  ASSUME LineTypeOK
  PROVE  /\ cutter.lines \in Seq(Seq(Chars)) /\ cutter.buf \in Seq(Chars)
         /\ cutter.lines \in TextLists /\ cutter.buf \in Texts
         /\ Append(cutter.lines, cutter.buf) \in TextLists /\ <<>> \in Texts /\ <<>> \in TextLists
<1>1. cutter.lines \in TextLists /\ cutter.buf \in Texts
  BY DEF LineTypeOK
<1>2. cutter.lines \in Seq(Texts)
  BY <1>1 DEF TextLists
<1>3. Append(cutter.lines, cutter.buf) \in Seq(Texts) /\ <<>> \in Seq(Texts)
  BY <1>1, <1>2
<1>4. <<>> \in Texts
  BY DEF Texts
<1> QED BY <1>1, <1>2, <1>3, <1>4 DEF Texts, TextLists

\* What has been read, and the lines that were ended in it.
Reads == SubSeq(written, 1, cutter.read)
Terminated(lines, s) ==
  Len(lines) = Cardinality(EndsOf(s)) /\ \A e \in EndsOf(s) : lines[Number(s, e)] = LineAt(s, e)

\* Between two lines the buffer is the rest.  The end of the line before was not the first
\* half of one that continues.
Unbroken ==
  Reads # <<>> /\ Reads[Len(Reads)] = "\r" =>
    IF Available THEN NextByte # "\n" ELSE closed
Between ==
  cutter.at = "byte" =>
    \/ Terminated(cutter.lines, Reads) /\ cutter.buf = Rest(Reads) /\ Unbroken
    \/ closed /\ ~Available /\ cutter.buf = <<>> /\ AreLinesOf(cutter.lines, Reads)
\* After \r the buffer is a whole line that is held back.
HeldBack ==
  cutter.at = "peek" =>
    /\ Reads # <<>> /\ Reads[Len(Reads)] = "\r" /\ Rest(Reads) = <<>>
    /\ Terminated(Append(cutter.lines, cutter.buf), Reads)
\* At the end every line is out.
AllOut ==
  cutter.at = "eof" =>
    closed /\ ~Available /\ cutter.buf = <<>> /\ AreLinesOf(cutter.lines, Reads)

LineInv == LineTypeOK /\ Between /\ HeldBack /\ AllOut

LEMMA ReadsAre ==
  ASSUME LineTypeOK
  PROVE  /\ Reads \in Seq(Chars) /\ Len(Reads) = cutter.read
         /\ ~Available => Reads = written
         /\ Available => NextByte \in Chars
            /\ SubSeq(written, 1, cutter.read + 1) = Append(Reads, NextByte)
BY DEF LineTypeOK, Reads, Available, NextByte

\* A text whose last character ended a line keeps its lines when the next one ends.
LEMMA LineEnds ==
  ASSUME NEW s \in Seq(Chars), NEW c \in {"\n", "\r"}, NEW t, t = Append(s, c),
         ~(c = "\n" /\ s # <<>> /\ s[Len(s)] = "\r"),
         NEW lines \in Seq(Seq(Chars)), NEW buf \in Seq(Chars),
         Terminated(lines, s), buf = Rest(s)
  PROVE  Terminated(Append(lines, buf), t) /\ Rest(t) = <<>>
<1> DEFINE more == Append(lines, buf)
<1>1. c \in Chars /\ t \in Seq(Chars) /\ Len(t) = Len(s) + 1
  BY DEF Chars
<1>2. EndsOf(t) = EndsOf(s) \cup {Len(s) + 1}
  <2>1. c = "\r" \/ (c = "\n" /\ ~(s # <<>> /\ s[Len(s)] = "\r"))
    OBVIOUS
  <2> QED BY <1>1, <2>1, EndsGrow
<1>3. /\ LineAt(t, Len(s) + 1) = Rest(s)
      /\ Number(t, Len(s) + 1) = Cardinality(EndsOf(s)) + 1
      /\ Cardinality(EndsOf(t)) = Cardinality(EndsOf(s)) + 1
  BY RestBecomesLine
<1>4. Len(lines) = Cardinality(EndsOf(s)) /\ Cardinality(EndsOf(s)) \in Nat
  BY EndsAre DEF Terminated
<1>5. Len(more) = Len(lines) + 1 /\ more[Len(lines) + 1] = buf
      /\ \A i \in 1..Len(lines) : more[i] = lines[i]
  OBVIOUS
<1> HIDE DEF more
<1>6. ASSUME NEW e \in EndsOf(t) PROVE more[Number(t, e)] = LineAt(t, e)
  <2>1. CASE e = Len(s) + 1
    BY <1>3, <1>4, <1>5, <2>1
  <2>2. CASE e \in EndsOf(s)
    <3>1. LineAt(t, e) = LineAt(s, e) /\ Number(t, e) = Number(s, e)
      <4>1. /\ s \in Seq(Chars) /\ c \in Chars /\ t = Append(s, c)
            /\ e \in EndsOf(s) /\ e \in EndsOf(t)
        BY <1>1, <2>2
      <4> QED BY ONLY <4>1, OldLinesStand, ZenonT(60)
    <3>2. Number(s, e) \in 1..Len(lines)
      BY <1>4, <2>2, EndsAre
    <3> QED BY <1>5, <2>2, <3>1, <3>2 DEF Terminated
  <2> QED BY <1>2, <2>1, <2>2
<1>7. Rest(t) = <<>>
  BY <1>1, <1>2, NothingBehind
<1>8. Len(more) = Cardinality(EndsOf(t))
  BY <1>3, <1>4, <1>5
<1> QED BY <1>6, <1>7, <1>8 DEF Terminated, more

LEMMA PairEnds ==
  ASSUME NEW s \in Seq(Chars), NEW t, t = Append(s, "\n"), s # <<>>, s[Len(s)] = "\r",
         NEW lines, Terminated(lines, s)
  PROVE  Terminated(lines, t) /\ Rest(t) = <<>>
<1>1. "\n" \in Chars /\ t \in Seq(Chars) /\ Len(t) = Len(s) + 1
  BY DEF Chars
<1>2. EndsOf(t) = (EndsOf(s) \ {Len(s)}) \cup {Len(s) + 1}
  BY <1>1, EndsGrow
<1>3. /\ LineAt(t, Len(s) + 1) = LineAt(s, Len(s)) /\ Len(s) \in EndsOf(s)
      /\ Number(t, Len(s) + 1) = Cardinality(EndsOf(s))
      /\ Number(s, Len(s)) = Cardinality(EndsOf(s))
      /\ Cardinality(EndsOf(t)) = Cardinality(EndsOf(s))
  BY PairIsOne
<1>4. ASSUME NEW e \in EndsOf(t) PROVE lines[Number(t, e)] = LineAt(t, e)
  <2>1. CASE e = Len(s) + 1
    <3>1. lines[Number(s, Len(s))] = LineAt(s, Len(s))
      BY <1>3 DEF Terminated
    <3> QED BY <1>3, <2>1, <3>1
  <2>2. CASE e \in EndsOf(s)
    <3>1. LineAt(t, e) = LineAt(s, e) /\ Number(t, e) = Number(s, e)
      BY <1>1, <2>2, OldLinesStand, ZenonT(60)
    <3> QED BY <2>2, <3>1 DEF Terminated
  <2> QED BY <1>2, <2>1, <2>2
<1>5. Rest(t) = <<>>
  BY <1>1, <1>2, NothingBehind
<1> QED BY <1>3, <1>4, <1>5 DEF Terminated

\* The terminated lines and the rest are the lines.
LEMMA TheseAreAll ==
  ASSUME NEW s \in Seq(Chars), NEW lines \in Seq(Seq(Chars)), Terminated(lines, s)
  PROVE  /\ Rest(s) = <<>> => AreLinesOf(lines, s)
         /\ Rest(s) # <<>> /\ Rest(s) \in Seq(Chars) => AreLinesOf(Append(lines, Rest(s)), s)
<1>1. Len(lines) = Cardinality(EndsOf(s)) /\ Cardinality(EndsOf(s)) \in Nat
  BY EndsAre DEF Terminated
<1>2. Rest(s) = <<>> => AreLinesOf(lines, s)
  BY <1>1 DEF Terminated, AreLinesOf
<1>3. ASSUME Rest(s) # <<>>, Rest(s) \in Seq(Chars) PROVE AreLinesOf(Append(lines, Rest(s)), s)
  <2> DEFINE more == Append(lines, Rest(s))
  <2>1. Len(more) = Len(lines) + 1 /\ more[Len(lines) + 1] = Rest(s)
        /\ \A i \in 1..Len(lines) : more[i] = lines[i]
    BY <1>3
  <2> HIDE DEF more
  <2>2. \A e \in EndsOf(s) : more[Number(s, e)] = LineAt(s, e)
    BY <1>1, <2>1, EndsAre DEF Terminated
  <2>3. AreLinesOf(more, s)
    BY <1>1, <1>3, <2>1, <2>2 DEF AreLinesOf
  <2> QED BY <2>3 DEF more
<1> QED BY <1>2, <1>3

LEMMA LineBegins == LineInit => LineInv
<1> SUFFICES ASSUME LineInit PROVE LineInv
  OBVIOUS
<1>1. LineTypeOK
  <2>1. <<>> \in Texts /\ <<>> \in TextLists /\ <<>> \in Seq(Chars) /\ Len(<<>>) = 0
    BY DEF Texts, TextLists
  <2>2. cutter \in [at : {"byte", "peek", "eof"}, read : Nat, buf : Texts, lines : TextLists]
    BY <2>1 DEF LineInit
  <2>3. cutter.read <= Len(written)
    BY <2>1 DEF LineInit
  <2> QED BY <2>1, <2>2, <2>3 DEF LineInit, LineTypeOK
<1>2. Reads = <<>> /\ EndsOf(<<>>) = {} /\ ~Available
  BY DEF LineInit, Reads, EndsOf, Available
<1>3. Cardinality({}) = 0
  BY FS_EmptySet
<1>4. Rest(<<>>) = <<>>
  <2>1. EndBefore(<<>>, 1) \in Nat
    <3> DEFINE s == <<>>
    <3>1. s \in Seq(Chars) /\ 1 \in Nat /\ 1 > 0
      OBVIOUS
    <3> HIDE DEF s
    <3>2. EndBefore(s, 1) \in Nat
      BY <3>1, EndBeforeIs
    <3> QED BY <3>2 DEF s
  <2>2. Len(<<>>) + 1 = 1
    OBVIOUS
  <2>3. SubSeq(<<>>, EndBefore(<<>>, 1) + 1, 0) = <<>>
    BY <2>1
  <2>4. Cut(<<>>) = <<>>
    BY LineReaderAssumption DEF Cut
  <2> QED BY <2>2, <2>3, <2>4 DEF Rest
<1>5. Terminated(<<>>, <<>>)
  BY <1>2, <1>3 DEF Terminated
<1> QED BY <1>1, <1>2, <1>4, <1>5 DEF LineInit, LineInv, Between, HeldBack, AllOut, Unbroken

LEMMA LineKept == LineInv /\ [LineNext]_lineVars => LineInv'
<1> SUFFICES ASSUME LineInv, [LineNext]_lineVars PROVE LineInv'
  OBVIOUS
<1>0. /\ LineTypeOK /\ Between /\ HeldBack /\ AllOut
      /\ Reads \in Seq(Chars) /\ Len(Reads) = cutter.read
      /\ ~Available => Reads = written
      /\ Available => NextByte \in Chars
            /\ SubSeq(written, 1, cutter.read + 1) = Append(Reads, NextByte)
  BY ReadsAre DEF LineInv
<1>9. /\ cutter.lines \in Seq(Seq(Chars)) /\ cutter.buf \in Seq(Chars)
      /\ cutter.lines \in TextLists /\ cutter.buf \in Texts
      /\ Append(cutter.lines, cutter.buf) \in TextLists /\ <<>> \in Texts /\ <<>> \in TextLists
  BY <1>0, TextsAre
<1>1. CASE WriteByte
  <2>1. PICK c \in Chars : written' = Append(written, c)
    BY <1>1 DEF WriteByte, Chars
  <2>2. ~closed /\ closed' = closed /\ cutter' = cutter
    BY <1>1 DEF WriteByte
  <2>3. LineTypeOK'
    BY <1>0, <2>1, <2>2 DEF LineTypeOK
  <2>4. cutter.read \in Nat /\ cutter.read <= Len(written) /\ written \in Seq(Chars)
    BY <1>0 DEF LineTypeOK
  <2>5. Reads' = Reads
    <3> DEFINE n == cutter.read
    <3>1. n \in Nat /\ n <= Len(written)
      BY <2>4
    <3> HIDE DEF n
    <3>2. SubSeq(Append(written, c), 1, n) = SubSeq(written, 1, n)
      BY <2>4, <3>1
    <3> QED BY <2>1, <2>2, <3>2 DEF Reads, n
  <2>6. Available => Available' /\ NextByte' = NextByte
    BY <2>1, <2>2, <2>4 DEF Available, NextByte
  <2>7. Between'
    BY <1>0, <2>2, <2>5, <2>6 DEF Between, Unbroken
  <2>8. HeldBack' /\ AllOut'
    BY <1>0, <2>2, <2>5 DEF HeldBack, AllOut
  <2> QED BY <2>3, <2>7, <2>8 DEF LineInv
<1>2. CASE ClosePipe
  <2>1. closed' = TRUE /\ UNCHANGED <<written, cutter>>
    BY <1>2 DEF ClosePipe
  <2>2. Reads' = Reads /\ Available' = Available /\ NextByte' = NextByte
    BY <2>1 DEF Reads, Available, NextByte
  <2>3. LineTypeOK'
    BY <1>0, <2>1 DEF LineTypeOK
  <2>4. Between' /\ HeldBack' /\ AllOut'
    BY <1>0, <2>1, <2>2 DEF Between, Unbroken, HeldBack, AllOut
  <2> QED BY <2>3, <2>4 DEF LineInv
<1>3. CASE TakeByte
  <2>1. cutter.at = "byte" /\ Available /\ UNCHANGED <<written, closed>>
    BY <1>3 DEF TakeByte
  <2>2. Terminated(cutter.lines, Reads) /\ cutter.buf = Rest(Reads) /\ Unbroken
    BY <1>0, <2>1 DEF Between
  <2> DEFINE s == Reads
             c == NextByte
             t == Append(s, c)
  <2>3. s \in Seq(Chars) /\ c \in Chars /\ t \in Seq(Chars)
        /\ SubSeq(written, 1, cutter.read + 1) = t
    BY <1>0, <2>1
  <2>4. ~(c = "\n" /\ s # <<>> /\ s[Len(s)] = "\r")
    BY <2>1, <2>2 DEF Unbroken
  <2>5. /\ cutter.lines \in Seq(Seq(Chars)) /\ cutter.buf \in Seq(Chars)
        /\ cutter.read \in Nat /\ cutter.read + 1 <= Len(written) /\ written \in Seq(Chars)
    BY <1>0, <1>9, <2>1 DEF LineTypeOK, Available
  <2>6. Terminated(cutter.lines, s) /\ cutter.buf = Rest(s)
    BY <2>2
  <2>7. t # <<>> /\ t[Len(t)] = c
    BY <2>3
  <2>8. ASSUME cutter'.read = cutter.read + 1 PROVE Reads' = t
    BY <2>1, <2>3, <2>8 DEF Reads
  <2> HIDE DEF s, t
  <2>9. CASE c = "\n"
    <3>1. cutter' = [cutter EXCEPT !.read = @ + 1, !.at = "byte",
                                   !.lines = Append(@, cutter.buf), !.buf = <<>>]
      BY <1>0, <1>3, <2>9 DEF TakeByte, Yielded, LineTypeOK
    <3>2. LineTypeOK'
      <4>1. cutter.read + 1 \in Nat
        BY <2>5
      <4>2. cutter' \in [at : {"byte", "peek", "eof"}, read : Nat, buf : Texts, lines : TextLists]
        BY <1>0, <1>9, <3>1, <4>1 DEF LineTypeOK
      <4>3. cutter'.read = cutter.read + 1
        BY <1>0, <3>1 DEF LineTypeOK
      <4> QED BY <1>0, <2>1, <2>5, <4>2, <4>3 DEF LineTypeOK
    <3>3. cutter'.at = "byte" /\ cutter'.lines = Append(cutter.lines, cutter.buf)
          /\ cutter'.buf = <<>>
          /\ cutter'.read = cutter.read + 1
      BY <1>0, <3>1 DEF LineTypeOK
    <3>4. Terminated(Append(cutter.lines, cutter.buf), t) /\ Rest(t) = <<>>
      BY <2>3, <2>4, <2>5, <2>6, <2>9, LineEnds DEF t
    <3>5. Reads' = t
      BY <2>8, <3>3
    <3>6. Unbroken'
      BY <2>7, <2>9, <3>5 DEF Unbroken
    <3> QED BY <3>2, <3>3, <3>4, <3>5, <3>6 DEF LineInv, Between, HeldBack, AllOut
  <2>10. CASE c = "\r"
    <3>1. cutter' = [cutter EXCEPT !.read = @ + 1, !.at = "peek"]
      BY <1>0, <1>3, <2>10 DEF TakeByte, LineTypeOK
    <3>2. LineTypeOK'
      <4>1. cutter.read + 1 \in Nat
        BY <2>5
      <4>2. cutter' \in [at : {"byte", "peek", "eof"}, read : Nat, buf : Texts, lines : TextLists]
        BY <1>0, <1>9, <3>1, <4>1 DEF LineTypeOK
      <4>3. cutter'.read = cutter.read + 1
        BY <1>0, <3>1 DEF LineTypeOK
      <4> QED BY <1>0, <2>1, <2>5, <4>2, <4>3 DEF LineTypeOK
    <3>3. cutter'.at = "peek" /\ cutter'.lines = cutter.lines /\ cutter'.buf = cutter.buf
          /\ cutter'.read = cutter.read + 1
      BY <1>0, <3>1 DEF LineTypeOK
    <3>4. Terminated(Append(cutter.lines, cutter.buf), t) /\ Rest(t) = <<>>
      BY <2>3, <2>4, <2>5, <2>6, <2>10, LineEnds DEF t
    <3>5. Reads' = t
      BY <2>8, <3>3
    <3> QED BY <2>7, <2>10, <3>2, <3>3, <3>4, <3>5 DEF LineInv, Between, HeldBack, AllOut
  <2>11. CASE c \in Letters
    <3>1. c # "\n" /\ c # "\r"
      BY <2>11, LineReaderAssumption
    <3>2. cutter' = IF Len(cutter.buf) < Longest
                    THEN [cutter EXCEPT !.read = @ + 1, !.buf = Append(@, c)]
                    ELSE [cutter EXCEPT !.read = @ + 1]
      BY <1>0, <1>3, <3>1 DEF TakeByte, LineTypeOK
    <3>3. cutter'.at = "byte" /\ cutter'.lines = cutter.lines /\ cutter'.read = cutter.read + 1
          /\ cutter'.buf = IF Len(cutter.buf) < Longest THEN Append(cutter.buf, c) ELSE cutter.buf
      BY <1>0, <2>1, <3>2 DEF LineTypeOK
    <3>4. cutter'.buf \in Texts /\ Append(cutter.buf, c) \in Texts
      BY <2>3, <2>5, <3>3 DEF Texts
    <3>5. LineTypeOK'
      <4>1. cutter.read + 1 \in Nat
        BY <2>5
      <4>2. cutter' \in [at : {"byte", "peek", "eof"}, read : Nat, buf : Texts, lines : TextLists]
        BY <1>0, <1>9, <3>2, <3>4, <4>1 DEF LineTypeOK
      <4> QED BY <1>0, <2>1, <2>5, <3>3, <4>2 DEF LineTypeOK
    <3>6. EndsOf(t) = EndsOf(s)
      BY <2>3, <2>11, RestGrows DEF t
    <3>7. Rest(t) = IF Len(Rest(s)) < Longest THEN Append(Rest(s), c) ELSE Rest(s)
      BY <2>3, <2>11, RestGrows DEF t
    <3>8. Terminated(cutter.lines, t)
      <4>1. \A e \in EndsOf(s) : LineAt(t, e) = LineAt(s, e) /\ Number(t, e) = Number(s, e)
        <5> TAKE e \in EndsOf(s)
        <5>1. LineAt(t, e) = LineAt(s, e)
          BY <2>3, <3>6, OldLinesStand, ZenonT(60) DEF t
        <5>2. Number(t, e) = Number(s, e)
          BY <2>3, <3>6, OldLinesStand, ZenonT(60) DEF t
        <5> QED BY <5>1, <5>2
      <4> QED BY <2>6, <3>6, <4>1 DEF Terminated
    <3>9. Reads' = t
      BY <2>8, <3>3
    <3>10. Unbroken'
      BY <2>7, <3>1, <3>9 DEF Unbroken
    <3>11. cutter'.buf = Rest(t)
      BY <2>6, <3>3, <3>7
    <3> QED BY <3>3, <3>5, <3>8, <3>9, <3>10, <3>11 DEF LineInv, Between, HeldBack, AllOut
  <2> QED BY <2>3, <2>9, <2>10, <2>11 DEF Chars
<1>4. CASE Peek
  <2>1. cutter.at = "peek" /\ UNCHANGED <<written, closed>>
    BY <1>4 DEF Peek
  <2>2. /\ Reads # <<>> /\ Reads[Len(Reads)] = "\r" /\ Rest(Reads) = <<>>
        /\ Terminated(Append(cutter.lines, cutter.buf), Reads)
    BY <1>0, <2>1 DEF HeldBack
  <2>3. cutter.lines \in Seq(Seq(Chars)) /\ cutter.buf \in Seq(Chars) /\ cutter.read \in Nat
        /\ written \in Seq(Chars)
    BY <1>0, <1>9 DEF LineTypeOK
  <2>4. CASE Available /\ NextByte = "\n"
    <3>1. cutter' = [cutter EXCEPT !.read = @ + 1, !.at = "byte",
                                   !.lines = Append(@, cutter.buf), !.buf = <<>>]
      BY <1>0, <1>4, <2>4 DEF Peek, Yielded, LineTypeOK
    <3>2. cutter'.at = "byte" /\ cutter'.lines = Append(cutter.lines, cutter.buf)
          /\ cutter'.buf = <<>>
          /\ cutter'.read = cutter.read + 1
      BY <1>0, <3>1 DEF LineTypeOK
    <3>3. LineTypeOK'
      <4>1. cutter.read + 1 <= Len(written) /\ cutter.read + 1 \in Nat
        BY <1>0, <2>3, <2>4 DEF LineTypeOK, Available
      <4> QED BY <1>0, <1>9, <2>1, <2>3, <3>1, <4>1 DEF LineTypeOK
    <3> DEFINE t == Append(Reads, "\n")
    <3>4. Reads' = t
      BY <1>0, <2>1, <2>4, <3>2 DEF Reads
    <3>5. t # <<>> /\ t[Len(t)] = "\n"
      <4>1. Reads \in Seq(Chars)
        BY <1>0
      <4> HIDE <1>0
      <4> QED BY <4>1
    <3> HIDE DEF t
    <3>6. Terminated(Append(cutter.lines, cutter.buf), t) /\ Rest(t) = <<>>
      BY <1>0, <2>2, PairEnds DEF t
    <3>7. Unbroken'
      BY <3>4, <3>5 DEF Unbroken
    <3> QED BY <3>2, <3>3, <3>4, <3>6, <3>7 DEF LineInv, Between, HeldBack, AllOut
  <2>5. CASE ~(Available /\ NextByte = "\n") /\ (Available \/ closed)
    <3>1. cutter' = [cutter EXCEPT !.at = "byte", !.lines = Append(@, cutter.buf), !.buf = <<>>]
      BY <1>0, <1>4, <2>5 DEF Peek, Yielded, LineTypeOK
    <3>2. cutter'.at = "byte" /\ cutter'.lines = Append(cutter.lines, cutter.buf)
          /\ cutter'.buf = <<>>
          /\ cutter'.read = cutter.read
      BY <1>0, <3>1 DEF LineTypeOK
    <3>3. LineTypeOK'
      BY <1>0, <1>9, <2>1, <2>3, <3>1 DEF LineTypeOK
    <3>4. Reads' = Reads /\ Available' = Available /\ NextByte' = NextByte
      BY <2>1, <3>2 DEF Reads, Available, NextByte
    <3>5. Unbroken'
      BY <2>1, <2>5, <3>4 DEF Unbroken
    <3> QED BY <2>2, <3>2, <3>3, <3>4, <3>5 DEF LineInv, Between, HeldBack, AllOut
  <2> QED BY <1>4, <2>4, <2>5 DEF Peek
<1>5. CASE EndOfStream
  <2>1. cutter.at = "byte" /\ ~Available /\ closed /\ UNCHANGED <<written, closed>>
    BY <1>5 DEF EndOfStream
  <2>2. /\ cutter.lines \in Seq(Seq(Chars)) /\ cutter.buf \in Seq(Chars) /\ cutter.read \in Nat
        /\ Reads \in Seq(Chars)
    BY <1>0, <1>9 DEF LineTypeOK
  <2>3. cutter' = IF cutter.buf # <<>>
                  THEN [cutter EXCEPT !.at = "byte", !.lines = Append(@, cutter.buf),
                                      !.buf = <<>>]
                  ELSE [cutter EXCEPT !.at = "eof"]
    BY <1>5 DEF EndOfStream, Yielded
  <2>4. LineTypeOK'
    BY <1>0, <1>9, <2>1, <2>2, <2>3 DEF LineTypeOK
  <2>5. cutter'.read = cutter.read
    BY <1>0, <2>3 DEF LineTypeOK
  <2>6. Reads' = Reads /\ Available' = Available
    BY <2>1, <2>5 DEF Reads, Available
  <2>7. CASE cutter.buf # <<>>
    <3>1. Terminated(cutter.lines, Reads) /\ cutter.buf = Rest(Reads)
      BY <1>0, <2>1, <2>7 DEF Between
    <3>2. AreLinesOf(Append(cutter.lines, cutter.buf), Reads)
      BY <2>2, <2>7, <3>1, TheseAreAll
    <3>3. cutter'.at = "byte" /\ cutter'.lines = Append(cutter.lines, cutter.buf)
          /\ cutter'.buf = <<>>
      BY <1>0, <2>3, <2>7 DEF LineTypeOK
    <3> QED BY <2>1, <2>4, <2>6, <3>2, <3>3 DEF LineInv, Between, HeldBack, AllOut
  <2>8. CASE cutter.buf = <<>>
    <3>1. AreLinesOf(cutter.lines, Reads)
      BY <1>0, <2>1, <2>2, <2>8, TheseAreAll DEF Between
    <3>2. cutter'.at = "eof" /\ cutter'.lines = cutter.lines /\ cutter'.buf = <<>>
      BY <1>0, <2>3, <2>8 DEF LineTypeOK
    <3> QED BY <2>1, <2>4, <2>6, <3>1, <3>2 DEF LineInv, Between, HeldBack, AllOut
  <2> QED BY <2>7, <2>8
<1>6. CASE UNCHANGED lineVars
  <2>1. UNCHANGED <<written, closed, cutter>>
    BY <1>6 DEF lineVars
  <2>2. Reads' = Reads /\ Available' = Available /\ NextByte' = NextByte
    BY <2>1 DEF Reads, Available, NextByte
  <2>3. LineTypeOK'
    BY <1>0, <2>1 DEF LineTypeOK
  <2> QED BY <1>0, <2>1, <2>2, <2>3 DEF LineInv, Between, Unbroken, HeldBack, AllOut
<1> QED BY <1>1, <1>2, <1>3, <1>4, <1>5, <1>6 DEF LineNext

\* A run's output becomes the lines it consists of, for any text, any length a line may
\* have and however the writing and the reading interleave; a line is held back only while
\* a \r is the last that was written (parse.go, lineReader.readLine).
THEOREM LinesAreRead == LineSpec => []LinesAreThose
<1>1. LineInv => LinesAreThose
  <2> SUFFICES ASSUME LineInv, ~Available PROVE LinesSoFar /\ (~closed => OneHeldBack)
    BY DEF LinesAreThose, LinesSoFar, OneHeldBack
  <2>1. LineTypeOK /\ Between /\ HeldBack /\ AllOut /\ Reads = written /\ Reads \in Seq(Chars)
    BY ReadsAre DEF LineInv
  <2>2. cutter.lines \in Seq(Seq(Chars)) /\ cutter.buf \in Seq(Chars)
    BY <2>1, TextsAre
  <2>3. Cardinality(EndsOf(written)) \in Nat
    BY <2>1, EndsAre
  <2>4. CASE cutter.at = "peek"
    <3> DEFINE more == Append(cutter.lines, cutter.buf)
    <3>1. more \in Seq(Seq(Chars)) /\ Len(more) = Len(cutter.lines) + 1
          /\ Len(cutter.lines) \in Nat
      BY <2>2
    <3> HIDE DEF more
    <3>2. Rest(written) = <<>> /\ Terminated(more, written) /\ written[Len(written)] = "\r"
      BY <2>1, <2>4 DEF HeldBack, more
    <3>3. AreLinesOf(more, written)
      BY <2>1, <3>1, <3>2, TheseAreAll
    <3>4. LinesSoFar
      BY <2>4, <3>3 DEF LinesSoFar, more
    <3>5. OneHeldBack
      BY <2>3, <3>1, <3>2 DEF OneHeldBack, Terminated
    <3> QED BY <3>4, <3>5
  <2>5. CASE cutter.at = "byte" /\ Terminated(cutter.lines, Reads) /\ cutter.buf = Rest(Reads)
    <3>1. AreLinesOf(IF cutter.buf = <<>> THEN cutter.lines
                     ELSE Append(cutter.lines, cutter.buf), written)
      BY <2>1, <2>2, <2>5, TheseAreAll
    <3>2. LinesSoFar
      BY <2>5, <3>1 DEF LinesSoFar
    <3>3. OneHeldBack
      BY <2>1, <2>3, <2>5 DEF OneHeldBack, Terminated
    <3> QED BY <3>2, <3>3
  <2>6. CASE closed /\ cutter.at # "peek" /\ cutter.buf = <<>> /\ AreLinesOf(cutter.lines, Reads)
    BY <2>1, <2>6 DEF LinesSoFar
  <2>7. CASE cutter.at = "eof"
    BY <2>1, <2>6, <2>7 DEF AllOut
  <2> QED BY <2>1, <2>4, <2>5, <2>6, <2>7 DEF Between, LineTypeOK
<1> QED BY <1>1, LineBegins, LineKept, PTL DEF LineSpec

-----------------------------------------------------------------------------
(* Sums.                                                                   *)

\* Sums, element by element, in the order MapThenSumSet takes them.
Some(s) == CHOOSE x \in s : TRUE
SumsOn(h, d, it) ==
  it = [s \in SUBSET d |-> IF s = {} THEN 0 ELSE h[Some(s)] + it[s \ {Some(s)}]]

LEMMA SomeIs == \A s : s # {} => Some(s) \in s
BY DEF Some

LEMMA SumsSame ==
  ASSUME NEW h, NEW d, IsFiniteSet(d), NEW e, IsFiniteSet(e), NEW k,
         NEW it, NEW jt, SumsOn(h, d, it), SumsOn(k, e, jt),
         NEW S \in SUBSET (d \cap e), \A x \in S : h[x] = k[x]
  PROVE  it[S] = jt[S]
<1> DEFINE X == {T \in SUBSET S : it[T] = jt[T]}
<1>0. IsFiniteSet(S)
  BY FS_Subset
<1>1. ASSUME NEW T \in SUBSET S, \A R \in SUBSET T : R # T => R \in X PROVE T \in X
  <2>1. CASE T = {}
    BY <2>1 DEF SumsOn
  <2>2. CASE T # {}
    <3> DEFINE x == Some(T)
               R == T \ {x}
    <3>1. x \in T
      BY <2>2, SomeIs
    <3>2. it[R] = jt[R]
      BY <1>1, <3>1
    <3>3. it[T] = h[x] + it[R]
      BY <2>2 DEF SumsOn
    <3>4. jt[T] = k[x] + jt[R]
      BY <2>2 DEF SumsOn
    <3>5. h[x] = k[x]
      BY <3>1
    <3> HIDE DEF x, R
    <3> QED BY <3>2, <3>3, <3>4, <3>5
  <2> QED BY <2>1, <2>2
<1> HIDE DEF X
<1>2. S \in X
  BY <1>0, <1>1, SetsDescend
<1> QED BY <1>2 DEF X

LEMMA SumsExist ==
  ASSUME NEW D, IsFiniteSet(D), NEW h
  PROVE  \E it : SumsOn(h, D, it)
<1> DEFINE X == {d \in SUBSET D : \E it : SumsOn(h, d, it)}
<1>1. ASSUME NEW d \in SUBSET D, \A e \in SUBSET d : e # d => e \in X PROVE d \in X
  <2> DEFINE part(e) == CHOOSE it : SumsOn(h, e, it)
             value(s) == IF s = {} THEN 0
                         ELSE h[Some(s)] + part(s \ {Some(s)})[s \ {Some(s)}]
             it == [s \in SUBSET d |-> value(s)]
  <2>1. \A e \in SUBSET d : e # d => SumsOn(h, e, part(e))
    BY <1>1
  <2>2. ASSUME NEW s \in SUBSET d, s # {}
        PROVE  part(s \ {Some(s)})[s \ {Some(s)}] = it[s \ {Some(s)}]
    <3> DEFINE r == s \ {Some(s)}
    <3>1. Some(s) \in s
      BY <2>2, SomeIs
    <3>2. r \in SUBSET d /\ r # d
      BY <3>1
    <3>3. SumsOn(h, r, part(r))
      BY <2>1, <3>2
    <3>4. it[r] = value(r)
      BY <3>2
    <3>5. CASE r = {}
      <4>1. part(r)[r] = 0
        BY <3>3, <3>5 DEF SumsOn
      <4> QED BY <3>4, <3>5, <4>1
    <3>6. CASE r # {}
      <4> DEFINE q == r \ {Some(r)}
      <4>1. part(r)[r] = h[Some(r)] + part(r)[q]
        <5> HIDE DEF part, r
        <5> QED BY <3>3, <3>6 DEF SumsOn
      <4>2. Some(r) \in r
        BY <3>6, SomeIs
      <4>3. q \in SUBSET d /\ q # d /\ q \in SUBSET (r \cap q)
        BY <3>2, <4>2
      <4>4. SumsOn(h, q, part(q))
        BY <2>1, <4>3
      <4>5. IsFiniteSet(r) /\ IsFiniteSet(q)
        BY <3>2, <4>3, FS_Subset
      <4>6. part(r)[q] = part(q)[q]
        <5> HIDE DEF part, r, q
        <5> QED BY <3>3, <4>3, <4>4, <4>5, SumsSame
      <4>7. value(r) = h[Some(r)] + part(q)[q]
        BY <3>6
      <4>8. part(r)[r] = it[r]
        <5> HIDE DEF part, r, q, value, it
        <5> QED BY <3>4, <4>1, <4>6, <4>7
      <4> QED BY <4>8
    <3> HIDE DEF part, it
    <3> QED BY <3>5, <3>6
  <2>3. it = [s \in SUBSET d |-> IF s = {} THEN 0 ELSE h[Some(s)] + it[s \ {Some(s)}]]
    <3>1. \A s \in SUBSET d : it[s] = IF s = {} THEN 0 ELSE h[Some(s)] + it[s \ {Some(s)}]
      <4> SUFFICES ASSUME NEW s \in SUBSET d
                   PROVE it[s] = IF s = {} THEN 0 ELSE h[Some(s)] + it[s \ {Some(s)}]
        OBVIOUS
      <4>1. it[s] = value(s)
        OBVIOUS
      <4>2. value(s) = IF s = {} THEN 0 ELSE h[Some(s)] + it[s \ {Some(s)}]
        <5> HIDE DEF it, part
        <5> QED BY <2>2
      <4> HIDE DEF it, value
      <4> QED BY <4>1, <4>2
    <3>2. it = [s \in SUBSET d |-> it[s]]
      OBVIOUS
    <3> HIDE DEF it
    <3> QED BY <3>1, <3>2, Zenon
  <2>4. SumsOn(h, d, it)
    <3> HIDE DEF it
    <3> QED BY <2>3, Zenon DEF SumsOn
  <2> HIDE DEF it
  <2> QED BY <2>4
<1> HIDE DEF X
<1>2. D \in X
  BY <1>1, SetsDescend
<1> QED BY <1>2 DEF X

\* A sum of numbers is one, and may be taken in any order.
LEMMA SumsAdd ==
  ASSUME NEW D, IsFiniteSet(D), NEW h, \A x \in D : h[x] \in Nat,
         NEW it, SumsOn(h, D, it)
  PROVE  \A S \in SUBSET D : it[S] \in Nat /\ \A y \in S : it[S] = h[y] + it[S \ {y}]
<1> DEFINE X == {S \in SUBSET D : it[S] \in Nat /\ \A y \in S : it[S] = h[y] + it[S \ {y}]}
<1>1. ASSUME NEW S \in SUBSET D, \A T \in SUBSET S : T # S => T \in X PROVE S \in X
  <2>1. CASE S = {}
    BY <2>1 DEF SumsOn
  <2>2. CASE S # {}
    <3> DEFINE x == Some(S)
    <3>1. x \in S
      BY <2>2, SomeIs
    <3>2. it[S] = h[x] + it[S \ {x}]
      BY <2>2 DEF SumsOn
    <3> HIDE DEF x
    <3>3. S \ {x} \in X
      BY <1>1, <3>1
    <3>4. it[S] \in Nat
      BY <3>1, <3>2, <3>3
    <3>5. ASSUME NEW y \in S PROVE it[S] = h[y] + it[S \ {y}]
      <4>1. CASE y = x
        BY <3>2, <4>1
      <4>2. CASE y # x
        <5>1. S \ {y} \in X
          BY <1>1
        <5>2. y \in S \ {x} /\ x \in S \ {y}
          BY <3>1, <4>2
        <5>3. it[S \ {x}] = h[y] + it[(S \ {x}) \ {y}]
          BY <3>3, <5>2
        <5>4. it[S \ {y}] = h[x] + it[(S \ {y}) \ {x}]
          BY <5>1, <5>2
        <5>5. (S \ {x}) \ {y} = (S \ {y}) \ {x}
          OBVIOUS
        <5>6. (S \ {x}) \ {y} \in X
          BY <1>1, <3>1
        <5>7. it[(S \ {x}) \ {y}] \in Nat /\ h[x] \in Nat /\ h[y] \in Nat
          BY <3>1, <5>6
        <5> DEFINE a == it[S \ {x}]
                   b == it[S \ {y}]
                   c == it[(S \ {x}) \ {y}]
        <5>8. it[S] = h[x] + a /\ a = h[y] + c /\ b = h[x] + c /\ c \in Nat
          BY <3>2, <5>3, <5>4, <5>5, <5>7
        <5>9. it[S] = h[y] + b
          <6> HIDE DEF a, b, c
          <6> QED BY <5>7, <5>8
        <5> QED BY <5>9
      <4> QED BY <4>1, <4>2
    <3> QED BY <3>4, <3>5
  <2> QED BY <2>1, <2>2
<1> HIDE DEF X
<1>2. \A S \in SUBSET D : S \in X
  BY <1>1, SetsDescend
<1> QED BY <1>2 DEF X

\* What the sum of a function is.
LEMMA SumIs ==
  ASSUME NEW h, IsFiniteSet(DOMAIN h)
  PROVE  \E it : SumsOn(h, DOMAIN h, it) /\ SumFunction(h) = it[DOMAIN h]
<1> DEFINE D == DOMAIN h
           Eq(it) == it = [s \in SUBSET D |->
                       IF s = {} THEN 0
                       ELSE LET x == CHOOSE x \in s : TRUE IN h[x] + it[s \ {x}]]
<1>1. SumFunction(h) = (CHOOSE it : Eq(it))[D]
  BY DEF SumFunction, SumFunctionOnSet, FoldFunctionOnSet, MapThenFoldSet
<1>2. ASSUME NEW it PROVE Eq(it) <=> SumsOn(h, D, it)
  BY Zenon DEF SumsOn, Some
<1>3. \E it : Eq(it)
  <2> HIDE DEF Eq
  <2> QED BY <1>2, SumsExist
<1>4. Eq(CHOOSE it : Eq(it))
  <2> HIDE DEF Eq
  <2> QED BY <1>3, Zenon
<1> HIDE DEF Eq
<1> QED BY <1>1, <1>2, <1>4

\* The sum over two sets that share nothing.
LEMMA SumsSplit ==
  ASSUME NEW D, IsFiniteSet(D), NEW h, \A x \in D : h[x] \in Nat,
         NEW it, SumsOn(h, D, it), NEW A \in SUBSET D, NEW B \in SUBSET D, A \cap B = {}
  PROVE  it[A \cup B] = it[A] + it[B]
<1> DEFINE X == {T \in SUBSET B : it[A \cup T] = it[A] + it[T]}
<1>1. \A S \in SUBSET D : it[S] \in Nat /\ \A y \in S : it[S] = h[y] + it[S \ {y}]
  BY SumsAdd
<1>2. IsFiniteSet(B)
  BY FS_Subset
<1>3. {} \in X
  <2>1. it[{}] = 0
    BY DEF SumsOn
  <2>2. A \cup {} = A /\ it[A] \in Nat
    BY <1>1
  <2> QED BY <2>1, <2>2
<1>4. ASSUME NEW S \in SUBSET B, NEW x \in B \ S, S \in X PROVE S \cup {x} \in X
  <2> DEFINE T == S \cup {x}
  <2>1. T \in SUBSET B /\ T \in SUBSET D /\ A \cup T \in SUBSET D /\ A \cup S \in SUBSET D
    OBVIOUS
  <2>2. T \ {x} = S /\ (A \cup T) \ {x} = A \cup S /\ x \in T /\ x \in A \cup T
    BY <1>4
  <2>3. it[T] = h[x] + it[S] /\ it[A \cup T] = h[x] + it[A \cup S]
    BY <1>1, <2>1, <2>2
  <2>4. it[A \cup S] = it[A] + it[S]
    BY <1>4
  <2>5. it[A] \in Nat /\ it[S] \in Nat /\ h[x] \in Nat
    BY <1>1, <2>1
  <2> HIDE DEF T
  <2>6. it[A \cup T] = it[A] + it[T]
    BY <2>3, <2>4, <2>5
  <2> QED BY <2>1, <2>6 DEF T
<1> HIDE DEF X
<1>5. B \in X
  BY <1>2, <1>3, <1>4, SetsInduct
<1> QED BY <1>5 DEF X

LEMMA OneMore == ASSUME NEW c \in Nat, NEW n \in Nat PROVE c * (n + 1) = c + c * n /\ c * n \in Nat
OBVIOUS

\* The sum of what is the same everywhere.
LEMMA SumsOfOne ==
  ASSUME NEW D, IsFiniteSet(D), NEW h, \A x \in D : h[x] \in Nat,
         NEW it, SumsOn(h, D, it), NEW Q \in SUBSET D, NEW c \in Nat, \A x \in Q : h[x] = c
  PROVE  it[Q] = c * Cardinality(Q)
<1> DEFINE X == {T \in SUBSET Q : it[T] = c * Cardinality(T)}
<1>1. \A S \in SUBSET D : it[S] \in Nat /\ \A y \in S : it[S] = h[y] + it[S \ {y}]
  BY SumsAdd
<1>2. IsFiniteSet(Q)
  BY FS_Subset
<1>3. {} \in X
  <2>1. it[{}] = 0 /\ Cardinality({}) = 0
    BY FS_EmptySet DEF SumsOn
  <2>2. c * 0 = 0
    OBVIOUS
  <2> QED BY <2>1, <2>2
<1>4. ASSUME NEW S \in SUBSET Q, NEW x \in Q \ S, S \in X PROVE S \cup {x} \in X
  <2> DEFINE T == S \cup {x}
             n == Cardinality(S)
  <2>1. IsFiniteSet(S) /\ n \in Nat /\ Cardinality(T) = n + 1
    BY <1>2, <1>4, FS_Subset, FS_AddElement, FS_CardinalityType
  <2>2. T \in SUBSET Q /\ T \in SUBSET D /\ x \in T /\ T \ {x} = S
    BY <1>4
  <2>3. it[T] = h[x] + it[S] /\ h[x] = c
    BY <1>1, <2>2
  <2>4. it[S] = c * n
    BY <1>4
  <2> HIDE DEF T, n
  <2>5. it[T] = c * Cardinality(T)
    BY <2>1, <2>3, <2>4, OneMore
  <2> QED BY <2>2, <2>5 DEF T
<1> HIDE DEF X
<1>5. Q \in X
  BY <1>2, <1>3, <1>4, SetsInduct
<1> QED BY <1>5 DEF X

\* Pairs whose first is of S.
Of(P, S) == {e \in P : e[1] \in S}

\* Each of S has w pairs of P; each is worth what c says, and together what v says.
Has(S, P, w) ==
  /\ IsFiniteSet(S) /\ Of(P, S) = P
  /\ \A r \in S : IsFiniteSet(Of(P, {r})) /\ Cardinality(Of(P, {r})) = w[r]
ByFirst(S, P, w, c, v, h) ==
  /\ Has(S, P, w)
  /\ \A r \in S : c[r] \in Nat /\ v[r] = c[r] * w[r]
  /\ \A e \in P : h[e] = c[e[1]]

\* A sum over pairs, taken first by first.
LEMMA SumsByFirst ==
  ASSUME NEW S, NEW P, NEW w, NEW c, NEW v, NEW h, ByFirst(S, P, w, c, v, h),
         NEW it, SumsOn(v, S, it), NEW jt, SumsOn(h, P, jt)
  PROVE  IsFiniteSet(P) /\ jt[P] = it[S]
<1> DEFINE F == {T \in SUBSET S : IsFiniteSet(Of(P, T))}
           X == {T \in SUBSET S : jt[Of(P, T)] = it[T]}
<1>9. /\ IsFiniteSet(S) /\ Of(P, S) = P
      /\ \A r \in S : /\ IsFiniteSet(Of(P, {r})) /\ Cardinality(Of(P, {r})) = w[r]
                      /\ c[r] \in Nat /\ v[r] = c[r] * w[r]
      /\ \A e \in P : h[e] = c[e[1]]
  BY DEF ByFirst, Has
<1> USE <1>9
<1>0. Of(P, {}) = {} /\ \A T, U : Of(P, T \cup U) = Of(P, T) \cup Of(P, U)
  BY DEF Of
<1>1. ASSUME NEW r \in S PROVE w[r] \in Nat /\ v[r] \in Nat
  <2>1. Cardinality(Of(P, {r})) \in Nat
    BY FS_CardinalityType
  <2>2. w[r] \in Nat /\ c[r] \in Nat /\ v[r] = c[r] * w[r]
    BY <2>1
  <2> HIDE DEF F, X
  <2> QED BY <2>2, OneMore
<1>2. {} \in F
  BY <1>0, FS_EmptySet
<1>3. ASSUME NEW T \in SUBSET S, NEW r \in S \ T, T \in F PROVE T \cup {r} \in F
  <2>1. IsFiniteSet(Of(P, T) \cup Of(P, {r}))
    BY <1>3, FS_Union
  <2> QED BY <1>0, <2>1
<1>4. IsFiniteSet(P)
  <2> HIDE DEF F
  <2>1. S \in F
    BY <1>2, <1>3, SetsInduct
  <2> QED BY <2>1 DEF F
<1>5. \A e \in P : h[e] \in Nat
  BY DEF Of
<1>6. {} \in X
  BY <1>0 DEF SumsOn
<1>7. ASSUME NEW T \in SUBSET S, NEW r \in S \ T, T \in X PROVE T \cup {r} \in X
  <2> DEFINE A == Of(P, T)
             B == Of(P, {r})
  <2>1. A \in SUBSET P /\ B \in SUBSET P /\ A \cap B = {}
    BY <1>7 DEF Of
  <2>2. Of(P, T \cup {r}) = A \cup B
    BY <1>0
  <2>3. \A e \in B : h[e] = c[r]
    BY DEF Of
  <2>4. Cardinality(B) = w[r] /\ c[r] \in Nat
    OBVIOUS
  <2> HIDE DEF A, B
  <2>5. jt[A \cup B] = jt[A] + jt[B]
    BY <1>4, <1>5, <2>1, SumsSplit
  <2>6. jt[B] = c[r] * w[r]
    BY <1>4, <1>5, <2>1, <2>3, <2>4, SumsOfOne
  <2>7. jt[A] = it[T] /\ it[T] \in Nat /\ v[r] \in Nat
    <3>1. it[T] \in Nat
      BY <1>1, SumsAdd
    <3> QED BY <1>1, <1>7, <3>1 DEF A
  <2>8. it[T \cup {r}] = v[r] + it[T]
    <3> DEFINE U == T \cup {r}
    <3>1. U \in SUBSET S /\ r \in U /\ U \ {r} = T
      BY <1>7
    <3> HIDE DEF U
    <3>2. it[U] = v[r] + it[U \ {r}]
      BY <1>1, <3>1, SumsAdd
    <3> QED BY <3>1, <3>2 DEF U
  <2>9. v[r] = jt[B]
    BY <2>6
  <2>10. jt[Of(P, T \cup {r})] = it[T \cup {r}]
    <3>1. \A a, b \in Nat : a + b = b + a
      OBVIOUS
    <3> QED BY <2>2, <2>5, <2>7, <2>8, <2>9, <3>1
  <2> QED BY <2>10
<1> HIDE DEF X
<1>8. S \in X
  BY <1>6, <1>7, SetsInduct
<1> QED BY <1>4, <1>8 DEF X

\* How many pairs there are, counted first by first.
LEMMA PairsAre ==
  ASSUME NEW S, NEW P, NEW w, Has(S, P, w), NEW it, SumsOn(w, S, it)
  PROVE  IsFiniteSet(P) /\ Cardinality(P) = it[S]
<1> USE DEF Has
<1>1. IsFiniteSet(P)
  <2> DEFINE F == {T \in SUBSET S : IsFiniteSet(Of(P, T))}
  <2>1. {} \in F
    <3>1. Of(P, {}) = {}
      BY DEF Of
    <3> QED BY <3>1, FS_EmptySet
  <2>2. ASSUME NEW T \in SUBSET S, NEW r \in S \ T, T \in F PROVE T \cup {r} \in F
    <3>1. IsFiniteSet(Of(P, T) \cup Of(P, {r}))
      BY <2>2, FS_Union
    <3>2. Of(P, T \cup {r}) = Of(P, T) \cup Of(P, {r})
      BY DEF Of
    <3> QED BY <3>1, <3>2
  <2> HIDE DEF F
  <2>3. S \in F
    BY <2>1, <2>2, SetsInduct
  <2> QED BY <2>3 DEF F
<1> DEFINE c == [r \in S |-> 1]
           h == [e \in P |-> 1]
<1>2. PICK jt : SumsOn(h, P, jt)
  BY <1>1, SumsExist
<1>3. ASSUME NEW r \in S
      PROVE  /\ IsFiniteSet(Of(P, {r})) /\ Cardinality(Of(P, {r})) = w[r]
             /\ c[r] \in Nat /\ w[r] = c[r] * w[r]
  <2>1. Cardinality(Of(P, {r})) \in Nat
    BY FS_CardinalityType
  <2>2. w[r] \in Nat /\ c[r] = 1
    BY <2>1
  <2> HIDE DEF c, h
  <2> QED BY <2>2
<1>4. \A e \in P : h[e] = c[e[1]] /\ h[e] = 1
  BY DEF Of
<1> HIDE DEF c, h
<1>5. jt[P] = it[S]
  <2>1. ByFirst(S, P, w, c, w, h)
    BY <1>3, <1>4 DEF ByFirst, Has
  <2> QED BY <1>2, <2>1, SumsByFirst
<1>6. jt[P] = 1 * Cardinality(P) /\ Cardinality(P) \in Nat
  <2>1. P \in SUBSET P /\ 1 \in Nat
    OBVIOUS
  <2> QED BY <1>1, <1>2, <1>4, <2>1, SumsOfOne, FS_CardinalityType
<1> QED BY <1>1, <1>5, <1>6

-----------------------------------------------------------------------------
(* Progress.                                                               *)

\* What the recorded epochs cost together.
Paid(rows) == [n \in DOMAIN rows |-> IF rows[n] = None THEN 0 ELSE rows[n]]
Total(rows) == MapThenSumSet(LAMBDA n : IF rows[n] = None THEN 0 ELSE rows[n], DOMAIN rows)

LEMMA TotalIs ==
  ASSUME NEW rows, IsFiniteSet(DOMAIN rows)
  PROVE  \E it : SumsOn(Paid(rows), DOMAIN rows, it) /\ Total(rows) = it[DOMAIN rows]
<1> DEFINE D == DOMAIN rows
           Eq(it) == it = [s \in SUBSET D |->
                       IF s = {} THEN 0
                       ELSE LET x == CHOOSE x \in s : TRUE
                            IN (IF rows[x] = None THEN 0 ELSE rows[x]) + it[s \ {x}]]
<1>1. Total(rows) = (CHOOSE it : Eq(it))[D]
  BY DEF Total, MapThenSumSet, MapThenFoldSet
<1>2. ASSUME NEW it PROVE Eq(it) <=> SumsOn(Paid(rows), D, it)
  <2>1. ASSUME NEW s \in SUBSET D, s # {}
        PROVE Paid(rows)[Some(s)] = IF rows[Some(s)] = None THEN 0 ELSE rows[Some(s)]
    BY <2>1, SomeIs DEF Paid
  <2>2. ASSUME NEW s \in SUBSET D
        PROVE (IF s = {} THEN 0
                       ELSE LET x == CHOOSE x \in s : TRUE
                            IN (IF rows[x] = None THEN 0 ELSE rows[x]) + it[s \ {x}])
              = IF s = {} THEN 0 ELSE Paid(rows)[Some(s)] + it[s \ {Some(s)}]
    <3>1. CASE s = {}
      BY <3>1, Zenon
    <3>2. CASE s # {}
      <4>1. Paid(rows)[Some(s)] = IF rows[Some(s)] = None THEN 0 ELSE rows[Some(s)]
        BY <2>1, <3>2
      <4> QED BY <3>2, <4>1, Zenon DEF Some
    <3> QED BY <3>1, <3>2
  <2> QED BY <2>2, Zenon DEF SumsOn
<1>3. \E it : Eq(it)
  <2> HIDE DEF Eq
  <2> QED BY <1>2, SumsExist
<1>4. Eq(CHOOSE it : Eq(it))
  <2> HIDE DEF Eq
  <2> QED BY <1>3, Zenon
<1> HIDE DEF Eq
<1> QED BY <1>1, <1>2, <1>4

LEMMA TotalOfMore ==
  ASSUME NEW rows, IsFiniteSet(DOMAIN rows), \A n \in DOMAIN rows : rows[n] \in Nat \cup {None},
         NEW n, NEW cost \in Nat \cup {None}, NEW more, more = With(rows, n, cost)
  PROVE  /\ Total(rows) \in Nat /\ Total(more) \in Nat
         /\ Total(more) <= Total(rows) + IF cost = None THEN 0 ELSE cost
<1> DEFINE D == DOMAIN rows
           E == DOMAIN more
           spent == IF cost = None THEN 0 ELSE cost
<1>1. /\ E = D \cup {n} /\ more[n] = cost /\ \A k \in E : k # n => k \in D /\ more[k] = rows[k]
  BY DEF With
<1>2. IsFiniteSet(D) /\ IsFiniteSet(E)
  BY <1>1, FS_AddElement
<1>3. PICK it : SumsOn(Paid(rows), D, it) /\ Total(rows) = it[D]
  BY TotalIs
<1>4. PICK jt : SumsOn(Paid(more), E, jt) /\ Total(more) = jt[E]
  BY <1>2, TotalIs
<1>5. \A k \in D : Paid(rows)[k] \in Nat
  BY DEF Paid
<1>6. \A k \in E : Paid(more)[k] \in Nat
  BY <1>1 DEF Paid
<1>7. Paid(more)[n] = spent /\ spent \in Nat
  BY <1>1 DEF Paid
<1>8. \A k \in E \ {n} : Paid(more)[k] = Paid(rows)[k]
  BY <1>1 DEF Paid
<1>9. E \ {n} = D \ {n} /\ n \in E
  BY <1>1
<1> HIDE DEF D, E, spent
<1>10. jt[E] = spent + jt[E \ {n}] /\ jt[E] \in Nat /\ jt[E \ {n}] \in Nat
  <2>1. \A S \in SUBSET E : jt[S] \in Nat /\ \A y \in S : jt[S] = Paid(more)[y] + jt[S \ {y}]
    BY <1>2, <1>4, <1>6, SumsAdd
  <2>2. E \ {n} \in SUBSET E /\ E \in SUBSET E
    OBVIOUS
  <2> QED BY <1>7, <1>9, <2>1, <2>2
<1>11. jt[E \ {n}] = it[D \ {n}]
  <2> DEFINE S == E \ {n}
  <2>1. S \in SUBSET (E \cap D) /\ S = D \ {n}
    BY <1>9
  <2>2. SumsOn(Paid(rows), D, it) /\ SumsOn(Paid(more), E, jt)
    BY <1>3, <1>4
  <2>3. \A x \in S : Paid(more)[x] = Paid(rows)[x]
    BY <1>8
  <2> HIDE DEF S
  <2>4. jt[S] = it[S]
    BY <1>2, <2>1, <2>2, <2>3, SumsSame
  <2> QED BY <2>1, <2>4 DEF S
<1>12. it[D] \in Nat /\ it[D \ {n}] <= it[D] /\ it[D \ {n}] \in Nat
  <2>1. \A S \in SUBSET D : it[S] \in Nat /\ \A y \in S : it[S] = Paid(rows)[y] + it[S \ {y}]
    BY <1>2, <1>3, <1>5, SumsAdd
  <2>0. D \in SUBSET D /\ D \ {n} \in SUBSET D
    OBVIOUS
  <2>2. CASE n \in D
    <3>1. it[D] = Paid(rows)[n] + it[D \ {n}] /\ Paid(rows)[n] \in Nat
      BY <1>5, <2>0, <2>1, <2>2
    <3>2. it[D] \in Nat /\ it[D \ {n}] \in Nat
      BY <2>0, <2>1
    <3>3. \A a, b, c \in Nat : a = b + c => c <= a
      OBVIOUS
    <3> QED BY <3>1, <3>2, <3>3
  <2>3. CASE n \notin D
    <3>1. D \ {n} = D
      BY <2>3
    <3>2. it[D] \in Nat
      BY <2>0, <2>1
    <3>3. it[D \ {n}] = it[D]
      BY <3>1
    <3> QED BY <3>2, <3>3
  <2> QED BY <2>2, <2>3
<1> QED BY <1>3, <1>4, <1>7, <1>10, <1>11, <1>12 DEF spent

-----------------------------------------------------------------------------
Marks == Nat \cup {None}
ProgressTypeOK ==
  /\ clock \in Nat /\ missed \in BOOLEAN
  /\ printed \in [epoch : 0..(RunEpochs - 1), started : BOOLEAN, out : BOOLEAN, over : BOOLEAN]
  /\ tracker \in [have : BOOLEAN, last : Nat, at : Nat, rate : Nat]
  /\ wrote \in [at : Marks, epochAt : Marks, figure : Marks]
  /\ runRow \in [epoch : Marks, rate : Marks, figure : Marks]
  /\ DOMAIN epochRows \subseteq 0..(RunEpochs - 1)
  /\ \A n \in DOMAIN epochRows : epochRows[n] \in Marks
  /\ DOMAIN arrived \subseteq 0..(RunEpochs - 1)
  /\ \A n \in DOMAIN arrived : arrived[n] \in Nat

\* The tracker stands at the last epoch that was seen.
TrackerTells ==
  /\ tracker.have <=> DOMAIN arrived # {}
  /\ tracker.have =>
       /\ tracker.last \in DOMAIN arrived /\ tracker.at = arrived[tracker.last]
       /\ \A k \in DOMAIN arrived : k <= tracker.last
       /\ tracker.last <= printed.epoch
\* Its rate is between two of the costs.
RateBetween ==
  tracker.rate > 0 => \E lo, hi \in Costs : lo <= tracker.rate /\ tracker.rate <= hi
\* A flush wrote what the tracker and the last figure say.
FlushTold ==
  printed.over /\ tracker.have /\ ~missed =>
    /\ runRow.epoch = tracker.last
    /\ wrote.figure # None => runRow.figure = wrote.figure
\* The recorded costs are of the time before the last figure.
Spends(total, mark, now) ==
  /\ mark # None => mark <= now
  /\ total <= IF mark = None THEN now ELSE mark
SpentBefore == Spends(Total(epochRows), wrote.epochAt, clock)

ProgressInv == ProgressTypeOK /\ TrackerTells /\ RateBetween /\ FlushTold /\ SpentBefore

LEMMA ProgressBegins == ProgressInit => ProgressInv
<1> SUFFICES ASSUME ProgressInit PROVE ProgressInv
  OBVIOUS
<1>1. DOMAIN epochRows = {} /\ DOMAIN arrived = {}
  BY DEF ProgressInit
<1>2. ProgressTypeOK
  <2>1. 0 \in 0..(RunEpochs - 1)
    BY ProgressAssumption
  <2>2. /\ clock \in Nat /\ missed \in BOOLEAN
        /\ printed \in [epoch : 0..(RunEpochs - 1), started : BOOLEAN, out : BOOLEAN,
                        over : BOOLEAN]
    BY <2>1 DEF ProgressInit, RunsFrom
  <2>3. /\ tracker \in [have : BOOLEAN, last : Nat, at : Nat, rate : Nat]
        /\ wrote \in [at : Marks, epochAt : Marks, figure : Marks]
        /\ runRow \in [epoch : Marks, rate : Marks, figure : Marks]
    BY DEF ProgressInit, Marks, Unseen, Unsaid
  <2> QED BY <1>1, <2>2, <2>3 DEF ProgressTypeOK
<1>3. TrackerTells /\ RateBetween /\ FlushTold
  BY <1>1 DEF ProgressInit, TrackerTells, RateBetween, FlushTold, RunsFrom, Unseen
<1>4. Total(epochRows) = 0
  <2>1. IsFiniteSet({})
    BY FS_EmptySet
  <2>2. PICK it : SumsOn(Paid(epochRows), {}, it) /\ Total(epochRows) = it[{}]
    BY <1>1, <2>1, TotalIs
  <2> QED BY <2>2 DEF SumsOn
<1>5. SpentBefore
  BY <1>4 DEF ProgressInit, SpentBefore, Spends, Unsaid
<1> QED BY <1>2, <1>3, <1>5 DEF ProgressInv

LEMMA PassIs ==
  ASSUME ProgressTypeOK, Pass
  PROVE  clock' \in Nat /\ clock <= clock' /\ ~printed.over
BY ProgressAssumption DEF ProgressTypeOK, Pass

LEMMA DivIs == ASSUME NEW a \in Int, NEW b \in Nat, b > 0 PROVE a \div b \in Int
OBVIOUS

\* The costs are numbers, finitely many.
Gap(seen, p) == (Unit * (seen[p[1]] - seen[p[2]])) \div (p[1] - p[2])
Steps(seen) ==
  {q \in (DOMAIN seen) \X (DOMAIN seen) :
     q[2] < q[1] /\ \A k \in DOMAIN seen : ~(q[2] < k /\ k < q[1])}
LEMMA CostsAre ==
  /\ Costs = {Gap(arrived, p) : p \in Steps(arrived)}
  /\ ProgressTypeOK => Costs \subseteq Int /\ IsFiniteSet(Costs)
<1>1. Costs = {Gap(arrived, p) : p \in Steps(arrived)}
  BY DEF Costs, Gap, Steps
<1>2. ASSUME ProgressTypeOK PROVE Costs \subseteq Int /\ IsFiniteSet(Costs)
  <2> DEFINE D == DOMAIN arrived
  <2>1. IsFiniteSet(0..(RunEpochs - 1))
    BY ProgressAssumption, FS_Interval
  <2>2. IsFiniteSet(D)
    BY <1>2, <2>1, FS_Subset DEF ProgressTypeOK
  <2>3. IsFiniteSet(D \X D)
    BY <2>2, FS_Product
  <2>4. IsFiniteSet(Steps(arrived))
    BY <2>3, FS_Subset DEF Steps
  <2> DEFINE g == [p \in Steps(arrived) |-> Gap(arrived, p)]
  <2>5. \A p \in Steps(arrived) : Gap(arrived, p) \in Int
    <3> SUFFICES ASSUME NEW p \in Steps(arrived) PROVE Gap(arrived, p) \in Int
      OBVIOUS
    <3>1. p[1] \in D /\ p[2] \in D /\ p[2] < p[1]
      BY DEF Steps
    <3>2. arrived[p[1]] \in Nat /\ arrived[p[2]] \in Nat /\ p[1] \in Nat /\ p[2] \in Nat
      BY <1>2, <3>1, ProgressAssumption DEF ProgressTypeOK
    <3>3. Unit * (arrived[p[1]] - arrived[p[2]]) \in Int /\ p[1] - p[2] \in Nat /\ p[1] - p[2] > 0
      BY <3>1, <3>2 DEF Unit
    <3> QED BY <3>3, DivIs DEF Gap
  <2>6. Costs \subseteq Int
    BY <1>1, <2>5
  <2>7. g \in Surjection(Steps(arrived), Costs)
    <3>1. g \in [Steps(arrived) -> Costs]
      BY <1>1
    <3>2. \A c \in Costs : \E p \in Steps(arrived) : g[p] = c
      BY <1>1
    <3> HIDE DEF g
    <3> QED BY <3>1, <3>2 DEF Surjection
  <2> HIDE DEF g
  <2>8. IsFiniteSet(Costs)
    BY <2>4, <2>7, FS_Surjection
  <2> QED BY <2>6, <2>8
<1> QED BY <1>1, <1>2

-----------------------------------------------------------------------------
\* What the other figures say of the tracker and the rows, when nothing they rest on moves.
LEMMA RateStands ==
  ASSUME RateBetween, UNCHANGED arrived, tracker'.rate = tracker.rate
  PROVE  RateBetween'
BY DEF RateBetween, Costs, Unit

\* A new epoch leaves the costs that were, and adds the one of its own.
LEMMA CostsGrow ==
  ASSUME ProgressTypeOK, TrackerTells, tracker.have, NEW ep \in 0..(RunEpochs - 1),
         tracker.last < ep, NEW t \in Nat, arrived' = With(arrived, ep, t)
  PROVE  /\ Costs \subseteq Costs'
         /\ (Unit * (t - tracker.at)) \div (ep - tracker.last) \in Costs'
<1> DEFINE D == DOMAIN arrived
           last == tracker.last
<1>1. /\ DOMAIN arrived' = D \cup {ep} /\ arrived'[ep] = t
      /\ \A k \in D : k # ep => arrived'[k] = arrived[k]
  BY DEF With
<1>2. \A k \in D : k \in Nat /\ k <= last /\ k < ep
  BY ProgressAssumption DEF ProgressTypeOK, TrackerTells
<1>3. last \in D /\ tracker.at = arrived[last] /\ last \in Nat
  BY <1>2 DEF TrackerTells
<1>4. Costs = {Gap(arrived, p) : p \in Steps(arrived)}
  BY CostsAre
<1>5. Costs' = {Gap(arrived', p) : p \in Steps(arrived')}
  BY DEF Costs, Gap, Steps
<1>6. ASSUME NEW p \in Steps(arrived)
      PROVE  p \in Steps(arrived') /\ Gap(arrived', p) = Gap(arrived, p)
  <2>1. p \in D \X D /\ p[2] < p[1] /\ \A k \in D : ~(p[2] < k /\ k < p[1])
    BY DEF Steps
  <2>2. p[1] \in D /\ p[2] \in D /\ p[1] # ep /\ p[2] # ep /\ p[1] < ep /\ p[1] \in Nat
    BY <1>2, <2>1, ProgressAssumption
  <2>3. ~(ep < p[1])
    BY <2>2, ProgressAssumption
  <2>4. \A k \in DOMAIN arrived' : ~(p[2] < k /\ k < p[1])
    BY <1>1, <2>1, <2>3
  <2>5. p \in (DOMAIN arrived') \X (DOMAIN arrived')
    BY <1>1, <2>1
  <2>6. arrived'[p[1]] = arrived[p[1]] /\ arrived'[p[2]] = arrived[p[2]]
    BY <1>1, <2>2
  <2> QED BY <2>1, <2>4, <2>5, <2>6 DEF Steps, Gap
<1>7. Costs \subseteq Costs'
  <2> HIDE DEF D
  <2> QED BY <1>4, <1>5, <1>6
<1>8. <<ep, last>> \in Steps(arrived')
  <2>1. \A k \in DOMAIN arrived' : ~(last < k /\ k < ep)
    BY <1>1, <1>2, <1>3, ProgressAssumption
  <2>2. <<ep, last>> \in (DOMAIN arrived') \X (DOMAIN arrived')
    BY <1>1, <1>3
  <2> QED BY <2>1, <2>2 DEF Steps
<1>9. Gap(arrived', <<ep, last>>) = (Unit * (t - tracker.at)) \div (ep - last)
  <2>1. last # ep
    BY <1>2, <1>3, ProgressAssumption
  <2> QED BY <1>1, <1>3, <2>1 DEF Gap
<1> QED BY <1>5, <1>7, <1>8, <1>9

LEMMA MixedBetween ==
  ASSUME NEW r \in Int, NEW d \in Int, NEW lo \in Int, NEW hi \in Int,
         lo <= r, r <= hi, lo <= d, d <= hi
  PROVE  (7 * r + 3 * d) \div 10 \in Int /\ lo <= (7 * r + 3 * d) \div 10
         /\ (7 * r + 3 * d) \div 10 <= hi
<1> DEFINE m == 7 * r + 3 * d
<1>1. m \in Int /\ 10 * lo <= m /\ m <= 10 * hi
  OBVIOUS
<1> HIDE DEF m
<1>2. m \div 10 \in Int /\ lo <= m \div 10 /\ m \div 10 <= hi
  BY <1>1
<1> QED BY <1>2 DEF m

LEMMA EpochSeen ==
  ASSUME ProgressInv, EpochLine
  PROVE  /\ tracker' \in [have : BOOLEAN, last : Nat, at : Nat, rate : Nat]
         /\ DOMAIN arrived' \subseteq 0..(RunEpochs - 1)
         /\ \A n \in DOMAIN arrived' : arrived'[n] \in Nat
         /\ TrackerTells' /\ RateBetween'
<1> DEFINE ep == printed.epoch
           D == DOMAIN arrived
<1>1. ProgressTypeOK /\ TrackerTells /\ RateBetween
  BY DEF ProgressInv
<1>2. Pass /\ tracker' = Observed(tracker, ep) /\ printed'.epoch = ep
      /\ arrived' = IF ep \in D THEN arrived ELSE With(arrived, ep, clock')
  BY <1>1 DEF EpochLine, ProgressTypeOK
<1>3. clock' \in Nat /\ clock <= clock'
  BY <1>1, <1>2, PassIs
<1>4. ep \in 0..(RunEpochs - 1) /\ ep \in Nat
  BY <1>1, ProgressAssumption DEF ProgressTypeOK
<1>5. \A k \in D : k \in 0..(RunEpochs - 1) /\ k \in Nat /\ arrived[k] \in Nat
  BY <1>1, ProgressAssumption DEF ProgressTypeOK
<1>6. tracker \in [have : BOOLEAN, last : Nat, at : Nat, rate : Nat]
  BY <1>1 DEF ProgressTypeOK
<1>7. ASSUME ep \notin D
      PROVE  /\ arrived' = With(arrived, ep, clock') /\ DOMAIN arrived' = D \cup {ep}
             /\ arrived'[ep] = clock' /\ \A k \in D : arrived'[k] = arrived[k]
  BY <1>2, <1>7 DEF With
<1> HIDE DEF ep, D
<1>8. CASE ~tracker.have
  <2>1. D = {}
    BY <1>1, <1>8 DEF TrackerTells, D
  <2>2. tracker' = [have |-> TRUE, last |-> ep, at |-> clock', rate |-> 0]
    BY <1>2, <1>8 DEF Observed
  <2>3. DOMAIN arrived' = {ep} /\ arrived'[ep] = clock'
    BY <1>7, <2>1
  <2>4. TrackerTells'
    BY <1>2, <1>4, <2>2, <2>3 DEF TrackerTells
  <2>5. RateBetween'
    BY <2>2 DEF RateBetween
  <2> QED BY <1>3, <1>4, <2>2, <2>3, <2>4, <2>5
<1>9. CASE tracker.have /\ ep <= tracker.last
  <2>1. tracker.last = ep /\ ep \in D
    BY <1>1, <1>4, <1>6, <1>9 DEF TrackerTells, ep, D
  <2>2. tracker' = tracker /\ arrived' = arrived
    BY <1>2, <1>9, <2>1 DEF Observed
  <2>3. TrackerTells'
    BY <1>1, <1>2, <2>2 DEF TrackerTells, ep
  <2>4. RateBetween'
    BY <1>1, <2>2, RateStands
  <2> QED BY <1>1, <1>6, <2>2, <2>3, <2>4 DEF ProgressTypeOK
<1>10. CASE tracker.have /\ ~(ep <= tracker.last)
  <2>1. tracker.last \in Nat /\ tracker.last < ep /\ tracker.at \in Nat
    BY <1>4, <1>6, <1>10
  <2>2. ep \notin D
    BY <1>1, <1>4, <1>10, <2>1 DEF TrackerTells, D
  <2> DEFINE d == (Unit * (clock' - tracker.at)) \div (ep - tracker.last)
             r == IF d <= Unit * Burst THEN tracker.rate
                  ELSE IF tracker.rate = 0 THEN d ELSE (7 * tracker.rate + 3 * d) \div 10
  <2>3. d \in Int
    <3>1. Unit * (clock' - tracker.at) \in Int /\ ep - tracker.last \in Nat
          /\ ep - tracker.last > 0
      BY <1>3, <1>4, <2>1 DEF Unit
    <3> QED BY <3>1, DivIs
  <2>4. tracker' = [tracker EXCEPT !.last = ep, !.at = clock', !.rate = r]
    BY <1>2, <1>10 DEF Observed, Since
  <2>5. Costs \subseteq Costs' /\ d \in Costs'
    <3>1. arrived' = With(arrived, ep, clock')
      BY <1>7, <2>2
    <3> QED BY <1>1, <1>3, <1>4, <1>10, <2>1, <3>1, CostsGrow
  <2> HIDE DEF d
  <2>6. Costs \subseteq Int
    BY <1>1, CostsAre
  <2>7. tracker.rate \in Nat
    BY <1>6
  <2>8. r \in Nat /\ (r > 0 => \E lo, hi \in Costs' : lo <= r /\ r <= hi)
    <3>1. CASE d <= Unit * Burst
      <4>1. r = tracker.rate
        BY <3>1
      <4> QED BY <1>1, <2>5, <2>7, <4>1 DEF RateBetween
    <3>2. CASE ~(d <= Unit * Burst) /\ tracker.rate = 0
      <4>1. r = d /\ d \in Nat
        BY <2>3, <3>2 DEF Unit, Burst
      <4> QED BY <2>5, <4>1
    <3>3. CASE ~(d <= Unit * Burst) /\ tracker.rate # 0
      <4>1. r = (7 * tracker.rate + 3 * d) \div 10 /\ d \in Nat
        BY <2>3, <3>3 DEF Unit, Burst
      <4>2. PICK a \in Costs, b \in Costs : a <= tracker.rate /\ tracker.rate <= b
        BY <1>1, <2>7, <3>3 DEF RateBetween
      <4>3. a \in Int /\ b \in Int /\ a \in Costs' /\ b \in Costs'
        BY <2>5, <2>6
      <4> DEFINE lo == IF a <= d THEN a ELSE d
                 hi == IF d <= b THEN b ELSE d
      <4>4. /\ lo \in Int /\ hi \in Int /\ lo \in Costs' /\ hi \in Costs'
            /\ lo <= tracker.rate /\ tracker.rate <= hi /\ lo <= d /\ d <= hi
        BY <2>3, <2>5, <2>7, <4>2, <4>3
      <4> HIDE DEF lo, hi, r
      <4>5. lo <= r /\ r <= hi
        BY <2>3, <2>7, <4>1, <4>4, MixedBetween
      <4>6. r \in Nat
        BY <2>7, <4>1
      <4> QED BY <4>4, <4>5, <4>6
    <3> QED BY <3>1, <3>2, <3>3
  <2> HIDE DEF r
  <2>9. /\ tracker' \in [have : BOOLEAN, last : Nat, at : Nat, rate : Nat]
        /\ tracker'.have /\ tracker'.last = ep /\ tracker'.at = clock' /\ tracker'.rate = r
    BY <1>3, <1>4, <1>6, <1>10, <2>4, <2>8
  <2>10. DOMAIN arrived' = D \cup {ep} /\ arrived'[ep] = clock'
         /\ \A k \in D : arrived'[k] = arrived[k]
    BY <1>7, <2>2
  <2>11. \A k \in DOMAIN arrived' : k <= ep
    <3>1. \A k \in D : k <= tracker.last
      BY <1>1, <1>10 DEF TrackerTells, D
    <3> QED BY <1>4, <1>5, <2>1, <2>10, <3>1
  <2>12. TrackerTells'
    BY <1>2, <1>4, <2>9, <2>10, <2>11 DEF TrackerTells
  <2>13. RateBetween'
    BY <2>8, <2>9 DEF RateBetween
  <2> QED BY <1>3, <1>4, <1>5, <2>9, <2>10, <2>12, <2>13
<1> QED BY <1>8, <1>9, <1>10

LEMMA RowsAre ==
  ASSUME ProgressTypeOK
  PROVE  IsFiniteSet(DOMAIN epochRows) /\ Total(epochRows) \in Nat
<1>1. IsFiniteSet(DOMAIN epochRows)
  <2>1. IsFiniteSet(0..(RunEpochs - 1))
    BY ProgressAssumption, FS_Interval
  <2> QED BY <2>1, FS_Subset DEF ProgressTypeOK
<1>2. \A n \in DOMAIN epochRows : epochRows[n] \in Nat \cup {None}
  BY DEF ProgressTypeOK, Marks
<1>3. None \in Nat \cup {None}
  OBVIOUS
<1>4. Total(epochRows) \in Nat
  <2> DEFINE more == With(epochRows, 0, None)
  <2>1. more = With(epochRows, 0, None)
    OBVIOUS
  <2> HIDE DEF more
  <2> QED BY <1>1, <1>2, <1>3, <2>1, TotalOfMore
<1> QED BY <1>1, <1>4

\* Time may pass, and a mark be forgotten or set anew.
LEMMA SpendsOn ==
  ASSUME NEW total \in Nat, NEW mark \in Marks, NEW now \in Nat, NEW later \in Nat,
         now <= later, Spends(total, mark, now)
  PROVE  /\ Spends(total, mark, later) /\ Spends(total, None, later)
         /\ Spends(total, later, later)
BY TroubleAssumption DEF Spends, Marks

LEMMA ToldIs ==
  ASSUME ProgressTypeOK, NEW t \in [have : BOOLEAN, last : Nat, at : Nat, rate : Nat]
  PROVE  Told(t) \in [epoch : Marks, rate : Marks, figure : Marks]
BY DEF ProgressTypeOK, Told, Rate, Marks

LEMMA ProgressKept == ProgressInv /\ [ProgressNext]_progressVars => ProgressInv'
<1> SUFFICES ASSUME ProgressInv, [ProgressNext]_progressVars PROVE ProgressInv'
  OBVIOUS
<1> USE DEF ProgressInv
<1>0. /\ Total(epochRows) \in Nat /\ IsFiniteSet(DOMAIN epochRows)
      /\ wrote.epochAt \in Marks /\ clock \in Nat /\ clock <= clock
      /\ Spends(Total(epochRows), wrote.epochAt, clock)
  BY RowsAre DEF ProgressTypeOK, SpentBefore
<1>1. CASE EpochLine
  <2>1. clock' \in Nat /\ clock <= clock' /\ ~printed.over
    BY <1>1, PassIs DEF EpochLine
  <2>2. /\ printed' = [printed EXCEPT !.started = TRUE] /\ UNCHANGED epochRows
        /\ wrote'.epochAt = wrote.epochAt
    BY <1>1 DEF EpochLine, ProgressTypeOK
  <2>3. /\ wrote' \in [at : Marks, epochAt : Marks, figure : Marks]
        /\ runRow' \in [epoch : Marks, rate : Marks, figure : Marks] /\ missed' \in BOOLEAN
    <3>1. Told(tracker') \in [epoch : Marks, rate : Marks, figure : Marks]
      BY <1>1, EpochSeen, ToldIs
    <3>2. clock' \in Marks
      BY <2>1 DEF Marks
    <3> QED BY <1>1, <3>1, <3>2 DEF EpochLine, Stated, ProgressTypeOK
  <2>4. ProgressTypeOK'
    BY <1>1, <2>1, <2>2, <2>3, EpochSeen DEF ProgressTypeOK
  <2>5. FlushTold'
    BY <2>1, <2>2 DEF FlushTold, ProgressTypeOK
  <2>7. SpentBefore'
    BY <1>0, <2>1, <2>2, SpendsOn DEF SpentBefore
  <2> QED BY <1>1, <2>4, <2>5, <2>7, EpochSeen
<1>2. CASE FigureLine
  <2>1. clock' \in Nat /\ clock <= clock' /\ ~printed.over
    BY <1>2, PassIs DEF FigureLine
  <2>2. /\ printed' = [printed EXCEPT !.out = TRUE] /\ UNCHANGED <<tracker, runRow, arrived>>
        /\ wrote' = [wrote EXCEPT !.epochAt = clock', !.figure = printed.epoch]
        /\ missed' \in BOOLEAN
        /\ epochRows' = epochRows \/ epochRows' = With(epochRows, printed.epoch, Cost)
    BY <1>2 DEF FigureLine, Stated, ProgressTypeOK
  <2>3. Cost \in Marks
    BY <2>1 DEF Cost, Positive, Marks, ProgressTypeOK
  <2>4. wrote' \in [at : Marks, epochAt : Marks, figure : Marks] /\ wrote'.epochAt = clock'
    <3>1. clock' \in Marks /\ printed.epoch \in Marks
      <4>1. 0..(RunEpochs - 1) \subseteq Nat
        BY ProgressAssumption
      <4> QED BY <2>1, <4>1 DEF ProgressTypeOK, Marks
    <3> QED BY <2>2, <3>1 DEF ProgressTypeOK
  <2>5. /\ DOMAIN epochRows' \subseteq 0..(RunEpochs - 1)
        /\ \A n \in DOMAIN epochRows' : epochRows'[n] \in Marks
    <3>1. CASE epochRows' = epochRows
      BY <3>1 DEF ProgressTypeOK
    <3>2. CASE epochRows' = With(epochRows, printed.epoch, Cost)
      BY <2>3, <3>2 DEF ProgressTypeOK, With
    <3> QED BY <2>2, <3>1, <3>2
  <2>6. ProgressTypeOK'
    BY <2>1, <2>2, <2>4, <2>5 DEF ProgressTypeOK
  <2>7. TrackerTells' /\ RateBetween' /\ FlushTold'
    BY <2>1, <2>2, RateStands DEF TrackerTells, FlushTold, ProgressTypeOK
  <2>8. Total(epochRows)' <= clock'
    <3>1. CASE epochRows' = epochRows
      <4>1. Spends(Total(epochRows), None, clock')
        BY <1>0, <2>1, SpendsOn
      <4> QED BY <3>1, <4>1 DEF Spends
    <3>2. CASE epochRows' = With(epochRows, printed.epoch, Cost)
      <4> DEFINE cost == Cost
                 more == epochRows'
      <4>1. \A n \in DOMAIN epochRows : epochRows[n] \in Nat \cup {None}
        BY DEF ProgressTypeOK, Marks
      <4>2. cost \in Nat \cup {None} /\ more = With(epochRows, printed.epoch, cost)
        BY <2>3, <3>2 DEF Marks
      <4>3. cost # None => wrote.epochAt \in Nat /\ cost = clock' - wrote.epochAt
        BY <2>1 DEF Cost, Positive, Marks, ProgressTypeOK
      <4> HIDE DEF cost, more
      <4>4. /\ Total(more) \in Nat
            /\ Total(more) <= Total(epochRows) + IF cost = None THEN 0 ELSE cost
        BY <1>0, <4>1, <4>2, TotalOfMore
      <4>5. Total(epochRows) <= IF wrote.epochAt = None THEN clock ELSE wrote.epochAt
        BY DEF SpentBefore, Spends
      <4>6. Total(more) <= clock'
        <5>1. CASE cost = None
          <6>1. Spends(Total(epochRows), None, clock')
            BY <1>0, <2>1, SpendsOn
          <6> QED BY <1>0, <2>1, <4>4, <5>1, <6>1 DEF Spends
        <5>2. CASE cost # None
          <6>1. wrote.epochAt # None /\ cost \in Nat
            BY <4>2, <4>3, <5>2, TroubleAssumption
          <6> QED BY <1>0, <2>1, <4>3, <4>4, <4>5, <5>2, <6>1
        <5> QED BY <5>1, <5>2
      <4> QED BY <4>6 DEF more
    <3> QED BY <2>2, <3>1, <3>2
  <2>9. SpentBefore'
    <3>1. SpentBefore' = Spends(Total(epochRows)', wrote'.epochAt, clock')
      BY DEF SpentBefore
    <3>2. clock' <= clock'
      BY <2>1
    <3> QED BY <2>4, <2>8, <3>1, <3>2 DEF Spends
  <2> QED BY <2>6, <2>7, <2>9
<1>3. CASE NanLine
  <2>1. clock' \in Nat /\ clock <= clock' /\ ~printed.over
    BY <1>3, PassIs DEF NanLine
  <2>2. /\ printed' = [printed EXCEPT !.out = TRUE]
        /\ UNCHANGED <<tracker, wrote, runRow, epochRows, arrived, missed, faults>>
    BY <1>3 DEF NanLine
  <2>3. ProgressTypeOK'
    BY <2>1, <2>2 DEF ProgressTypeOK
  <2>4. TrackerTells' /\ RateBetween' /\ FlushTold'
    BY <2>1, <2>2, RateStands DEF TrackerTells, FlushTold, ProgressTypeOK
  <2>5. SpentBefore'
    BY <1>0, <2>1, <2>2, SpendsOn DEF SpentBefore
  <2> QED BY <2>3, <2>4, <2>5
<1>4. CASE NextEpoch
  <2>1. /\ ~printed.over /\ printed' = RunsFrom(printed.epoch + 1)
        /\ printed.epoch + 1 < RunEpochs
        /\ UNCHANGED <<clock, tracker, wrote, runRow, epochRows, arrived, missed, faults>>
    BY <1>4 DEF NextEpoch
  <2>2. /\ printed' \in [epoch : 0..(RunEpochs - 1), started : BOOLEAN, out : BOOLEAN,
                         over : BOOLEAN]
        /\ printed'.epoch = printed.epoch + 1 /\ ~printed'.over /\ printed.epoch \in Nat
    BY <2>1, ProgressAssumption DEF ProgressTypeOK, RunsFrom
  <2>3. ProgressTypeOK'
    BY <2>1, <2>2 DEF ProgressTypeOK
  <2>4. TrackerTells' /\ RateBetween' /\ FlushTold'
    BY <2>1, <2>2, RateStands DEF TrackerTells, FlushTold, ProgressTypeOK
  <2>5. SpentBefore'
    BY <2>1 DEF SpentBefore
  <2> QED BY <2>3, <2>4, <2>5
<1>5. CASE Flush
  <2>1. /\ printed' = [printed EXCEPT !.over = TRUE]
        /\ UNCHANGED <<clock, tracker, wrote, epochRows, arrived>>
    BY <1>5 DEF Flush
  <2>2. /\ missed' \in BOOLEAN
        /\ runRow' = runRow \/ runRow' = Told(tracker)
        /\ tracker.have /\ ~missed' => runRow' = Told(tracker)
    BY <1>5 DEF Flush, Stated, ProgressTypeOK
  <2>3. Told(tracker) \in [epoch : Marks, rate : Marks, figure : Marks]
    BY ToldIs DEF ProgressTypeOK
  <2>4. ProgressTypeOK'
    BY <2>1, <2>2, <2>3 DEF ProgressTypeOK
  <2>5. FlushTold'
    BY <2>1, <2>2 DEF FlushTold, Told
  <2>6. TrackerTells' /\ RateBetween'
    BY <2>1, RateStands DEF TrackerTells, ProgressTypeOK
  <2>7. SpentBefore'
    BY <2>1 DEF SpentBefore
  <2> QED BY <2>4, <2>5, <2>6, <2>7
<1>6. CASE NewRun
  <2>1. /\ tracker' = Unseen /\ wrote' = Unsaid /\ arrived' = <<>> /\ missed' = FALSE
        /\ UNCHANGED <<clock, epochRows, faults>>
        /\ runRow' = [runRow EXCEPT !.epoch = None, !.rate = None]
    BY <1>6 DEF NewRun
  <2>2. PICK n \in {0} \cup {e + 1 : e \in DOMAIN epochRows} : n < RunEpochs
        /\ printed' = RunsFrom(n)
    BY <1>6 DEF NewRun
  <2>3. n \in 0..(RunEpochs - 1)
    BY <2>2, ProgressAssumption DEF ProgressTypeOK
  <2>4. DOMAIN arrived' = {}
    BY <2>1
  <2>5. /\ tracker' \in [have : BOOLEAN, last : Nat, at : Nat, rate : Nat]
        /\ ~tracker'.have /\ tracker'.rate = 0
        /\ wrote' \in [at : Marks, epochAt : Marks, figure : Marks] /\ wrote'.epochAt = None
        /\ runRow' \in [epoch : Marks, rate : Marks, figure : Marks]
    BY <2>1 DEF Unseen, Unsaid, Marks, ProgressTypeOK
  <2>6. ProgressTypeOK'
    BY <2>1, <2>2, <2>3, <2>4, <2>5 DEF ProgressTypeOK, RunsFrom
  <2>7. TrackerTells' /\ RateBetween' /\ FlushTold'
    BY <2>4, <2>5 DEF TrackerTells, RateBetween, FlushTold
  <2>8. SpentBefore'
    <3>1. Spends(Total(epochRows), None, clock)
      BY <1>0, SpendsOn
    <3> QED BY <2>1, <2>5, <3>1 DEF SpentBefore
  <2> QED BY <2>6, <2>7, <2>8
<1>7. CASE UNCHANGED progressVars
  <2>1. ProgressTypeOK' /\ TrackerTells' /\ FlushTold' /\ RateBetween' /\ SpentBefore'
    BY <1>7, RateStands DEF progressVars, ProgressTypeOK, TrackerTells, FlushTold, SpentBefore
  <2> QED BY <2>1
<1> QED BY <1>1, <1>2, <1>3, <1>4, <1>5, <1>6, <1>7 DEF ProgressNext

\* What a run says of its progress is true of it, for any number of epochs, any times and
\* any statements that fail (worker.go, epochTracker and supervise): the row a run leaves
\* names the last epoch seen and the last figure; the rate lies between two of the costs it
\* is an average of; the recorded costs together never exceed the time there was.
THEOREM ProgressStaysTold == ProgressSpec => []ProgressIsTold
<1>1. ProgressInv => ProgressIsTold
  <2> SUFFICES ASSUME ProgressInv PROVE ProgressIsTold
    OBVIOUS
  <2>0. ProgressTypeOK /\ TrackerTells /\ RateBetween /\ FlushTold /\ SpentBefore
    BY DEF ProgressInv
  <2>1. LastIsTold
    <3> SUFFICES ASSUME printed.over, tracker.have, ~missed
                 PROVE  /\ runRow.epoch = Max(DOMAIN arrived)
                        /\ wrote.figure # None => runRow.figure = wrote.figure
      BY DEF LastIsTold
    <3>1. IsFiniteSet(DOMAIN arrived) /\ DOMAIN arrived \subseteq Int
      <4>1. IsFiniteSet(0..(RunEpochs - 1)) /\ 0..(RunEpochs - 1) \subseteq Int
        BY ProgressAssumption, FS_Interval
      <4> QED BY <2>0, <4>1, FS_Subset DEF ProgressTypeOK
    <3>2. tracker.last \in DOMAIN arrived /\ \A k \in DOMAIN arrived : k <= tracker.last
      BY <2>0 DEF TrackerTells
    <3>3. Max(DOMAIN arrived) \in DOMAIN arrived
          /\ \A k \in DOMAIN arrived : k <= Max(DOMAIN arrived)
      BY <3>1, <3>2, Extremes
    <3>4. Max(DOMAIN arrived) = tracker.last
      BY <3>1, <3>2, <3>3
    <3> QED BY <2>0, <3>4 DEF FlushTold
  <2>2. RateIsAmongCosts
    <3> SUFFICES ASSUME tracker.rate > 0
                 PROVE  Min(Costs) <= tracker.rate /\ tracker.rate <= Max(Costs)
      BY DEF RateIsAmongCosts
    <3>1. PICK lo \in Costs, hi \in Costs : lo <= tracker.rate /\ tracker.rate <= hi
      BY <2>0 DEF RateBetween
    <3>2. Costs \subseteq Int /\ IsFiniteSet(Costs) /\ Costs # {}
      BY <2>0, <3>1, CostsAre
    <3>3. /\ Max(Costs) \in Costs /\ \A y \in Costs : y <= Max(Costs)
          /\ Min(Costs) \in Costs /\ \A y \in Costs : Min(Costs) <= y
      BY <3>2, Extremes
    <3>4. tracker.rate \in Nat
      BY <2>0 DEF ProgressTypeOK
    <3>5. /\ lo \in Int /\ hi \in Int /\ Max(Costs) \in Int /\ Min(Costs) \in Int
          /\ Min(Costs) <= lo /\ hi <= Max(Costs)
      BY <3>1, <3>2, <3>3
    <3>6. \A a, b, c, d, e \in Int : a <= b /\ b <= c /\ c <= d /\ d <= e => a <= c /\ c <= e
      OBVIOUS
    <3> QED BY <3>1, <3>4, <3>5, <3>6
  <2>3. CostsAreTime
    <3>1. Spends(Total(epochRows), None, clock)
      <4>1. wrote.epochAt \in Marks /\ clock \in Nat /\ clock <= clock
        BY <2>0 DEF ProgressTypeOK
      <4> QED BY <2>0, <4>1, RowsAre, SpendsOn DEF SpentBefore
    <3>2. Total(epochRows) <= clock
      BY <3>1 DEF Spends
    <3> QED BY <3>2 DEF CostsAreTime, Total
  <2> QED BY <2>1, <2>2, <2>3 DEF ProgressIsTold
<1> QED BY <1>1, ProgressBegins, ProgressKept, PTL DEF ProgressSpec

-----------------------------------------------------------------------------
(* Estimates.                                                              *)

Numbers == Nat \cup {Unknown}
Speeds == RunRates \cup {Unknown}

EstimateInv ==
  /\ instant \in Nat
  /\ going \in [running : BOOLEAN, id : Nat, epochs : Nat, start : Numbers, epoch : Numbers,
                rate : Speeds]
  /\ going.epoch # Unknown => Known(going.start, 0) <= going.epoch
  /\ IsFiniteSet(ended)
  /\ ended \subseteq [state : {"succeeded", "cancelled"}, at : Nat, id : Nat, epoch : Numbers,
                      start : Numbers, rate : Speeds]

LEMMA EstimatesBegin == EstimateInit => EstimateInv
BY FS_EmptySet, EstimatesAssumption DEF EstimateInit, EstimateInv, Idle, Numbers, Speeds

LEMMA EstimatesKept == EstimateInv /\ [EstimateNext]_estimateVars => EstimateInv'
<1> SUFFICES ASSUME EstimateInv, [EstimateNext]_estimateVars PROVE EstimateInv'
  OBVIOUS
<1> USE EstimatesAssumption
<1> DEFINE Runs == [running : BOOLEAN, id : Nat, epochs : Nat, start : Numbers,
                    epoch : Numbers, rate : Speeds]
<1>0. going \in Runs /\ Unknown \in Numbers /\ Unknown \in Speeds
  BY DEF EstimateInv, Numbers, Speeds
<1>1. CASE BeginRun
  <2>1. PICK n \in Lengths, from \in Starts :
          going' = [Idle EXCEPT !.running = TRUE, !.id = going.id + 1, !.epochs = n,
                                !.start = from]
    BY <1>1 DEF BeginRun
  <2>2. n \in Nat /\ from \in Numbers /\ going.id + 1 \in Nat
    BY <1>0 DEF Numbers
  <2>3. going' \in Runs /\ going'.epoch = Unknown
    BY <1>0, <2>1, <2>2 DEF Idle
  <2> QED BY <1>1, <2>3 DEF EstimateInv, BeginRun
<1>2. CASE ReportEpoch
  <2>1. PICK n \in Known(going.epoch, Known(going.start, 0) - 1) + 1..going.epochs - 1,
             r \in RunRates \cup {going.rate} : going' = [going EXCEPT !.epoch = n, !.rate = r]
    BY <1>2 DEF ReportEpoch
  <2>2. n \in Nat /\ Known(going.start, 0) <= n
    BY <1>0 DEF Known, EstimateInv, Numbers
  <2>3. r \in Speeds
    BY <1>0 DEF Speeds
  <2>4. going' \in Runs /\ going'.epoch = n /\ going'.start = going.start
    BY <1>0, <2>1, <2>2, <2>3 DEF Numbers
  <2> QED BY <1>2, <2>2, <2>4 DEF EstimateInv, ReportEpoch
<1>3. CASE EndRun
  <2>1. instant' \in Nat
    BY <1>3 DEF EndRun, EstimateInv
  <2>2. PICK state \in {"succeeded", "cancelled"} :
          ended' = ended \cup {[state |-> state, at |-> instant', id |-> going.id,
                                epoch |-> going.epoch, start |-> going.start,
                                rate |-> going.rate]}
    BY <1>3 DEF EndRun
  <2>3. IsFiniteSet(ended')
    BY <2>2, FS_AddElement DEF EstimateInv
  <2>4. going' = [Idle EXCEPT !.id = going.id]
    BY <1>3 DEF EndRun
  <2>5. going' \in Runs /\ going'.epoch = Unknown
    BY <1>0, <2>4 DEF Idle
  <2>6. ended' \subseteq [state : {"succeeded", "cancelled"}, at : Nat, id : Nat,
                          epoch : Numbers, start : Numbers, rate : Speeds]
    BY <1>0, <2>1, <2>2 DEF EstimateInv
  <2> QED BY <2>1, <2>3, <2>5, <2>6 DEF EstimateInv
<1>4. CASE UNCHANGED estimateVars
  BY <1>4 DEF estimateVars, EstimateInv
<1> QED BY <1>1, <1>2, <1>3, <1>4 DEF EstimateNext

LEMMA LeftIs == EstimateInv => RemainingIsLeft
<1> SUFFICES ASSUME EstimateInv
             PROVE  Remaining(going) =
                      Cardinality({n \in Known(going.start, 0)..going.epochs - 1 :
                                     n > Known(going.epoch, -1)})
  BY DEF RemainingIsLeft
<1> DEFINE s == Known(going.start, 0)
           e == going.epochs
           rest == {n \in s..e - 1 : n > Known(going.epoch, -1)}
<1>1. s \in Nat /\ e \in Nat /\ going.epoch \in Numbers
  BY DEF EstimateInv, Known, Numbers
<1>2. CASE going.epoch = Unknown
  <2>1. rest = s..(e - 1)
    <3> HIDE DEF s, e
    <3> QED BY <1>1, <1>2 DEF Known
  <2>2. Cardinality(s..(e - 1)) = IF s > e - 1 THEN 0 ELSE e - 1 - s + 1
    <3> HIDE DEF s, e
    <3> QED BY <1>1, FS_Interval
  <2>3. Remaining(going) = IF e > s THEN e - s ELSE 0
    BY <1>2 DEF Remaining
  <2> HIDE DEF s, e, rest
  <2>4. Remaining(going) = Cardinality(rest)
    BY <1>1, <2>1, <2>2, <2>3
  <2> QED BY <2>4 DEF rest, s, e
<1>3. CASE going.epoch # Unknown
  <2> DEFINE p == going.epoch
  <2>0. p \in Nat /\ s <= p /\ Known(p, -1) = p
    BY <1>1, <1>3 DEF EstimateInv, Numbers, Known
  <2>1. rest = (p + 1)..(e - 1)
    <3> HIDE DEF s, e, p
    <3>1. rest = {n \in s..e - 1 : n > p}
      BY <2>0 DEF p
    <3> QED BY <1>1, <2>0, <3>1
  <2>2. Cardinality((p + 1)..(e - 1)) = IF p + 1 > e - 1 THEN 0 ELSE e - 1 - (p + 1) + 1
    <3> HIDE DEF s, e, p
    <3> QED BY <1>1, <2>0, FS_Interval
  <2>3. Remaining(going) = IF e > p + 1 THEN e - (p + 1) ELSE 0
    BY <1>3 DEF Remaining
  <2> HIDE DEF s, e, p, rest
  <2>4. Remaining(going) = Cardinality(rest)
    BY <1>1, <2>0, <2>1, <2>2, <2>3
  <2> QED BY <2>4 DEF rest, s, e
<1> QED BY <1>2, <1>3

\* A row that counts: what it is worth, and how it stands to the others.
LEMMA CountedIs ==
  ASSUME EstimateInv
  PROVE  /\ IsFiniteSet(Counted)
         /\ \A r \in Counted : r.rate \in Nat /\ Worth(r) \in Nat /\ Worth(r) >= 1
         /\ \A r \in Counted : ~Newer(r, r)
         /\ \A r, s, q \in Counted : Newer(r, s) /\ Newer(s, q) => Newer(r, q)
<1>1. IsFiniteSet(Counted)
  BY FS_Subset DEF Counted, EstimateInv
<1>2. ASSUME NEW r \in Counted PROVE r.rate \in Nat /\ Worth(r) \in Nat /\ Worth(r) >= 1
  <2>1. r.rate \in RunRates /\ r.epoch \in Nat /\ Known(r.start, 0) \in Nat
    BY DEF Counted, Counts, EstimateInv, Numbers, Speeds, Known
  <2> DEFINE x == r.epoch + 1 - Known(r.start, 0)
  <2>2. x \in Int
    BY <2>1
  <2> HIDE DEF x
  <2>3. IsFiniteSet({1, x}) /\ {1, x} \subseteq Int
    <3>1. IsFiniteSet({1} \cup {x})
      BY FS_Singleton, FS_AddElement
    <3>2. {1} \cup {x} = {1, x}
      OBVIOUS
    <3> QED BY <2>2, <3>1, <3>2
  <2>4. Max({1, x}) \in {1, x} /\ \A y \in {1, x} : y <= Max({1, x})
    BY <2>3, Extremes
  <2>5. Max({1, x}) \in Int /\ 1 <= Max({1, x})
    BY <2>2, <2>4
  <2>6. Worth(r) = Max({1, x})
    BY DEF Worth, x
  <2>7. r.rate \in Nat
    BY <2>1, EstimatesAssumption
  <2> QED BY <2>5, <2>6, <2>7
<1>3. \A r \in Counted : r.at \in Nat /\ r.id \in Nat
  BY DEF Counted, EstimateInv
<1>4. \A r \in Counted : ~Newer(r, r)
  BY <1>3 DEF Newer
<1>5. \A r, s, q \in Counted : Newer(r, s) /\ Newer(s, q) => Newer(r, q)
  BY <1>3 DEF Newer
<1> QED BY <1>1, <1>2, <1>4, <1>5

\* The rows newer than r, and the epochs of a set of rows.
NewerThan(r) == {s \in Counted : Newer(s, r)}
EpochsOf(S) == {e \in Computed : e[1] \in S}
WorthIn(S) == [r \in S |-> Worth(r)]

LEMMA RunOf ==
  ASSUME EstimateInv, NEW r \in Counted, NEW a \in Nat, 1 <= a
  PROVE  /\ {e \in Computed : e[1] = r /\ e[2] >= a} = {r} \X (a..Worth(r))
         /\ IsFiniteSet({r} \X (a..Worth(r)))
         /\ Cardinality({r} \X (a..Worth(r))) = IF a > Worth(r) THEN 0 ELSE Worth(r) - a + 1
<1>1. Worth(r) \in Nat
  BY CountedIs
<1>2. {e \in Computed : e[1] = r /\ e[2] >= a} = {r} \X (a..Worth(r))
  <2>1. ASSUME NEW e \in Computed, e[1] = r, e[2] >= a PROVE e \in {r} \X (a..Worth(r))
    <3>1. PICK q \in Counted : e \in {q} \X (1..Worth(q))
      BY <2>1 DEF Computed
    <3>2. q = r
      BY <2>1, <3>1
    <3> QED BY <1>1, <2>1, <3>1, <3>2
  <2>2. ASSUME NEW e \in {r} \X (a..Worth(r))
        PROVE e \in Computed /\ e[1] = r /\ e[2] >= a
    <3>1. e \in {r} \X (1..Worth(r)) /\ e[1] = r /\ e[2] >= a
      BY <1>1, <2>2
    <3> QED BY <3>1 DEF Computed
  <2> QED BY <2>1, <2>2
<1>3. IsFiniteSet({r}) /\ Cardinality({r}) = 1
  BY FS_Singleton
<1>4. /\ IsFiniteSet(a..Worth(r))
      /\ Cardinality(a..Worth(r)) = IF a > Worth(r) THEN 0 ELSE Worth(r) - a + 1
  <2>1. a \in Int /\ Worth(r) \in Int
    BY <1>1
  <2> QED BY <2>1, FS_Interval
<1>5. Cardinality(a..Worth(r)) \in Nat
  BY <1>4, FS_CardinalityType
<1>6. /\ IsFiniteSet({r} \X (a..Worth(r)))
      /\ Cardinality({r} \X (a..Worth(r))) = 1 * Cardinality(a..Worth(r))
  BY <1>3, <1>4, FS_Product
<1> QED BY <1>2, <1>4, <1>5, <1>6

LEMMA ComputedIs ==
  \A e \in Computed : e[1] \in Counted /\ e[2] \in 1..Worth(e[1]) /\ e = <<e[1], e[2]>>
BY DEF Computed

\* How many epochs a set of rows has.
LEMMA EpochsAre ==
  ASSUME EstimateInv, NEW S \in SUBSET Counted
  PROVE  /\ IsFiniteSet(S) /\ IsFiniteSet(EpochsOf(S))
         /\ Cardinality(EpochsOf(S)) = SumFunction(WorthIn(S))
         /\ Cardinality(EpochsOf(S)) >= Cardinality(S)
<1>1. IsFiniteSet(S)
  BY CountedIs, FS_Subset
<1> DEFINE P == EpochsOf(S)
<1>2. Of(P, S) = P
  BY DEF Of, EpochsOf
<1>3. ASSUME NEW r \in S
      PROVE  IsFiniteSet(Of(P, {r})) /\ Cardinality(Of(P, {r})) = WorthIn(S)[r]
  <2>1. Of(P, {r}) = {e \in Computed : e[1] = r /\ e[2] >= 1}
    <3>1. \A e \in Computed : e[1] = r => e[2] >= 1
      BY ComputedIs, CountedIs
    <3> QED BY <3>1 DEF Of, EpochsOf
  <2>2. Worth(r) \in Nat /\ Worth(r) >= 1
    BY CountedIs
  <2>3. /\ Of(P, {r}) = {r} \X (1..Worth(r))
        /\ IsFiniteSet({r} \X (1..Worth(r)))
        /\ Cardinality({r} \X (1..Worth(r))) = IF 1 > Worth(r) THEN 0 ELSE Worth(r) - 1 + 1
    BY <2>1, RunOf
  <2>4. WorthIn(S)[r] = Worth(r)
    BY DEF WorthIn
  <2> HIDE DEF P
  <2>5. (IF 1 > Worth(r) THEN 0 ELSE Worth(r) - 1 + 1) = Worth(r)
    BY <2>2
  <2> QED BY <2>3, <2>4, <2>5
<1>4. PICK it : SumsOn(WorthIn(S), S, it) /\ SumFunction(WorthIn(S)) = it[S]
  <2>1. DOMAIN WorthIn(S) = S
    BY DEF WorthIn
  <2> QED BY <1>1, <2>1, SumIs
<1>5. IsFiniteSet(P) /\ Cardinality(P) = it[S]
  <2> HIDE DEF P
  <2>1. \A r \in S : IsFiniteSet(Of(P, {r})) /\ Cardinality(Of(P, {r})) = WorthIn(S)[r]
    BY <1>3
  <2>2. SumsOn(WorthIn(S), S, it)
    BY <1>4
  <2> DEFINE w == WorthIn(S)
  <2>3. Has(S, P, w) /\ SumsOn(w, S, it)
    BY <1>1, <1>2, <2>1, <2>2 DEF Has
  <2> HIDE DEF w
  <2> QED BY <2>3, PairsAre
<1>6. Cardinality(P) >= Cardinality(S)
  <2> DEFINE f == [r \in S |-> <<r, 1>>]
  <2>1. ASSUME NEW r \in S PROVE <<r, 1>> \in P
    <3>1. Worth(r) \in Nat /\ Worth(r) >= 1
      BY CountedIs
    <3>2. <<r, 1>> \in {r} \X (1..Worth(r))
      BY <3>1
    <3>3. <<r, 1>> \in Computed
      BY <3>2 DEF Computed
    <3> QED BY <3>3 DEF EpochsOf
  <2>2. f \in Injection(S, P)
    BY <2>1 DEF Injection, IsInjective
  <2> HIDE DEF f, P
  <2> QED BY <1>5, <2>2, FS_Injection, FS_CardinalityType
<1> QED BY <1>1, <1>4, <1>5, <1>6

\* How many epochs are later than one of a row that counts.
LEMMA LaterAre ==
  ASSUME EstimateInv, NEW r \in Counted, NEW e \in Computed, e[1] = r
  PROVE  /\ e[2] \in 1..Worth(r) /\ Cardinality(EpochsOf(NewerThan(r))) \in Nat
         /\ Cardinality({f \in Computed : Later(f, e)})
              = Cardinality(EpochsOf(NewerThan(r))) + Worth(r) - e[2]
<1> DEFINE k == e[2]
           A == EpochsOf(NewerThan(r))
           B == {f \in Computed : f[1] = r /\ f[2] >= k + 1}
<1>1. k \in 1..Worth(r) /\ Worth(r) \in Nat
  BY ComputedIs, CountedIs
<1>2. {f \in Computed : Later(f, e)} = A \cup B
  <2>1. ASSUME NEW f \in Computed PROVE Later(f, e) <=> f \in A \/ f \in B
    <3>1. f[1] \in Counted /\ f[2] \in Nat
      <4>1. f[1] \in Counted /\ f[2] \in 1..Worth(f[1])
        BY ComputedIs
      <4> QED BY <4>1
    <3>2. f[2] > k <=> f[2] >= k + 1
      BY <1>1, <3>1
    <3> HIDE DEF k
    <3>3. f \in A <=> Newer(f[1], r)
      BY <3>1 DEF EpochsOf, NewerThan
    <3> QED BY <3>2, <3>3 DEF Later, k
  <2>2. A \subseteq Computed /\ B \subseteq Computed
    BY DEF EpochsOf
  <2> HIDE DEF A, B
  <2> QED BY <2>1, <2>2
<1>3. IsFiniteSet(A) /\ Cardinality(A) \in Nat
  <2>1. NewerThan(r) \in SUBSET Counted
    BY DEF NewerThan
  <2>2. IsFiniteSet(A)
    BY <2>1, EpochsAre
  <2> QED BY <2>2, FS_CardinalityType
<1>4. IsFiniteSet(B) /\ Cardinality(B) = Worth(r) - k
  <2>0. k + 1 \in Nat /\ 1 <= k + 1 /\ k \in Int /\ k <= Worth(r)
    BY <1>1
  <2> DEFINE a == k + 1
  <2>1. /\ B = {r} \X (a..Worth(r)) /\ IsFiniteSet({r} \X (a..Worth(r)))
        /\ Cardinality({r} \X (a..Worth(r))) = IF a > Worth(r) THEN 0 ELSE Worth(r) - a + 1
    <3> HIDE DEF k
    <3> QED BY <2>0, RunOf
  <2>2. (IF a > Worth(r) THEN 0 ELSE Worth(r) - a + 1) = Worth(r) - k
    <3> HIDE DEF k
    <3> QED BY <1>1, <2>0
  <2> HIDE DEF a, B
  <2> QED BY <2>1, <2>2
<1>5. A \cap B = {}
  <2>1. \A f \in A : Newer(f[1], r)
    BY DEF EpochsOf, NewerThan
  <2>2. \A f \in B : f[1] = r
    OBVIOUS
  <2>3. ~Newer(r, r)
    BY CountedIs
  <2> HIDE DEF A, B
  <2> QED BY <2>1, <2>2, <2>3
<1> HIDE DEF A, B, k
<1>6. Cardinality(A \cup B) = Cardinality(A) + Cardinality(B) - Cardinality(A \cap B)
  BY <1>3, <1>4, FS_Union
<1>7. Cardinality(A \cap B) = 0
  BY <1>5, FS_EmptySet
<1>8. Cardinality(A \cup B) = Cardinality(A) + Worth(r) - k
  BY <1>1, <1>3, <1>4, <1>6, <1>7
<1> QED BY <1>1, <1>2, <1>3, <1>8 DEF A, k

\* What is newer than a row the query looks at is among those it looks at.
LEMMA BeforeIs ==
  ASSUME EstimateInv, NEW r \in Recent
  PROVE  r \in Counted /\ Before(r) = Cardinality(EpochsOf(NewerThan(r)))
<1>0. r \in Counted /\ Cardinality(NewerThan(r)) < AvgWindow
  BY DEF Recent, NewerThan
<1>1. {q \in Recent : Newer(q, r)} = NewerThan(r)
  <2>1. ASSUME NEW q \in NewerThan(r) PROVE q \in Recent
    <3>1. NewerThan(q) \subseteq NewerThan(r)
      BY <1>0, CountedIs DEF NewerThan
    <3>2. IsFiniteSet(NewerThan(r))
      BY CountedIs, FS_Subset DEF NewerThan
    <3>3. /\ Cardinality(NewerThan(q)) <= Cardinality(NewerThan(r))
          /\ Cardinality(NewerThan(q)) \in Nat /\ Cardinality(NewerThan(r)) \in Nat
      BY <3>1, <3>2, FS_Subset, FS_CardinalityType
    <3>4. Cardinality(NewerThan(q)) < AvgWindow
      BY <1>0, <3>3, EstimatesAssumption
    <3> QED BY <3>4 DEF Recent, NewerThan
  <2> QED BY <2>1 DEF Recent, NewerThan
<1>2. Before(r) = SumFunction(WorthIn(NewerThan(r)))
  BY <1>1 DEF Before, WorthIn
<1>3. NewerThan(r) \in SUBSET Counted
  BY DEF NewerThan
<1>4. Cardinality(EpochsOf(NewerThan(r))) = SumFunction(WorthIn(NewerThan(r)))
  BY <1>3, EpochsAre
<1> QED BY <1>0, <1>2, <1>4

\* Among the last epochs a row has as many as the query gives it weight.
LEMMA WeightIs ==
  ASSUME EstimateInv, NEW r \in Recent
  PROVE  /\ IsFiniteSet(Of(LastComputed, {r})) /\ Weight(r) \in Nat
         /\ Cardinality(Of(LastComputed, {r})) = Weight(r)
<1> DEFINE b == Before(r)
           w == Worth(r)
           W == AvgWindow
           a == IF b + w - W + 1 > 1 THEN b + w - W + 1 ELSE 1
           clipped == Min({w, W - b})
<1>1. r \in Counted /\ w \in Nat /\ W \in Nat /\ w >= 1
  BY BeforeIs, CountedIs, EstimatesAssumption
<1>2. b \in Nat
  <2>1. NewerThan(r) \in SUBSET Counted
    BY DEF NewerThan
  <2>2. IsFiniteSet(EpochsOf(NewerThan(r)))
    BY <2>1, EpochsAre
  <2> QED BY <2>2, BeforeIs, FS_CardinalityType
<1>3. ASSUME NEW e \in Computed, e[1] = r PROVE e \in LastComputed <=> e[2] >= a
  <2>1. e[2] \in 1..w /\ Cardinality({f \in Computed : Later(f, e)}) = b + w - e[2]
    BY <1>1, <1>3, LaterAre, BeforeIs
  <2>2. e \in LastComputed <=> b + w - e[2] < W
    BY <2>1 DEF LastComputed
  <2> DEFINE k == e[2]
  <2>3. k \in Nat /\ 1 <= k
    BY <2>1
  <2>4. (b + w - k < W) <=> k >= a
    <3> HIDE DEF b, w, W, k
    <3> QED BY <1>1, <1>2, <2>3
  <2> QED BY <2>2, <2>4
<1>4. Of(LastComputed, {r}) = {e \in Computed : e[1] = r /\ e[2] >= a}
  <2> HIDE DEF a
  <2> QED BY <1>3 DEF Of, LastComputed
<1>5. a \in Nat /\ 1 <= a
  <2> HIDE DEF b, w, W
  <2> QED BY <1>1, <1>2
<1>6. /\ Of(LastComputed, {r}) = {r} \X (a..w) /\ IsFiniteSet({r} \X (a..w))
      /\ Cardinality({r} \X (a..w)) = IF a > w THEN 0 ELSE w - a + 1
  <2> HIDE DEF a
  <2> QED BY <1>1, <1>4, <1>5, RunOf
<1>7. Weight(r) = IF b < W THEN clipped ELSE 0
  BY DEF Weight
<1>8. clipped \in {w, W - b} /\ clipped <= w /\ clipped <= W - b
  <2>1. {w, W - b} \subseteq Int
    <3> HIDE DEF b, w, W
    <3> QED BY <1>1, <1>2
  <2>2. IsFiniteSet({w, W - b})
    <3>1. IsFiniteSet({w} \cup {W - b})
      BY FS_Singleton, FS_AddElement
    <3>2. {w} \cup {W - b} = {w, W - b}
      OBVIOUS
    <3> QED BY <3>1, <3>2
  <2> HIDE DEF b, w, W
  <2> QED BY <2>1, <2>2, Extremes
<1> HIDE DEF b, w, W, clipped
<1>9. Weight(r) \in Nat /\ Weight(r) = IF a > w THEN 0 ELSE w - a + 1
  BY <1>1, <1>2, <1>7, <1>8
<1> HIDE DEF a
<1> QED BY <1>6, <1>9

\* The last epochs are of rows that the query looks at: any other has as many rows before
\* it as the window has epochs.
LEMMA LastAreRecent == EstimateInv => Of(LastComputed, Recent) = LastComputed
<1> SUFFICES ASSUME EstimateInv, NEW e \in LastComputed PROVE e[1] \in Recent
  BY DEF Of
<1> DEFINE r == e[1]
           N == NewerThan(r)
<1>1. e \in Computed /\ r \in Counted
  BY ComputedIs DEF LastComputed
<1>2. Cardinality({f \in Computed : Later(f, e)}) < AvgWindow
  BY DEF LastComputed
<1>3. /\ e[2] \in 1..Worth(r) /\ Cardinality(EpochsOf(N)) \in Nat
      /\ Cardinality({f \in Computed : Later(f, e)})
           = Cardinality(EpochsOf(N)) + Worth(r) - e[2]
  BY <1>1, LaterAre
<1>4. Worth(r) \in Nat
  BY <1>1, CountedIs
<1>5. IsFiniteSet(N) /\ Cardinality(EpochsOf(N)) >= Cardinality(N)
  <2>1. N \in SUBSET Counted
    BY DEF NewerThan
  <2> HIDE DEF N
  <2> QED BY <2>1, EpochsAre
<1>6. Cardinality(N) \in Nat
  BY <1>5, FS_CardinalityType
<1> HIDE DEF r, N
<1>7. Cardinality(N) < AvgWindow
  <2> DEFINE k == e[2]
             w == Worth(r)
             c == Cardinality(EpochsOf(N))
             n == Cardinality(N)
  <2>1. k \in Nat /\ w \in Nat /\ k <= w /\ c \in Nat /\ n \in Nat /\ c >= n
    BY <1>3, <1>4, <1>5, <1>6
  <2>2. c + w - k < AvgWindow /\ AvgWindow \in Nat
    BY <1>2, <1>3, EstimatesAssumption
  <2> HIDE DEF k, w, c, n
  <2>3. n < AvgWindow
    BY <2>1, <2>2
  <2> QED BY <2>3 DEF n
<1> QED BY <1>1, <1>7 DEF Recent, NewerThan, N, r

LEMMA AverageIs == EstimateInv => AverageIsOfLastEpochs
<1> SUFFICES ASSUME EstimateInv PROVE AverageIsOfLastEpochs
  OBVIOUS
<1> DEFINE P == LastComputed
           S == Recent
           w == [r \in S |-> Weight(r)]
           c == [r \in S |-> r.rate]
           v == [r \in S |-> r.rate * Weight(r)]
           h == [e \in P |-> e[1].rate]
<1>1. IsFiniteSet(S) /\ \A r \in S : r \in Counted
  BY CountedIs, FS_Subset DEF Recent
<1>2. Of(P, S) = P
  BY LastAreRecent
<1>3. Has(S, P, w)
  <2>1. \A r \in S : IsFiniteSet(Of(P, {r})) /\ Cardinality(Of(P, {r})) = w[r]
    BY WeightIs
  <2> HIDE DEF P, S, w
  <2> QED BY <1>1, <1>2, <2>1 DEF Has
<1>4. ByFirst(S, P, w, c, v, h)
  <2>1. \A r \in S : c[r] \in Nat /\ v[r] = c[r] * w[r]
    BY <1>1, CountedIs
  <2>2. \A e \in P : e[1] \in S
    BY <1>2 DEF Of
  <2>3. \A e \in P : h[e] = c[e[1]]
    BY <2>2
  <2> HIDE DEF P, S, w, c, v, h
  <2> QED BY <1>3, <2>1, <2>3 DEF ByFirst
<1>5. DOMAIN w = S /\ DOMAIN v = S /\ DOMAIN h = P
  OBVIOUS
<1>6. Weights = SumFunction(w) /\ Weighted = SumFunction(v)
  BY DEF Weights, Weighted
<1> HIDE DEF P, S, w, c, v, h
<1>7. PICK wt : SumsOn(w, S, wt) /\ SumFunction(w) = wt[S]
  BY <1>1, <1>5, SumIs
<1>8. PICK vt : SumsOn(v, S, vt) /\ SumFunction(v) = vt[S]
  BY <1>1, <1>5, SumIs
<1>9. IsFiniteSet(P) /\ Cardinality(P) = wt[S]
  BY <1>3, <1>7, PairsAre
<1>10. PICK ht : SumsOn(h, P, ht) /\ SumFunction(h) = ht[P]
  BY <1>5, <1>9, SumIs
<1>11. ht[P] = vt[S]
  BY <1>4, <1>8, <1>10, SumsByFirst
<1>12. Weights = Cardinality(P) /\ Weighted = SumFunction(h)
  BY <1>6, <1>7, <1>8, <1>9, <1>10, <1>11
<1> QED BY <1>12 DEF AverageIsOfLastEpochs, P, h

\* What the application makes its estimates of is what the rows say (EstimatesAgree): what
\* a run has left (remainingEpochs), and that the query's average, with its window over
\* rows and its clipped edge, is the mean over the last AvgWindow epochs (AvgSPerEpoch).
THEOREM EstimatesAreRight == EstimateSpec => []EstimatesAgree
<1>1. EstimateInv => EstimatesAgree
  BY LeftIs, AverageIs DEF EstimatesAgree
<1> QED BY <1>1, EstimatesBegin, EstimatesKept, PTL DEF EstimateSpec
=============================================================================
