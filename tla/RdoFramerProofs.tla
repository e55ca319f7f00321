--------------------------- MODULE RdoFramerProofs ---------------------------
(***************************************************************************)
(* What TLAPS proves about the framer, for streams of any length, chunks   *)
(* of any size and any buffer limit.                                       *)
(*                                                                         *)
(* ingest cuts frames in a loop, which the model writes as a function of   *)
(* the position.  The inductions over positions are arguments about sets   *)
(* of positions (FromTheEnd): a set that holds a position whenever it      *)
(* holds every later one holds them all.                                   *)
(***************************************************************************)
EXTENDS RdoFramer, SequenceTheorems, FiniteSetTheorems, TLAPS

LEMMA FromTheEnd ==
    ASSUME NEW N \in Nat, NEW G \in SUBSET (0 .. N),
           \A n \in 0 .. N : (\A m \in n + 1 .. N : m \in G) => n \in G
    PROVE  G = 0 .. N
<1> DEFINE bad == (0 .. N) \ G
           W == {n + 1 .. N : n \in bad}
<1>1. SUFFICES ASSUME bad # {}
               PROVE  FALSE
  OBVIOUS
<1>2. IsWellFoundedOn(StrictSubsetOrdering(0 .. N), SUBSET (0 .. N))
  <2>1. IsFiniteSet(0 .. N)
    BY FS_Interval
  <2> HIDE DEF bad, W
  <2> QED
    BY ONLY <2>1, FS_StrictSubsetOrderingWellFounded, FS_FiniteSubsetsOfFinite
<1>3. W \subseteq SUBSET (0 .. N) /\ W # {}
  BY <1>1
<1>4. PICK T \in W : \A U \in W : <<U, T>> \notin StrictSubsetOrdering(0 .. N)
  <2> HIDE DEF W
  <2> QED
    BY <1>2, <1>3, WFMin
<1>5. PICK n \in bad : T = n + 1 .. N
  BY <1>4
<1>6. \A m \in n + 1 .. N : m \in G
  <2>1. SUFFICES ASSUME NEW m \in n + 1 .. N, m \notin G
                 PROVE  FALSE
    OBVIOUS
  <2>2. m \in bad /\ n \in Nat /\ m \in Nat
    BY <1>5, <2>1
  <2>3. m + 1 .. N \in W
    BY <2>2
  <2>4. (m + 1 .. N) \subseteq T /\ m \in T /\ m \notin m + 1 .. N
    BY <1>5, <2>1, <2>2
  <2>5. (m + 1 .. N) # T
    BY <2>4
  <2>6. (m + 1 .. N) \in SUBSET (0 .. N) /\ T \in SUBSET (0 .. N)
    BY <1>3, <1>4, <2>3
  <2>7. <<m + 1 .. N, T>> \in StrictSubsetOrdering(0 .. N)
    BY <2>4, <2>5, <2>6 DEF StrictSubsetOrdering
  <2> QED
    BY <1>4, <2>3, <2>7
<1> QED
  BY <1>5, <1>6

\* A set of positions has a first one.
LEMMA FirstPosition ==
    ASSUME NEW N \in Nat, NEW S \in SUBSET (1 .. N), S # {}
    PROVE  \E i \in S : \A j \in S : i <= j
<1>1. SUFFICES ASSUME \A i \in S : \E j \in S : j < i
               PROVE  FALSE
  OBVIOUS
<1> DEFINE G == {n \in 0 .. N : N - n \notin S}
<1>2. ASSUME NEW n \in 0 .. N, \A m \in n + 1 .. N : m \in G
      PROVE  n \in G
  <2>1. SUFFICES ASSUME N - n \in S
                 PROVE  FALSE
    OBVIOUS
  <2>2. PICK j \in S : j < N - n
    BY <1>1, <2>1
  <2>3. j \in 1 .. N /\ N - j \in n + 1 .. N
    BY <2>2
  <2>4. N - (N - j) \notin S
    BY <1>2, <2>3
  <2> QED
    BY <2>2, <2>3, <2>4
<1>3. G = 0 .. N
  <2>1. G \in SUBSET (0 .. N)
    OBVIOUS
  <2> HIDE DEF G
  <2> QED
    BY <1>2, <2>1, FromTheEnd
<1>4. PICK i \in S : TRUE
  OBVIOUS
<1>5. N - i \in 0 .. N /\ N - (N - i) = i
  OBVIOUS
<1> QED
  BY <1>3, <1>4, <1>5

-----------------------------------------------------------------------------
(* What is left of a buffer *)

Suffix(b, n) == SubSeq(b, n + 1, Len(b))

LEMMA SuffixFacts ==
    ASSUME NEW b \in Seq(Piece), NEW n \in 0 .. Len(b)
    PROVE  /\ Suffix(b, n) \in Seq(Piece) /\ Len(Suffix(b, n)) = Len(b) - n
           /\ \A i \in 1 .. Len(b) - n : Suffix(b, n)[i] = b[n + i]
<1>1. Len(b) \in Nat /\ n \in Nat
  BY LenProperties
<1>2. \A i \in n + 1 .. Len(b) : b[i] \in Piece
  BY <1>1, ElementOfSeq
<1>3. /\ SubSeq(b, n + 1, Len(b)) \in Seq(Piece)
      /\ Len(SubSeq(b, n + 1, Len(b))) = IF n + 1 <= Len(b) THEN Len(b) - (n + 1) + 1 ELSE 0
      /\ \A i \in 1 .. Len(b) - (n + 1) + 1 : SubSeq(b, n + 1, Len(b))[i] = b[(n + 1) + i - 1]
  BY <1>1, <1>2, SubSeqProperties
<1>4. ASSUME NEW i \in 1 .. Len(b) - n
      PROVE  Suffix(b, n)[i] = b[n + i]
  BY <1>1, <1>3 DEF Suffix
<1> QED
  BY <1>1, <1>3, <1>4 DEF Suffix

LEMMA SuffixOfNone ==
    ASSUME NEW b \in Seq(Piece)
    PROVE  Suffix(b, 0) = b
BY SubSeqFull DEF Suffix

\* Sequences of pieces are equal when they agree at every position.
LEMMA SamePieces ==
    ASSUME NEW s \in Seq(Piece), NEW t \in Seq(Piece), NEW N, Len(s) = N, Len(t) = N,
           \A i \in 1 .. N : s[i] = t[i]
    PROVE  s = t
BY SeqEqual

LEMMA SuffixOfSuffix ==
    ASSUME NEW b \in Seq(Piece), NEW n \in 0 .. Len(b), NEW m \in 0 .. Len(b) - n
    PROVE  Suffix(Suffix(b, n), m) = Suffix(b, n + m)
<1> DEFINE s == Suffix(b, n)
           u == Suffix(b, n + m)
           v == Suffix(s, m)
           N == Len(b)
<1>1. N \in Nat /\ n \in Nat /\ m \in Nat /\ n + m \in 0 .. N
  <2>1. N \in Nat
    BY LenProperties
  <2> HIDE DEF N
  <2> QED
    BY <2>1 DEF N
<1>2. s \in Seq(Piece) /\ Len(s) = N - n /\ \A i \in 1 .. N - n : s[i] = b[n + i]
  BY SuffixFacts
<1>3. u \in Seq(Piece) /\ Len(u) = N - (n + m) /\ \A i \in 1 .. N - (n + m) : u[i] = b[(n + m) + i]
  BY <1>1, SuffixFacts
<1> HIDE DEF s
<1>4. m \in 0 .. Len(s)
  BY <1>1, <1>2
<1>5. v \in Seq(Piece) /\ Len(v) = Len(s) - m /\ \A i \in 1 .. Len(s) - m : v[i] = s[m + i]
  BY <1>2, <1>4, SuffixFacts
<1> HIDE DEF u, v, N
<1>6. Len(s) - m = N - (n + m)
  BY <1>1, <1>2
<1>7. ASSUME NEW i \in 1 .. N - (n + m)
      PROVE  v[i] = u[i]
  <2>1. m + i \in 1 .. N - n /\ n + (m + i) = (n + m) + i
    BY <1>1
  <2> QED
    BY <1>2, <1>3, <1>5, <1>6, <2>1
<1>8. v = u
  <2> DEFINE K == N - (n + m)
  <2>1. u \in Seq(Piece) /\ v \in Seq(Piece) /\ Len(u) = K /\ Len(v) = K
    BY <1>3, <1>5, <1>6
  <2>2. \A i \in 1 .. K : v[i] = u[i]
    BY <1>7
  <2> HIDE DEF K
  <2> QED
    BY ONLY <2>1, <2>2, SamePieces
<1> QED
  BY <1>8 DEF u, v, s

LEMMA SuffixOfConcat ==
    ASSUME NEW a \in Seq(Piece), NEW c \in Seq(Piece), NEW n \in 0 .. Len(a)
    PROVE  Suffix(a \o c, n) = Suffix(a, n) \o c /\ n \in 0 .. Len(a \o c)
<1> DEFINE b == a \o c
           s == Suffix(a, n)
           u == Suffix(b, n)
           v == s \o c
           N == Len(a)
           M == Len(c)
<1>1. N \in Nat /\ M \in Nat /\ n \in 0 .. N
  BY LenProperties
<1>2. b \in Seq(Piece) /\ Len(b) = N + M /\ \A i \in 1 .. N + M : b[i] = IF i <= N THEN a[i] ELSE c[i - N]
  BY ConcatProperties
<1>3. s \in Seq(Piece) /\ Len(s) = N - n /\ \A i \in 1 .. N - n : s[i] = a[n + i]
  BY SuffixFacts
<1> HIDE DEF b, s
<1>4. /\ v \in Seq(Piece) /\ Len(v) = Len(s) + M
      /\ \A i \in 1 .. Len(s) + M : v[i] = IF i <= Len(s) THEN s[i] ELSE c[i - Len(s)]
  BY <1>3, ConcatProperties
<1>5. n \in 0 .. Len(b)
  <2> HIDE DEF N, M
  <2> QED
    BY <1>1, <1>2
<1>6. u \in Seq(Piece) /\ Len(u) = Len(b) - n /\ \A i \in 1 .. Len(b) - n : u[i] = b[n + i]
  BY <1>2, <1>5, SuffixFacts
<1> HIDE DEF u, v, N, M
<1>7. Len(b) - n = N + M - n /\ Len(s) + M = N + M - n
  BY <1>1, <1>2, <1>3
<1>8. ASSUME NEW i \in 1 .. N + M - n
      PROVE  v[i] = u[i]
  <2>1. n + i \in 1 .. N + M /\ (i <= N - n <=> n + i <= N) /\ i - (N - n) = (n + i) - N
    BY <1>1
  <2>2. u[i] = b[n + i] /\ v[i] = IF i <= Len(s) THEN s[i] ELSE c[i - Len(s)]
    BY <1>4, <1>6, <1>7
  <2>3. CASE i <= N - n
    <3>1. i \in 1 .. N - n
      BY <1>1, <2>3
    <3> QED
      BY <1>2, <1>3, <2>1, <2>2, <2>3, <3>1
  <2>4. CASE ~(i <= N - n)
    BY <1>2, <1>3, <2>1, <2>2, <2>4
  <2> QED
    BY <2>3, <2>4
<1>9. v = u
  BY <1>2, <1>4, <1>6, <1>7, <1>8, SamePieces
<1> QED
  BY <1>5, <1>9 DEF u, v, s, b

-----------------------------------------------------------------------------
(* What the head of a buffer is cut at *)

BusyAt(b, i) ==
    /\ i \in 3 .. Len(b) - 1
    /\ b[1] = "A" /\ b[2] = "error"
    /\ \A j \in 3 .. i : b[j] = "1"
    /\ b[i + 1] # "1"

EndAt(b, i) == i \in 1 .. Len(b) /\ b[i] = ";" /\ Quotes(b, i) % 2 = 0

LEMMA BusyFacts ==
    ASSUME NEW b \in Seq(Piece)
    PROVE  /\ Busy(b) \in Nat
           /\ Busy(b) # 0 => BusyAt(b, Busy(b))
           /\ \A i : BusyAt(b, i) => Busy(b) = i
<1> DEFINE ends == {i \in 3 .. Len(b) - 1 : /\ b[1] = "A" /\ b[2] = "error"
                                            /\ \A j \in 3 .. i : b[j] = "1"
                                            /\ b[i + 1] # "1"}
<1>1. Busy(b) = IF ends = {} THEN 0 ELSE Max(ends)
  BY DEF Busy
<1>2. \A i : i \in ends <=> BusyAt(b, i)
  BY DEF BusyAt
<1>3. Len(b) \in Nat
  BY LenProperties
<1>4. \A i, j \in ends : i = j
  <2>1. SUFFICES ASSUME NEW i \in ends, NEW j \in ends, i < j
                 PROVE  FALSE
    BY <1>3
  <2>2. i + 1 \in 3 .. j
    BY <1>3, <2>1
  <2>3. b[i + 1] = "1" /\ b[i + 1] # "1"
    BY <2>1, <2>2
  <2> QED
    BY <2>3
<1>5. \A i \in ends : i \in Nat
  BY <1>3
<1> HIDE DEF ends
<1>6. ASSUME NEW i \in ends
      PROVE  Max(ends) = i
  <2>1. \E x \in ends : \A y \in ends : x >= y
    BY <1>4, <1>5, <1>6
  <2>2. Max(ends) \in ends
    BY <2>1 DEF Max
  <2> QED
    BY <1>4, <1>6, <2>2
<1>7. ends # {} => Busy(b) \in ends
  BY <1>1, <1>6
<1>8. \A i : BusyAt(b, i) => Busy(b) = i
  BY <1>1, <1>2, <1>6
<1> QED
  BY <1>1, <1>2, <1>5, <1>7, <1>8

LEMMA DelimiterFacts ==
    ASSUME NEW b \in Seq(Piece)
    PROVE  /\ Delimiter(b) \in Nat
           /\ Delimiter(b) = 0 => \A i : ~EndAt(b, i)
           /\ Delimiter(b) # 0 => EndAt(b, Delimiter(b)) /\ \A j : EndAt(b, j) => Delimiter(b) <= j
<1> DEFINE ends == {i \in DOMAIN b : b[i] = ";" /\ Quotes(b, i) % 2 = 0}
<1>1. Delimiter(b) = IF ends = {} THEN 0 ELSE Min(ends)
  BY DEF Delimiter
<1>2. Len(b) \in Nat /\ DOMAIN b = 1 .. Len(b)
  BY LenProperties
<1>3. \A i : i \in ends <=> EndAt(b, i)
  BY <1>2 DEF EndAt
<1>4. ends \in SUBSET (1 .. Len(b))
  BY <1>2
<1> HIDE DEF ends
<1>5. ASSUME ends # {}
      PROVE  Min(ends) \in ends /\ \A j \in ends : Min(ends) <= j
  <2>1. \E i \in ends : \A j \in ends : i =< j
    BY <1>2, <1>4, <1>5, FirstPosition
  <2> QED
    BY <2>1 DEF Min
<1>6. CASE ends = {}
  BY <1>1, <1>3, <1>6
<1>7. CASE ends # {}
  <2>1. Delimiter(b) = Min(ends)
    BY <1>1, <1>7
  <2>2. Min(ends) \in 1 .. Len(b)
    BY <1>4, <1>5, <1>7
  <2>3. Min(ends) \in Nat /\ Min(ends) # 0
    BY <1>2, <2>2
  <2> QED
    BY <1>3, <1>5, <1>7, <2>1, <2>3
<1> QED
  BY <1>6, <1>7

\* A busy answer and a frame are cut from a buffer that has them.
LEMMA HeadsFit ==
    ASSUME NEW b \in Seq(Piece)
    PROVE  Busy(b) \in 0 .. Len(b) /\ Delimiter(b) \in 0 .. Len(b)
<1>1. Len(b) \in Nat
  BY LenProperties
<1>2. Busy(b) # 0 => Busy(b) \in 3 .. Len(b) - 1
  BY BusyFacts DEF BusyAt
<1>3. Delimiter(b) # 0 => Delimiter(b) \in 1 .. Len(b)
  BY DelimiterFacts DEF EndAt
<1> QED
  BY <1>1, <1>2, <1>3

LEMMA ConcatPieces ==
    ASSUME NEW a \in Seq(Piece), NEW c \in Seq(Piece)
    PROVE  /\ a \o c \in Seq(Piece) /\ Len(a) \in Nat /\ Len(c) \in Nat /\ Len(a \o c) = Len(a) + Len(c)
           /\ \A i \in 1 .. Len(a) : (a \o c)[i] = a[i]
           /\ \A i \in 1 .. Len(c) : (a \o c)[Len(a) + i] = c[i]
<1> DEFINE b == a \o c
           N == Len(a)
           M == Len(c)
<1>1. N \in Nat /\ M \in Nat
  BY LenProperties
<1>2. b \in Seq(Piece) /\ Len(b) = N + M /\ \A i \in 1 .. N + M : b[i] = IF i <= N THEN a[i] ELSE c[i - N]
  BY ConcatProperties
<1> HIDE DEF b, N, M
<1>3. \A i \in 1 .. N : b[i] = a[i]
  BY <1>1, <1>2
<1>4. ASSUME NEW i \in 1 .. M
      PROVE  b[N + i] = c[i]
  <2>1. N + i \in 1 .. N + M /\ ~(N + i <= N) /\ (N + i) - N = i
    BY <1>1
  <2> QED
    BY <1>2, <2>1
<1> QED
  BY <1>1, <1>2, <1>3, <1>4 DEF b, N, M

\* More pieces behind a buffer change nothing about what is cut from its head.
LEMMA PrefixHeads ==
    ASSUME NEW a \in Seq(Piece), NEW b \in Seq(Piece), NEW N \in Nat, N = Len(a), N <= Len(b), Len(b) \in Nat,
           \A i \in 1 .. N : b[i] = a[i]
    PROVE  /\ Busy(a) # 0 => Busy(b) = Busy(a)
           /\ Busy(a) = 0 /\ Delimiter(a) # 0 => Busy(b) = 0 /\ Delimiter(b) = Delimiter(a)
<1>1. /\ b \in Seq(Piece) /\ N \in Nat /\ Len(b) \in Nat /\ N <= Len(b)
      /\ \A i \in 1 .. N : b[i] = a[i]
  OBVIOUS
<1>2. \A i \in 1 .. N : Quotes(b, i) = Quotes(a, i)
  <2> TAKE i \in 1 .. N
  <2>1. {j \in 1 .. i : b[j] = "quote"} = {j \in 1 .. i : a[j] = "quote"}
    BY <1>1
  <2> QED
    BY <2>1 DEF Quotes
<1>3. ASSUME Busy(a) # 0
      PROVE  Busy(b) = Busy(a)
  <2>1. BusyAt(a, Busy(a))
    BY <1>3, BusyFacts
  <2> DEFINE e == Busy(a)
  <2>2. e \in 3 .. N - 1 /\ a[1] = "A" /\ a[2] = "error" /\ (\A j \in 3 .. e : a[j] = "1") /\ a[e + 1] # "1"
    BY <2>1 DEF BusyAt
  <2> HIDE DEF e
  <2>3. /\ e \in 3 .. Len(b) - 1 /\ e + 1 \in 1 .. N /\ 1 \in 1 .. N /\ 2 \in 1 .. N
        /\ \A j \in 3 .. e : j \in 1 .. N
    BY <1>1, <2>2
  <2>4. b[1] = a[1] /\ b[2] = a[2] /\ b[e + 1] = a[e + 1] /\ \A j \in 3 .. e : b[j] = a[j]
    BY <1>1, <2>3
  <2>5. BusyAt(b, e)
    BY <2>2, <2>3, <2>4 DEF BusyAt
  <2> QED
    BY <1>1, <2>5, BusyFacts DEF e
<1>4. ASSUME Busy(a) = 0, Delimiter(a) # 0
      PROVE  Busy(b) = 0 /\ Delimiter(b) = Delimiter(a)
  <2>1. PICK d \in 1 .. N : d = Delimiter(a) /\ EndAt(a, d)
    BY <1>4, DelimiterFacts DEF EndAt
  <2>2. a[d] = ";" /\ \A j : EndAt(a, j) => d <= j
    BY <1>4, <2>1, DelimiterFacts DEF EndAt
  <2>3. d \in 1 .. Len(b) /\ d \in Nat /\ 1 <= d /\ d <= N
    OBVIOUS
  <2>4. b[d] = ";"
    BY <1>1, <2>2
  <2>5. Busy(b) = 0
    <3>1. SUFFICES ASSUME NEW i \in 3 .. Len(b) - 1, BusyAt(b, i)
                   PROVE  FALSE
      BY <1>1, BusyFacts DEF BusyAt
    <3>2. b[1] = "A" /\ b[2] = "error" /\ (\A j \in 3 .. i : b[j] = "1") /\ b[i + 1] # "1"
      BY <3>1 DEF BusyAt
    <3>3. CASE d <= i
      <4>1. d = 1 \/ d = 2 \/ d \in 3 .. i
        BY <2>3, <3>3
      <4> QED
        BY <2>4, <3>2, <4>1
    <3>4. CASE i < d
      <4>1. /\ i \in 3 .. N - 1 /\ i + 1 \in 1 .. N /\ 1 \in 1 .. N /\ 2 \in 1 .. N
            /\ \A j \in 3 .. i : j \in 1 .. N
        BY <2>3, <3>4
      <4>2. b[1] = a[1] /\ b[2] = a[2] /\ b[i + 1] = a[i + 1] /\ \A j \in 3 .. i : b[j] = a[j]
        BY <1>1, <4>1
      <4>3. BusyAt(a, i)
        BY <3>2, <4>1, <4>2 DEF BusyAt
      <4>4. Busy(a) = i /\ i # 0
        BY <4>1, <4>3, BusyFacts
      <4> QED
        BY <1>4, <4>4
    <3> QED
      BY <2>3, <3>3, <3>4
  <2>6. EndAt(b, d)
    BY <1>2, <2>1, <2>3, <2>4 DEF EndAt
  <2>7. PICK e \in 1 .. Len(b) : e = Delimiter(b) /\ EndAt(b, e) /\ e <= d
    BY <1>1, <2>3, <2>6, DelimiterFacts DEF EndAt
  <2>8. e \in 1 .. N
    BY <2>3, <2>7
  <2>9. EndAt(a, e)
    <3>1. b[e] = a[e] /\ Quotes(b, e) = Quotes(a, e)
      BY <1>1, <1>2, <2>8
    <3> QED
      BY <2>7, <2>8, <3>1 DEF EndAt
  <2>10. d = e
    <3>1. d <= e
      BY <2>2, <2>9
    <3>2. e <= d
      BY <2>7
    <3> QED
      BY <3>1, <3>2
  <2> QED
    BY <2>1, <2>5, <2>7, <2>10
<1> QED
  BY <1>3, <1>4

LEMMA HeadsStay ==
    ASSUME NEW a \in Seq(Piece), NEW c \in Seq(Piece)
    PROVE  /\ Busy(a) # 0 => Busy(a \o c) = Busy(a)
           /\ Busy(a) = 0 /\ Delimiter(a) # 0 => Busy(a \o c) = 0 /\ Delimiter(a \o c) = Delimiter(a)
<1>1. /\ a \o c \in Seq(Piece) /\ Len(a) \in Nat /\ Len(a \o c) \in Nat /\ Len(a) <= Len(a \o c)
      /\ \A i \in 1 .. Len(a) : (a \o c)[i] = a[i]
  <2>1. Len(c) \in Nat /\ Len(a) \in Nat /\ Len(a \o c) = Len(a) + Len(c)
    BY ConcatPieces
  <2> QED
    BY <2>1, ConcatPieces
<1> QED
  BY <1>1, PrefixHeads

-----------------------------------------------------------------------------
(* The loop *)

Outcome == [frames : Seq(Seq(Piece)), left : Seq(Piece)]

\* A frame, and then what the loop yields.
Yields(frame, rest) == [frames |-> <<frame>> \o rest.frames, left |-> rest.left]

\* One turn of the loop at position n; f is what it yields from each position on.
Turn(f, b, n) ==
    LET rest == Suffix(b, n)
        busy == Busy(rest)
        end  == Delimiter(rest)
    IN  IF busy > 0 THEN Yields(SubSeq(rest, 1, busy), f[n + busy])
        ELSE IF end > 1 THEN Yields(SubSeq(rest, 1, end - 1), f[n + end])
        ELSE IF end = 1 THEN f[n + 1]
        ELSE [frames |-> <<>>, left |-> rest]

\* What the loop yields from each position of b on.
Cuts(b) == CHOOSE f : f = [n \in 0 .. Len(b) |-> Turn(f, b, n)]

LEMMA CutIsCuts ==
    ASSUME NEW b
    PROVE  Cut(b) = Cuts(b)[0]
BY DEF Cut, Cuts, Turn, Suffix, Yields

LEMMA OutcomeFields ==
    ASSUME NEW r, NEW frames, NEW left, r = [frames |-> frames, left |-> left]
    PROVE  r.frames = frames /\ r.left = left
OBVIOUS

LEMMA YieldsOutcome ==
    ASSUME NEW frame \in Seq(Piece), NEW rest \in Outcome
    PROVE  Yields(frame, rest) \in Outcome
<1>1. <<frame>> \in Seq(Seq(Piece)) /\ rest.frames \in Seq(Seq(Piece)) /\ rest.left \in Seq(Piece)
  BY DEF Outcome
<1>2. <<frame>> \o rest.frames \in Seq(Seq(Piece))
  BY <1>1, ConcatProperties
<1> QED
  BY <1>1, <1>2 DEF Yields, Outcome

LEMMA PrefixIsSeq ==
    ASSUME NEW b \in Seq(Piece), NEW n \in 0 .. Len(b)
    PROVE  SubSeq(b, 1, n) \in Seq(Piece)
<1>1. Len(b) \in Nat /\ n \in Int /\ 1 \in Int
  BY LenProperties
<1>2. \A i \in 1 .. n : b[i] \in Piece
  BY <1>1, ElementOfSeq
<1> QED
  BY <1>1, <1>2, SubSeqProperties

\* A turn looks at later positions only, and what it yields has the type of what they yield.
LEMMA TurnFacts ==
    ASSUME NEW b \in Seq(Piece), NEW n \in 0 .. Len(b), NEW f,
           \A m \in n + 1 .. Len(b) : f[m] \in Outcome
    PROVE  /\ Turn(f, b, n) \in Outcome
           /\ \A g : (\A m \in n + 1 .. Len(b) : g[m] = f[m]) => Turn(g, b, n) = Turn(f, b, n)
<1>1. PICK rest \in Seq(Piece), busy \in 0 .. Len(b) - n, end \in 0 .. Len(b) - n :
        rest = Suffix(b, n) /\ busy = Busy(rest) /\ end = Delimiter(rest) /\ Len(rest) = Len(b) - n
  BY SuffixFacts, HeadsFit
<1>2. Len(b) \in Nat /\ n \in Nat
  BY LenProperties
<1>3. CASE busy > 0
  <2>1. n + busy \in n + 1 .. Len(b) /\ busy \in 0 .. Len(rest)
    BY <1>1, <1>2, <1>3
  <2>2. \A g : Turn(g, b, n) = Yields(SubSeq(rest, 1, busy), g[n + busy])
    BY <1>1, <1>3 DEF Turn
  <2>3. SubSeq(rest, 1, busy) \in Seq(Piece)
    BY <2>1, PrefixIsSeq
  <2> QED
    BY <2>1, <2>2, <2>3, YieldsOutcome
<1>4. CASE ~(busy > 0) /\ end > 1
  <2>1. n + end \in n + 1 .. Len(b) /\ end - 1 \in 0 .. Len(rest)
    BY <1>1, <1>2, <1>4
  <2>2. \A g : Turn(g, b, n) = Yields(SubSeq(rest, 1, end - 1), g[n + end])
    BY <1>1, <1>4 DEF Turn
  <2>3. SubSeq(rest, 1, end - 1) \in Seq(Piece)
    BY <2>1, PrefixIsSeq
  <2> QED
    BY <2>1, <2>2, <2>3, YieldsOutcome
<1>5. CASE ~(busy > 0) /\ end = 1
  <2>1. n + 1 \in n + 1 .. Len(b)
    BY <1>1, <1>2, <1>5
  <2>2. \A g : Turn(g, b, n) = g[n + 1]
    BY <1>1, <1>5 DEF Turn
  <2> QED
    BY <2>1, <2>2
<1>6. CASE ~(busy > 0) /\ end = 0
  <2>1. \A g : Turn(g, b, n) = [frames |-> <<>>, left |-> rest]
    BY <1>1, <1>6 DEF Turn
  <2>2. [frames |-> <<>>, left |-> rest] \in Outcome
    <3>1. <<>> \in Seq(Seq(Piece)) /\ rest \in Seq(Piece)
      OBVIOUS
    <3> QED
      BY <3>1 DEF Outcome
  <2> QED
    BY <2>1, <2>2
<1> QED
  BY <1>1, <1>2, <1>3, <1>4, <1>5, <1>6

LEMMA CutsExist ==
    ASSUME NEW b \in Seq(Piece)
    PROVE  \E f \in [0 .. Len(b) -> Outcome] : \A n \in 0 .. Len(b) : f[n] = Turn(f, b, n)
<1>1. PICK N \in Nat : N = Len(b)
  BY LenProperties
<1> DEFINE Solved(k) == \E f \in [k .. N -> Outcome] : \A n \in k .. N : f[n] = Turn(f, b, n)
           G == {k \in 0 .. N : Solved(k)}
<1>2. ASSUME NEW k \in 0 .. N, \A m \in k + 1 .. N : m \in G
      PROVE  k \in G
  <2>1. PICK f \in [k + 1 .. N -> Outcome] : \A n \in k + 1 .. N : f[n] = Turn(f, b, n)
    <3>1. CASE k = N
      <4>1. k + 1 .. N = {}
        BY <3>1
      <4>2. [n \in {} |-> b] \in [{} -> Outcome]
        OBVIOUS
      <4> QED
        BY <4>1, <4>2
    <3>2. CASE k # N
      <4>1. k + 1 \in k + 1 .. N
        BY <3>2
      <4> QED
        BY <1>2, <4>1
    <3> QED
      BY <3>1, <3>2
  <2> DEFINE g == [n \in k .. N |-> IF n = k THEN Turn(f, b, k) ELSE f[n]]
  <2>2. k \in 0 .. Len(b) /\ \A m \in k + 1 .. Len(b) : f[m] \in Outcome
    BY <1>1, <2>1
  <2>3. Turn(f, b, k) \in Outcome
    BY <2>2, TurnFacts
  <2>4. \A n \in k .. N : n = k \/ n \in k + 1 .. N
    OBVIOUS
  <2>5. \A n \in k + 1 .. N : n \in k .. N /\ n # k
    OBVIOUS
  <2>6. g \in [k .. N -> Outcome]
    BY <2>1, <2>3, <2>4
  <2>7. \A n \in k + 1 .. N : g[n] = f[n]
    BY <2>5
  <2>8. g[k] = Turn(f, b, k)
    OBVIOUS
  <2> HIDE DEF g
  <2>9. ASSUME NEW n \in k .. N
        PROVE  Turn(g, b, n) = Turn(f, b, n)
    <3>1. n \in 0 .. Len(b)
      BY <1>1
    <3>2. \A m \in n + 1 .. Len(b) : m \in k + 1 .. N
      BY <1>1
    <3>3. \A m \in n + 1 .. Len(b) : f[m] \in Outcome /\ g[m] = f[m]
      BY <2>1, <2>7, <3>2
    <3> QED
      BY <3>1, <3>3, TurnFacts
  <2>10. \A n \in k .. N : g[n] = Turn(g, b, n)
    BY <2>1, <2>4, <2>7, <2>8, <2>9
  <2> QED
    BY <2>6, <2>10
<1>3. G = 0 .. N
  <2>1. G \in SUBSET (0 .. N)
    OBVIOUS
  <2> HIDE DEF G
  <2> QED
    BY <1>2, <2>1, FromTheEnd
<1>4. Solved(0)
  <2>1. 0 \in 0 .. N
    OBVIOUS
  <2> HIDE DEF Solved
  <2> QED
    BY <1>3, <2>1
<1> QED
  BY <1>1, <1>4

LEMMA CutsUnfold ==
    ASSUME NEW b \in Seq(Piece), NEW n \in 0 .. Len(b)
    PROVE  Cuts(b)[n] = Turn(Cuts(b), b, n)
<1>1. PICK f \in [0 .. Len(b) -> Outcome] : \A m \in 0 .. Len(b) : f[m] = Turn(f, b, m)
  BY CutsExist
<1>2. f = [m \in 0 .. Len(b) |-> Turn(f, b, m)]
  BY <1>1
<1>3. Cuts(b) = [m \in 0 .. Len(b) |-> Turn(Cuts(b), b, m)]
  BY <1>2 DEF Cuts
<1> QED
  BY <1>3

LEMMA CutsType ==
    ASSUME NEW b \in Seq(Piece), NEW n \in 0 .. Len(b)
    PROVE  Cuts(b)[n] \in Outcome
<1>1. PICK N \in Nat : N = Len(b)
  BY LenProperties
<1> DEFINE G == {k \in 0 .. N : Cuts(b)[k] \in Outcome}
<1>2. ASSUME NEW k \in 0 .. N, \A m \in k + 1 .. N : m \in G
      PROVE  k \in G
  <2>1. Turn(Cuts(b), b, k) \in Outcome
    BY <1>1, <1>2, TurnFacts
  <2> QED
    BY <1>1, <2>1, CutsUnfold
<1>3. G = 0 .. N
  <2>1. G \in SUBSET (0 .. N)
    OBVIOUS
  <2> HIDE DEF G
  <2> QED
    BY <1>2, <2>1, FromTheEnd
<1> QED
  BY <1>1, <1>3

\* From a position on, the loop yields what it yields from the start of what is left there.
LEMMA CutsOfSuffix ==
    ASSUME NEW b \in Seq(Piece), NEW n \in 0 .. Len(b)
    PROVE  Cuts(b)[n] = Cut(Suffix(b, n))
<1>1. PICK s \in Seq(Piece), N \in Nat : s = Suffix(b, n) /\ N = Len(s) /\ Len(b) = n + N /\ n \in Nat
  <2>1. Len(b) \in Nat /\ Suffix(b, n) \in Seq(Piece) /\ Len(Suffix(b, n)) = Len(b) - n
    BY LenProperties, SuffixFacts
  <2>2. Len(b) - n \in Nat /\ Len(b) = n + (Len(b) - n) /\ n \in Nat
    BY <2>1
  <2> QED
    BY <2>1, <2>2
<1> DEFINE f == [m \in 0 .. N |-> Cuts(b)[n + m]]
           G == {m \in 0 .. N : Cuts(b)[n + m] = Cuts(s)[m]}
<1>2. ASSUME NEW m \in 0 .. N, \A k \in m + 1 .. N : k \in G
      PROVE  m \in G
  <2>1. n + m \in 0 .. Len(b) /\ m \in 0 .. Len(b) - n
    BY <1>1
  <2>2. PICK rest \in Seq(Piece), busy \in 0 .. N - m, end \in 0 .. N - m :
          /\ rest = Suffix(b, n + m) /\ rest = Suffix(s, m)
          /\ busy = Busy(rest) /\ end = Delimiter(rest)
    <3>1. Suffix(s, m) = Suffix(b, n + m)
      BY <1>1, <2>1, SuffixOfSuffix
    <3>2. m \in 0 .. Len(s)
      BY <1>1
    <3>3. Suffix(s, m) \in Seq(Piece) /\ Len(Suffix(s, m)) = N - m
      BY <1>1, <3>2, SuffixFacts
    <3> QED
      BY <3>1, <3>3, HeadsFit
  <2>3. Cuts(b)[n + m] = Turn(Cuts(b), b, n + m) /\ Cuts(s)[m] = Turn(Cuts(s), s, m)
    BY <1>1, <2>1, CutsUnfold
  <2>4. \A k \in 1 .. N - m : Cuts(b)[(n + m) + k] = Cuts(s)[m + k]
    <3> TAKE k \in 1 .. N - m
    <3>1. m + k \in m + 1 .. N /\ (n + m) + k = n + (m + k)
      BY <1>1
    <3> QED
      BY <1>2, <3>1
  <2>5. CASE busy > 0
    <3>1. busy \in 1 .. N - m
      BY <2>5
    <3>2. /\ Turn(Cuts(b), b, n + m) = Yields(SubSeq(rest, 1, busy), Cuts(b)[(n + m) + busy])
          /\ Turn(Cuts(s), s, m) = Yields(SubSeq(rest, 1, busy), Cuts(s)[m + busy])
      BY <2>2, <2>5 DEF Turn
    <3> QED
      BY <2>3, <2>4, <3>1, <3>2
  <2>6. CASE ~(busy > 0) /\ end > 1
    <3>1. end \in 1 .. N - m
      BY <2>6
    <3>2. /\ Turn(Cuts(b), b, n + m) = Yields(SubSeq(rest, 1, end - 1), Cuts(b)[(n + m) + end])
          /\ Turn(Cuts(s), s, m) = Yields(SubSeq(rest, 1, end - 1), Cuts(s)[m + end])
      BY <2>2, <2>6 DEF Turn
    <3> QED
      BY <2>3, <2>4, <3>1, <3>2
  <2>7. CASE ~(busy > 0) /\ end = 1
    <3>1. 1 \in 1 .. N - m
      BY <2>7
    <3>2. Turn(Cuts(b), b, n + m) = Cuts(b)[(n + m) + 1] /\ Turn(Cuts(s), s, m) = Cuts(s)[m + 1]
      BY <2>2, <2>7 DEF Turn
    <3> QED
      BY <2>3, <2>4, <3>1, <3>2
  <2>8. CASE ~(busy > 0) /\ end = 0
    <3>1. /\ Turn(Cuts(b), b, n + m) = [frames |-> <<>>, left |-> rest]
          /\ Turn(Cuts(s), s, m) = [frames |-> <<>>, left |-> rest]
      BY <2>2, <2>8 DEF Turn
    <3> QED
      BY <2>3, <3>1
  <2> QED
    BY <2>5, <2>6, <2>7, <2>8
<1>3. G = 0 .. N
  <2>1. G \in SUBSET (0 .. N)
    OBVIOUS
  <2> HIDE DEF G
  <2> QED
    BY <1>2, <2>1, FromTheEnd
<1>4. Cuts(b)[n + 0] = Cuts(s)[0] /\ n + 0 = n
  BY <1>1, <1>3
<1> QED
  BY <1>1, <1>4, CutIsCuts

\* The loop, one turn at a time.
LEMMA CutUnfolds ==
    ASSUME NEW b \in Seq(Piece)
    PROVE  /\ Cut(b) \in Outcome
           /\ Busy(b) # 0 => Cut(b) = Yields(SubSeq(b, 1, Busy(b)), Cut(Suffix(b, Busy(b))))
           /\ Busy(b) = 0 /\ Delimiter(b) > 1 =>
                Cut(b) = Yields(SubSeq(b, 1, Delimiter(b) - 1), Cut(Suffix(b, Delimiter(b))))
           /\ Busy(b) = 0 /\ Delimiter(b) = 1 => Cut(b) = Cut(Suffix(b, 1))
           /\ Busy(b) = 0 /\ Delimiter(b) = 0 => Cut(b) = [frames |-> <<>>, left |-> b]
<1>1. PICK N \in Nat : N = Len(b)
  BY LenProperties
<1>2. PICK busy \in 0 .. N, end \in 0 .. N : busy = Busy(b) /\ end = Delimiter(b)
  BY <1>1, HeadsFit
<1>3. Cut(b) = Turn(Cuts(b), b, 0) /\ Suffix(b, 0) = b /\ Cut(b) \in Outcome
  <2>1. 0 \in 0 .. Len(b)
    BY <1>1
  <2> QED
    BY <2>1, CutIsCuts, CutsUnfold, CutsType, SuffixOfNone
<1>4. \A k \in 0 .. N : Cuts(b)[k] = Cut(Suffix(b, k)) /\ 0 + k = k
  BY <1>1, CutsOfSuffix
<1>5. busy # 0 => Cut(b) = Yields(SubSeq(b, 1, busy), Cut(Suffix(b, busy)))
  <2>1. busy # 0 => busy > 0
    OBVIOUS
  <2> QED
    BY <1>2, <1>3, <1>4, <2>1 DEF Turn
<1>6. ASSUME busy = 0, end > 1
      PROVE  Cut(b) = Yields(SubSeq(b, 1, end - 1), Cut(Suffix(b, end)))
  <2>1. ~(busy > 0) /\ 0 + end = end
    BY <1>6
  <2>2. Turn(Cuts(b), b, 0) = Yields(SubSeq(b, 1, end - 1), Cuts(b)[0 + end])
    BY <1>2, <1>3, <1>6, <2>1 DEF Turn
  <2> QED
    BY <1>3, <1>4, <2>1, <2>2
<1>7. ASSUME busy = 0, end = 1
      PROVE  Cut(b) = Cut(Suffix(b, 1))
  <2>1. ~(busy > 0) /\ ~(end > 1) /\ 0 + 1 = 1 /\ 1 \in 0 .. N
    BY <1>7
  <2>2. Turn(Cuts(b), b, 0) = Cuts(b)[0 + 1]
    BY <1>2, <1>3, <1>7, <2>1 DEF Turn
  <2> QED
    BY <1>3, <1>4, <2>1, <2>2
<1>8. ASSUME busy = 0, end = 0
      PROVE  Cut(b) = [frames |-> <<>>, left |-> b]
  <2>1. ~(busy > 0) /\ ~(end > 1) /\ end # 1
    BY <1>8
  <2> QED
    BY <1>2, <1>3, <2>1 DEF Turn
<1> QED
  BY <1>2, <1>3, <1>5, <1>6, <1>7, <1>8

\* One turn with more pieces behind the buffer: the same frame is cut, and the pieces stay behind what is left.
LEMMA CutTurns ==
    ASSUME NEW b \in Seq(Piece)
    PROVE  \/ \E k \in 1 .. Len(b), f \in Seq(Piece) :
                 /\ Cut(b) = Yields(f, Cut(Suffix(b, k)))
                 /\ \A c \in Seq(Piece) : Cut(b \o c) = Yields(f, Cut(Suffix(b, k) \o c))
           \/ \E k \in 1 .. Len(b) :
                 /\ Cut(b) = Cut(Suffix(b, k))
                 /\ \A c \in Seq(Piece) : Cut(b \o c) = Cut(Suffix(b, k) \o c)
           \/ Busy(b) = 0 /\ Delimiter(b) = 0 /\ Cut(b) = [frames |-> <<>>, left |-> b]
<1>1. PICK N \in Nat : N = Len(b)
  BY LenProperties
<1>2. PICK busy \in 0 .. N, end \in 0 .. N : busy = Busy(b) /\ end = Delimiter(b)
  BY <1>1, HeadsFit
<1>3. ASSUME NEW k \in 1 .. N, NEW c \in Seq(Piece)
      PROVE  /\ b \o c \in Seq(Piece) /\ Suffix(b \o c, k) = Suffix(b, k) \o c
             /\ SubSeq(b \o c, 1, k) = SubSeq(b, 1, k) /\ SubSeq(b \o c, 1, k - 1) = SubSeq(b, 1, k - 1)
  <2>1. k \in 0 .. Len(b) /\ k \in 1 .. Len(b) /\ (k = 1 \/ k - 1 \in 1 .. Len(b))
    BY <1>1
  <2>2. \A m \in 1 .. Len(b) : SubSeq(b \o c, 1, m) = SubSeq(b, 1, m)
    <3> TAKE m \in 1 .. Len(b)
    <3>1. m \in 0 .. Len(b) /\ 1 <= m
      OBVIOUS
    <3> QED
      BY <3>1, SubSeqOfConcat1, ConcatPieces
  <2>3. SubSeq(b \o c, 1, 0) = SubSeq(b, 1, 0)
    BY SubSeqEmpty, ConcatPieces
  <2>4. k = 1 => k - 1 = 0
    OBVIOUS
  <2> QED
    BY <2>1, <2>2, <2>3, <2>4, SuffixOfConcat, ConcatPieces
<1>4. CASE busy # 0
  <2>1. busy \in 1 .. N /\ busy \in 0 .. Len(b)
    BY <1>1, <1>4
  <2>2. SubSeq(b, 1, busy) \in Seq(Piece) /\ Cut(b) = Yields(SubSeq(b, 1, busy), Cut(Suffix(b, busy)))
    BY <1>2, <1>4, <2>1, CutUnfolds, PrefixIsSeq
  <2>3. ASSUME NEW c \in Seq(Piece)
        PROVE  Cut(b \o c) = Yields(SubSeq(b, 1, busy), Cut(Suffix(b, busy) \o c))
    <3>1. PICK x \in Seq(Piece) :
            /\ x = b \o c /\ Suffix(x, busy) = Suffix(b, busy) \o c
            /\ SubSeq(x, 1, busy) = SubSeq(b, 1, busy)
      BY <1>3, <2>1
    <3>2. Busy(x) = busy
      BY <1>2, <1>4, <3>1, HeadsStay
    <3>3. Cut(x) = Yields(SubSeq(x, 1, busy), Cut(Suffix(x, busy)))
      BY <1>4, <3>2, CutUnfolds
    <3> QED
      BY <3>1, <3>3
  <2> QED
    BY <1>1, <2>1, <2>2, <2>3
<1>5. CASE busy = 0 /\ end > 1
  <2>1. end \in 1 .. N /\ end - 1 \in 0 .. Len(b) /\ end # 0
    BY <1>1, <1>5
  <2>2. SubSeq(b, 1, end - 1) \in Seq(Piece) /\ Cut(b) = Yields(SubSeq(b, 1, end - 1), Cut(Suffix(b, end)))
    BY <1>2, <1>5, <2>1, CutUnfolds, PrefixIsSeq
  <2>3. ASSUME NEW c \in Seq(Piece)
        PROVE  Cut(b \o c) = Yields(SubSeq(b, 1, end - 1), Cut(Suffix(b, end) \o c))
    <3>1. PICK x \in Seq(Piece) :
            /\ x = b \o c /\ Suffix(x, end) = Suffix(b, end) \o c
            /\ SubSeq(x, 1, end - 1) = SubSeq(b, 1, end - 1)
      BY <1>3, <2>1
    <3>2. Busy(x) = 0 /\ Delimiter(x) = end
      BY <1>2, <1>5, <2>1, <3>1, HeadsStay
    <3>3. Cut(x) = Yields(SubSeq(x, 1, end - 1), Cut(Suffix(x, end)))
      BY <1>5, <3>2, CutUnfolds
    <3> QED
      BY <3>1, <3>3
  <2> QED
    BY <1>1, <2>1, <2>2, <2>3
<1>6. CASE busy = 0 /\ end = 1
  <2>1. 1 \in 1 .. N /\ end # 0
    BY <1>6
  <2>2. ASSUME NEW c \in Seq(Piece)
        PROVE  Cut(b \o c) = Cut(Suffix(b, 1) \o c)
    <3>1. PICK x \in Seq(Piece) : x = b \o c /\ Suffix(x, 1) = Suffix(b, 1) \o c
      BY <1>3, <2>1
    <3>2. Busy(x) = 0 /\ Delimiter(x) = 1
      BY <1>2, <1>6, <2>1, <3>1, HeadsStay
    <3>3. Cut(x) = Cut(Suffix(x, 1))
      BY <3>2, CutUnfolds
    <3> QED
      BY <3>1, <3>3
  <2>3. Cut(b) = Cut(Suffix(b, 1))
    BY <1>2, <1>6, CutUnfolds
  <2> QED
    BY <1>1, <2>1, <2>2, <2>3
<1>7. CASE busy = 0 /\ end = 0
  BY <1>2, <1>7, CutUnfolds
<1> QED
  BY <1>4, <1>5, <1>6, <1>7

\* What the loop leaves is an end of the buffer with nothing to cut in it.
LEMMA WhatIsLeft ==
    ASSUME NEW b \in Seq(Piece)
    PROVE  /\ \E k \in 0 .. Len(b) : Cut(b).left = Suffix(b, k)
           /\ Busy(Cut(b).left) = 0 /\ Delimiter(Cut(b).left) = 0
<1>1. PICK N \in Nat : N = Len(b)
  BY LenProperties
<1> DEFINE Spent(n) == /\ \E k \in 0 .. N : Cut(Suffix(b, n)).left = Suffix(b, k)
                       /\ Busy(Cut(Suffix(b, n)).left) = 0 /\ Delimiter(Cut(Suffix(b, n)).left) = 0
           G == {n \in 0 .. N : Spent(n)}
<1>2. ASSUME NEW n \in 0 .. N, \A m \in n + 1 .. N : m \in G
      PROVE  n \in G
  <2>1. Suffix(b, n) \in Seq(Piece) /\ Len(Suffix(b, n)) = N - n
    BY <1>1, SuffixFacts
  <2>2. ASSUME NEW k \in 1 .. N - n
        PROVE  Suffix(Suffix(b, n), k) = Suffix(b, n + k) /\ n + k \in n + 1 .. N
    <3>1. n + k \in n + 1 .. N /\ k \in 0 .. Len(b) - n /\ n \in 0 .. Len(b)
      BY <1>1
    <3> QED
      BY <3>1, SuffixOfSuffix
  <2>3. CASE \E k \in 1 .. N - n, f \in Seq(Piece) :
               Cut(Suffix(b, n)) = Yields(f, Cut(Suffix(Suffix(b, n), k)))
    <3>1. PICK k \in 1 .. N - n, f \in Seq(Piece) : Cut(Suffix(b, n)) = Yields(f, Cut(Suffix(b, n + k)))
      BY <2>2, <2>3
    <3>2. Cut(Suffix(b, n)).left = Cut(Suffix(b, n + k)).left
      BY <3>1 DEF Yields
    <3>3. Spent(n + k)
      BY <1>2, <2>2
    <3> QED
      BY <3>2, <3>3
  <2>4. CASE \E k \in 1 .. N - n : Cut(Suffix(b, n)) = Cut(Suffix(Suffix(b, n), k))
    <3>1. PICK k \in 1 .. N - n : Cut(Suffix(b, n)) = Cut(Suffix(b, n + k))
      BY <2>2, <2>4
    <3>2. Spent(n + k)
      BY <1>2, <2>2
    <3> QED
      BY <3>1, <3>2
  <2>5. CASE /\ Busy(Suffix(b, n)) = 0 /\ Delimiter(Suffix(b, n)) = 0
             /\ Cut(Suffix(b, n)) = [frames |-> <<>>, left |-> Suffix(b, n)]
    <3>1. Cut(Suffix(b, n)).left = Suffix(b, n)
      BY <2>5
    <3> QED
      BY <2>5, <3>1
  <2> QED
    BY <2>1, <2>3, <2>4, <2>5, CutTurns
<1>3. G = 0 .. N
  <2>1. G \in SUBSET (0 .. N)
    OBVIOUS
  <2> HIDE DEF G
  <2> QED
    BY <1>2, <2>1, FromTheEnd
<1>4. Spent(0)
  <2>1. 0 \in 0 .. N
    OBVIOUS
  <2> QED
    BY <1>3, <2>1
<1> QED
  BY <1>1, <1>4, SuffixOfNone

LEMMA FramesAssociate ==
    ASSUME NEW x \in Seq(Seq(Piece)), NEW y \in Seq(Seq(Piece)), NEW z \in Seq(Seq(Piece))
    PROVE  (x \o y) \o z = x \o (y \o z)
BY ConcatAssociative, SMT

\* The loop cuts from a whole what it cuts from the first part and then from what that leaves with the rest behind it.
LEMMA CutInTwo ==
    ASSUME NEW a \in Seq(Piece), NEW c \in Seq(Piece)
    PROVE  Cut(a \o c) = [frames |-> Cut(a).frames \o Cut(Cut(a).left \o c).frames,
                          left |-> Cut(Cut(a).left \o c).left]
<1>1. PICK N \in Nat : N = Len(a)
  BY LenProperties
<1> DEFINE Rest(s) == Cut(Cut(s).left \o c)
           Split(s) == Cut(s \o c) = [frames |-> Cut(s).frames \o Rest(s).frames, left |-> Rest(s).left]
           G == {n \in 0 .. N : Split(Suffix(a, n))}
<1>2. ASSUME NEW n \in 0 .. N, \A m \in n + 1 .. N : m \in G
      PROVE  n \in G
  <2>1. PICK s \in Seq(Piece) : s = Suffix(a, n) /\ Len(s) = N - n
    BY <1>1, SuffixFacts
  <2>2. ASSUME NEW k \in 1 .. N - n
        PROVE  Split(Suffix(s, k)) /\ Suffix(s, k) \in Seq(Piece)
    <3>1. n + k \in n + 1 .. N /\ k \in 0 .. Len(a) - n /\ n \in 0 .. Len(a) /\ k \in 0 .. Len(s)
      BY <1>1, <2>1
    <3>2. Suffix(s, k) = Suffix(a, n + k) /\ Suffix(s, k) \in Seq(Piece)
      BY <2>1, <3>1, SuffixOfSuffix, SuffixFacts
    <3> QED
      BY <1>2, <3>1, <3>2
  <2>3. ASSUME NEW k \in 1 .. N - n, NEW f \in Seq(Piece),
               Cut(s) = Yields(f, Cut(Suffix(s, k))), Cut(s \o c) = Yields(f, Cut(Suffix(s, k) \o c))
        PROVE  Split(s)
    <3> DEFINE t == Suffix(s, k)
    <3>1. t \in Seq(Piece) /\ Split(t)
      BY <2>2
    <3>2. Cut(s).left = Cut(t).left /\ Cut(s).frames = <<f>> \o Cut(t).frames
      BY <2>3 DEF Yields
    <3>3. Cut(s \o c) = [frames |-> <<f>> \o Cut(t \o c).frames, left |-> Cut(t \o c).left]
      BY <2>3 DEF Yields
    <3> HIDE DEF t
    <3>4. Rest(s) = Rest(t)
      BY <3>2
    <3>5. /\ <<f>> \in Seq(Seq(Piece)) /\ Cut(t) \in Outcome /\ Cut(t).left \o c \in Seq(Piece)
          /\ Cut(t).frames \in Seq(Seq(Piece))
      <4>1. Cut(t) \in Outcome
        BY <3>1, CutUnfolds
      <4>2. Cut(t).left \in Seq(Piece) /\ Cut(t).frames \in Seq(Seq(Piece))
        BY <4>1 DEF Outcome
      <4> QED
        BY <4>1, <4>2, ConcatPieces
    <3>6. Rest(t).frames \in Seq(Seq(Piece))
      <4>1. Rest(t) \in Outcome
        BY <3>5, CutUnfolds
      <4> HIDE DEF Rest
      <4> QED
        BY <4>1 DEF Outcome
    <3> HIDE DEF Rest
    <3>7. Cut(t \o c).frames = Cut(t).frames \o Rest(t).frames /\ Cut(t \o c).left = Rest(t).left
      BY ONLY <3>1, OutcomeFields
    <3>8. <<f>> \o (Cut(t).frames \o Rest(t).frames) = (<<f>> \o Cut(t).frames) \o Rest(t).frames
      <4>1. <<f>> \in Seq(Seq(Piece)) /\ Cut(t).frames \in Seq(Seq(Piece)) /\ Rest(t).frames \in Seq(Seq(Piece))
        BY <3>5, <3>6
      <4> QED
        BY ONLY <4>1, FramesAssociate, ZenonT(30)
    <3>9. Cut(s \o c) = [frames |-> Cut(s).frames \o Rest(s).frames, left |-> Rest(s).left]
      BY <3>2, <3>3, <3>4, <3>7, <3>8
    <3> QED
      BY <3>9
  <2>4. ASSUME NEW k \in 1 .. N - n, Cut(s) = Cut(Suffix(s, k)), Cut(s \o c) = Cut(Suffix(s, k) \o c)
        PROVE  Split(s)
    BY <2>2, <2>4
  <2>5. ASSUME Cut(s) = [frames |-> <<>>, left |-> s]
        PROVE  Split(s)
    <3>1. Cut(s).frames = <<>> /\ Rest(s) = Cut(s \o c)
      BY <2>5
    <3>2. Cut(s \o c) \in Outcome
      BY ConcatPieces, CutUnfolds
    <3>3. /\ Cut(s \o c).frames \in Seq(Seq(Piece))
          /\ Cut(s \o c) = [frames |-> Cut(s \o c).frames, left |-> Cut(s \o c).left]
      BY <3>2 DEF Outcome
    <3>4. <<>> \o Cut(s \o c).frames = Cut(s \o c).frames
      BY <3>3, ConcatEmptySeq
    <3> QED
      BY <3>1, <3>3, <3>4
  <2>6. Split(s)
    <3> HIDE DEF Split
    <3> QED
      BY <2>1, <2>3, <2>4, <2>5, CutTurns
  <2> QED
    BY <2>1, <2>6
<1>3. G = 0 .. N
  <2>1. G \in SUBSET (0 .. N)
    OBVIOUS
  <2> HIDE DEF G
  <2> QED
    BY <1>2, <2>1, FromTheEnd
<1>4. Split(Suffix(a, 0))
  <2>1. 0 \in 0 .. N
    OBVIOUS
  <2> HIDE DEF Split
  <2> QED
    BY <1>3, <2>1
<1> QED
  BY <1>1, <1>4, SuffixOfNone

-----------------------------------------------------------------------------
(* The stream *)

FramerTypes ==
    /\ received \in Seq(Piece) /\ buffer \in Seq(Piece) /\ delivered \in Seq(Seq(Piece))
    /\ Len(received) \in Nat /\ Len(buffer) \in Nat /\ Len(buffer) <= Len(received)

FramerInv == FramerTypes /\ ChunkingIsInvisible

\* A set of positions, 0 among them, has a last one.
LEMMA LastPosition ==
    ASSUME NEW N \in Nat, NEW S \in SUBSET (1 .. N)
    PROVE  \E i \in {0} \cup S : \A j \in {0} \cup S : i >= j
<1>1. CASE S = {}
  BY <1>1
<1>2. CASE S # {}
  <2> DEFINE T == {n \in 1 .. N : N + 1 - n \in S}
  <2>1. \A j \in S : N + 1 - j \in T /\ j \in 1 .. N
    <3> TAKE j \in S
    <3>1. N + 1 - j \in 1 .. N /\ N + 1 - (N + 1 - j) = j
      OBVIOUS
    <3> QED
      BY <3>1
  <2>2. T \in SUBSET (1 .. N) /\ T # {}
    BY <1>2, <2>1
  <2>3. PICK n \in T : \A m \in T : n <= m
    <3> HIDE DEF T
    <3> QED
      BY <2>2, FirstPosition
  <2>4. N + 1 - n \in S /\ n \in 1 .. N
    BY <2>2, <2>3
  <2>5. ASSUME NEW j \in {0} \cup S
        PROVE  N + 1 - n >= j
    <3>1. CASE j = 0
      BY <2>4, <3>1
    <3>2. CASE j \in S
      <4>1. n <= N + 1 - j /\ j \in 1 .. N
        BY <2>1, <2>3, <3>2
      <4> QED
        BY <2>4, <4>1
    <3> QED
      BY <3>1, <3>2
  <2> QED
    BY <2>4, <2>5
<1> QED
  BY <1>1, <1>2

LEMMA LastIsMax ==
    ASSUME NEW N \in Nat, NEW S \in SUBSET (1 .. N)
    PROVE  Max({0} \cup S) \in {0} \cup S /\ \A j \in {0} \cup S : Max({0} \cup S) >= j
<1> DEFINE T == {0} \cup S
<1>1. \E i \in T : \A j \in T : i >= j
  BY LastPosition
<1> HIDE DEF T
<1>2. Max(T) \in T /\ \A j \in T : Max(T) >= j
  BY <1>1 DEF Max
<1> QED
  BY <1>2 DEF T

\* The boundary, named: the arithmetic prover cannot read the character.
Semicolon == ";"

LEMMA EndIsSemicolon ==
    ASSUME NEW b, NEW i
    PROVE  EndAt(b, i) <=> i \in 1 .. Len(b) /\ b[i] = Semicolon /\ Quotes(b, i) % 2 = 0
BY Zenon DEF EndAt, Semicolon

\* What an overflow keeps is the start of the buffer, and no boundary is in what it drops.
LEMMA SalvageFacts ==
    ASSUME NEW b \in Seq(Piece)
    PROVE  /\ Salvaged(b) \in Seq(Piece) /\ Len(Salvaged(b)) \in Nat /\ Len(Salvaged(b)) <= Len(b)
           /\ \E t \in Seq(Piece) : b = Salvaged(b) \o t /\ ~Contains(t, Semicolon)
<1>1. PICK N \in Nat : N = Len(b) /\ DOMAIN b = 1 .. N
  BY LenProperties
<1> DEFINE S == {i \in DOMAIN b : b[i] = Semicolon}
           L == LastBoundary(b)
<1>2. L \in {0} \cup S /\ \A j \in S : L >= j
  <2>1. S \in SUBSET (1 .. N) /\ L = Max({0} \cup S)
    BY Zenon, <1>1 DEF LastBoundary, Semicolon
  <2> HIDE DEF S, L
  <2>2. Max({0} \cup S) \in {0} \cup S /\ \A j \in {0} \cup S : Max({0} \cup S) >= j
    BY <2>1, LastIsMax
  <2> QED
    BY <2>1, <2>2
<1>3. L \in 0 .. N
  <2>1. S \in SUBSET (1 .. N)
    BY <1>1
  <2> HIDE DEF S, L
  <2> QED
    BY <1>2, <2>1
<1>4. \A j \in 1 .. N : b[j] = Semicolon => j <= L
  <2>1. \A j \in S : j <= L
    <3>1. \A j \in S : L >= j /\ j \in 1 .. N
      BY <1>1, <1>2
    <3> HIDE DEF S, L
    <3> QED
      BY <1>3, <3>1
  <2> QED
    BY <1>1, <2>1
<1> HIDE DEF S
<1>5. Salvaged(b) \in Seq(Piece)
  <2>1. L \in 0 .. Len(b) /\ Salvaged(b) = SubSeq(b, 1, L)
    BY <1>1, <1>3 DEF Salvaged
  <2> HIDE DEF L
  <2> QED
    BY <2>1, PrefixIsSeq
<1>6. PICK t \in Seq(Piece) : t = Suffix(b, L) /\ Len(t) = N - L /\ \A i \in 1 .. N - L : t[i] = b[L + i]
  BY <1>1, <1>3, SuffixFacts
<1>7. ASSUME NEW i \in 1 .. Len(t)
      PROVE  t[i] # Semicolon
  <2>1. i \in 1 .. N - L /\ L + i \in 1 .. N /\ ~(L + i <= L)
    BY <1>3, <1>6
  <2> QED
    BY <1>4, <1>6, <2>1
<1>8. b = Salvaged(b) \o t /\ Len(Salvaged(b)) = L
  <2>1. Salvaged(b) = SubSeq(b, 1, L)
    BY DEF Salvaged, L
  <2>2. CASE L = 0
    <3>1. SubSeq(b, 1, 0) = <<>>
      BY SubSeqEmpty
    <3>2. t = b /\ <<>> \o b = b /\ Len(<<>>) = 0
      BY <1>6, <2>2, SuffixOfNone, ConcatEmptySeq
    <3> QED
      BY <2>1, <2>2, <3>1, <3>2
  <2>3. CASE L # 0
    <3>1. L \in 1 .. N
      BY <1>3, <2>3
    <3>2. Len(SubSeq(b, 1, L)) = L
      <4>1. 1 \in Int /\ L \in Int /\ \A i \in 1 .. L : b[i] \in Piece
        <5>1. \A i \in 1 .. L : i \in 1 .. Len(b)
          BY <1>1, <3>1
        <5> QED
          BY <3>1, <5>1, ElementOfSeq
      <4>2. Len(SubSeq(b, 1, L)) = IF 1 <= L THEN L - 1 + 1 ELSE 0
        BY <4>1, SubSeqProperties
      <4> QED
        BY <3>1, <4>2
    <3>3. SubSeq(b, 1, L) \o SubSeq(b, L + 1, N) = SubSeq(b, 1, N)
      <4>1. 1 \in 1 .. N + 1 /\ L \in 1 - 1 .. N /\ N \in L .. Len(b)
        BY <1>1, <3>1
      <4> QED
        BY <1>1, <3>1, <4>1, ConcatAdjacentSubSeq
    <3>4. SubSeq(b, 1, N) = b
      BY <1>1, SubSeqFull
    <3> QED
      BY <1>1, <1>6, <2>1, <3>2, <3>3, <3>4 DEF Suffix
  <2> QED
    BY <2>2, <2>3
<1>9. L \in Nat /\ L <= Len(b)
  <2> HIDE DEF L
  <2> QED
    BY <1>1, <1>3
<1> HIDE DEF L
<1>10. ~Contains(t, Semicolon)
  BY <1>7 DEF Contains
<1> QED
  BY <1>5, <1>8, <1>9, <1>10

\* What the loop leaves and then cuts keeps its type and its size.
LEMMA CutSizes ==
    ASSUME NEW b \in Seq(Piece)
    PROVE  /\ Cut(b).frames \in Seq(Seq(Piece)) /\ Cut(b).left \in Seq(Piece)
           /\ Len(Cut(b).left) \in Nat /\ Len(Cut(b).left) <= Len(b)
<1>1. Cut(b) \in Outcome
  BY CutUnfolds
<1>2. Cut(b).frames \in Seq(Seq(Piece)) /\ Cut(b).left \in Seq(Piece)
  BY <1>1 DEF Outcome
<1>3. PICK N \in Nat : N = Len(b)
  BY LenProperties
<1>4. PICK k \in 0 .. N : Cut(b).left = Suffix(b, k)
  BY <1>3, WhatIsLeft
<1>5. Len(Cut(b).left) = N - k
  BY <1>3, <1>4, SuffixFacts
<1> QED
  BY <1>2, <1>3, <1>5

LEMMA KeptFacts ==
    ASSUME NEW b \in Seq(Piece)
    PROVE  Kept(b) \in Seq(Piece) /\ Len(Kept(b)) \in Nat /\ Len(Kept(b)) <= Len(b)
<1>1. PICK N \in Nat : N = Len(b)
  BY LenProperties
<1>2. CASE Len(b) > MaxBuffer
  <2>1. Kept(b) = Salvaged(b)
    BY <1>2 DEF Kept
  <2> QED
    BY <2>1, SalvageFacts
<1>3. CASE ~(Len(b) > MaxBuffer)
  <2>1. Kept(b) = b
    BY <1>3 DEF Kept
  <2> QED
    BY <1>1, <2>1
<1> QED
  BY <1>2, <1>3

LEMMA ChunkIsSeq ==
    ASSUME NEW n \in Nat, NEW chunk \in [1 .. n -> Piece]
    PROVE  chunk \in Seq(Piece)
BY IsASeq

LEMMA FramerInvStep ==
    ASSUME MaxChunk \in Nat, MaxBuffer \in Nat, FramerInv, [FramerNext]_framerVars
    PROVE  FramerInv'
<1> USE DEF FramerInv, FramerTypes
<1>1. CASE UNCHANGED framerVars
  BY <1>1 DEF framerVars, ChunkingIsInvisible, Fits
<1>2. ASSUME NEW n \in 1 .. MaxChunk, NEW chunk \in [1 .. n -> Piece], Ingest(chunk)
      PROVE  FramerInv'
  <2>1. chunk \in Seq(Piece) /\ Len(chunk) \in Nat
    <3>1. n \in Nat
      OBVIOUS
    <3>2. chunk \in Seq(Piece)
      BY <3>1, ChunkIsSeq
    <3> QED
      BY <3>2, LenProperties
  <2>2. PICK all \in Seq(Piece), kept \in Seq(Piece) :
          /\ all = buffer \o chunk /\ kept = Kept(all)
          /\ Len(all) \in Nat /\ Len(all) = Len(buffer) + Len(chunk)
          /\ Len(kept) \in Nat /\ Len(kept) <= Len(all)
    BY <2>1, ConcatPieces, KeptFacts, LenProperties
  <2>3. /\ buffer' = Cut(kept).left /\ delivered' = delivered \o Cut(kept).frames
        /\ received' = received \o chunk
    BY <1>2, <2>2 DEF Ingest
  <2>4. /\ received' \in Seq(Piece) /\ Len(received') = Len(received) + Len(chunk)
    BY <2>1, <2>3, ConcatPieces
  <2>5. /\ Cut(kept).frames \in Seq(Seq(Piece)) /\ buffer' \in Seq(Piece)
        /\ Len(buffer') \in Nat /\ Len(buffer') <= Len(kept)
    BY <2>3, CutSizes
  <2>6. delivered' \in Seq(Seq(Piece))
    BY <2>3, <2>5, ConcatProperties
  <2>7. Len(received') \in Nat /\ Len(buffer') <= Len(received')
    BY <2>1, <2>2, <2>4, <2>5
  <2>8. ASSUME Fits'
        PROVE  Cut(received') = [frames |-> delivered', left |-> buffer']
    <3>1. Len(received') <= MaxBuffer
      BY <2>8 DEF Fits
    <3>2. Len(received) <= MaxBuffer /\ ~(Len(all) > MaxBuffer)
      BY <2>1, <2>2, <2>4, <3>1
    <3>3. Cut(received) = [frames |-> delivered, left |-> buffer]
      BY <3>2 DEF ChunkingIsInvisible, Fits
    <3>4. kept = buffer \o chunk
      BY <2>2, <3>2 DEF Kept
    <3>5. Cut(received).frames = delivered /\ Cut(received).left = buffer
      BY ONLY <3>3, OutcomeFields
    <3>6. Cut(received \o chunk) = [frames |-> Cut(received).frames \o Cut(Cut(received).left \o chunk).frames,
                                    left |-> Cut(Cut(received).left \o chunk).left]
      BY <2>1, CutInTwo
    <3> QED
      BY <2>3, <3>4, <3>5, <3>6
  <2>9. ChunkingIsInvisible'
    BY <2>8 DEF ChunkingIsInvisible
  <2> QED
    BY <2>4, <2>5, <2>6, <2>7, <2>9
<1> QED
  BY <1>1, <1>2 DEF FramerNext

LEMMA FramerInvInit ==
    ASSUME FramerInit
    PROVE  FramerInv
<1>1. /\ received = <<>> /\ buffer = <<>> /\ delivered = <<>>
  BY DEF FramerInit
<1>2. <<>> \in Seq(Piece) /\ <<>> \in Seq(Seq(Piece)) /\ Len(<<>>) = 0
  OBVIOUS
<1>3. Cut(<<>>) = [frames |-> <<>>, left |-> <<>>]
  <2>1. Busy(<<>>) = 0 /\ Delimiter(<<>>) = 0
    <3>1. Busy(<<>>) \in 0 .. 0 /\ Delimiter(<<>>) \in 0 .. 0
      BY <1>2, HeadsFit
    <3> QED
      BY <3>1
  <2> QED
    BY <1>2, <2>1, CutUnfolds
<1> QED
  BY <1>1, <1>2, <1>3 DEF FramerInv, FramerTypes, ChunkingIsInvisible

(* While the stream fits the buffer, the session gets the frames it would get had everything come at once, *)
(* however ingest was fed it: a busy answer cut in its digits and a quoted semicolon split from its quote   *)
(* included (rdo.ts, ingest).                                                                               *)
THEOREM ChunksInvisible ==
    ASSUME MaxChunk \in Nat, MaxBuffer \in Nat
    PROVE  FramerSpec => []ChunkingIsInvisible
<1>1. FramerInit => FramerInv
  BY FramerInvInit
<1>2. FramerInv /\ [FramerNext]_framerVars => FramerInv'
  BY FramerInvStep
<1>3. FramerInv => ChunkingIsInvisible
  BY DEF FramerInv
<1> QED
  BY <1>1, <1>2, <1>3, PTL DEF FramerSpec

-----------------------------------------------------------------------------
(* The overflow *)

LEMMA FramesInTwo ==
    ASSUME NEW a \in Seq(Piece), NEW c \in Seq(Piece)
    PROVE  Cut(a \o c).frames = Cut(a).frames \o Cut(Cut(a).left \o c).frames
<1>1. Cut(a \o c) = [frames |-> Cut(a).frames \o Cut(Cut(a).left \o c).frames,
                     left |-> Cut(Cut(a).left \o c).left]
  BY CutInTwo
<1> QED
  BY ONLY <1>1, OutcomeFields

\* A tail without a boundary behind what the loop left gives it nothing to cut.
LEMMA TailHasNoEnd ==
    ASSUME NEW left \in Seq(Piece), NEW t \in Seq(Piece), Delimiter(left) = 0,
           ~Contains(t, Semicolon), ~Contains(left \o t, "error")
    PROVE  Cut(left \o t).frames = <<>>
<1>1. PICK N \in Nat, M \in Nat : N = Len(left) /\ M = Len(t)
  BY LenProperties
<1>2. PICK x \in Seq(Piece) : x = left \o t
  BY ConcatPieces
<1>3. /\ Len(x) = N + M
      /\ \A i \in 1 .. N : x[i] = left[i]
      /\ \A i \in 1 .. M : x[N + i] = t[i]
      /\ \A i \in 1 .. M : t[i] # Semicolon
      /\ \A i \in 1 .. N + M : x[i] # "error"
  <2>1. Len(x) = N + M /\ (\A i \in 1 .. N : x[i] = left[i]) /\ \A i \in 1 .. M : x[N + i] = t[i]
    BY <1>1, <1>2, ConcatPieces
  <2>2. \A i \in 1 .. M : t[i] # Semicolon
    BY <1>1 DEF Contains
  <2>3. \A i \in 1 .. N + M : x[i] # "error"
    BY <1>2, <2>1 DEF Contains
  <2> QED
    BY <2>1, <2>2, <2>3
<1>4. Busy(x) = 0
  <2>1. SUFFICES ASSUME Busy(x) # 0
                 PROVE  FALSE
    OBVIOUS
  <2>2. x[2] = "error" /\ Busy(x) \in 3 .. Len(x) - 1
    BY <2>1, BusyFacts DEF BusyAt
  <2>3. 2 \in 1 .. N + M
    BY <1>3, <2>2
  <2> QED
    BY <1>3, <2>2, <2>3
<1>5. Delimiter(x) = 0
  <2>1. SUFFICES ASSUME Delimiter(x) # 0
                 PROVE  FALSE
    OBVIOUS
  <2>2. PICK d \in 1 .. N + M : d = Delimiter(x) /\ EndAt(x, d)
    BY <1>3, <2>1, DelimiterFacts, EndIsSemicolon
  <2>3. CASE d <= N
    <3>1. d \in 1 .. N /\ \A j \in 1 .. d : j \in 1 .. N
      BY <2>3
    <3>2. {j \in 1 .. d : x[j] = "quote"} = {j \in 1 .. d : left[j] = "quote"}
      BY <1>3, <3>1
    <3>3. Quotes(x, d) = Quotes(left, d) /\ x[d] = left[d]
      BY <1>3, <3>1, <3>2 DEF Quotes
    <3>4. EndAt(left, d)
      BY <1>1, <2>2, <3>1, <3>3, EndIsSemicolon
    <3> QED
      BY <3>4, DelimiterFacts
  <2>4. CASE N < d
    <3>1. d - N \in 1 .. M /\ N + (d - N) = d
      BY <2>4
    <3>2. x[d] = t[d - N] /\ t[d - N] # Semicolon
      BY <1>3, <3>1
    <3> QED
      BY <2>2, <3>2, EndIsSemicolon
  <2> QED
    BY <2>3, <2>4
<1>6. Cut(x) = [frames |-> <<>>, left |-> x]
  BY <1>4, <1>5, CutUnfolds
<1>7. Cut(x).frames = <<>>
  BY ONLY <1>6, OutcomeFields
<1> QED
  BY <1>2, <1>7

\* With no busy answer in a buffer, what the loop leaves of its start yields no frame with the rest behind it.
LEMMA NothingInTheTail ==
    ASSUME NEW p \in Seq(Piece), NEW t \in Seq(Piece), ~Contains(p \o t, "error"), ~Contains(t, Semicolon)
    PROVE  Cut(Cut(p).left \o t).frames = <<>>
<1>1. PICK b \in Seq(Piece), L \in Nat : b = p \o t /\ L = Len(b)
  BY ConcatPieces
<1>2. PICK N \in Nat : N = Len(p)
  BY LenProperties
<1>3. PICK k \in 0 .. N : Cut(p).left = Suffix(p, k)
  BY <1>2, WhatIsLeft
<1>4. Cut(p).left \o t = Suffix(b, k) /\ k \in 0 .. L
  BY <1>1, <1>2, <1>3, SuffixOfConcat
<1>5. ASSUME NEW i \in 1 .. L - k
      PROVE  Suffix(b, k)[i] # "error"
  <2>1. Suffix(b, k)[i] = b[k + i]
    BY <1>1, <1>4, SuffixFacts
  <2>2. k + i \in 1 .. L
    BY <1>4
  <2> QED
    BY <1>1, <2>1, <2>2 DEF Contains
<1>6. Len(Suffix(b, k)) = L - k
  BY <1>1, <1>4, SuffixFacts
<1>7. ~Contains(Cut(p).left \o t, "error")
  BY <1>4, <1>5, <1>6 DEF Contains
<1>8. Cut(p).left \in Seq(Piece) /\ Delimiter(Cut(p).left) = 0
  BY CutSizes, WhatIsLeft
<1> QED
  BY <1>7, <1>8, TailHasNoEnd

(* A chunk that makes the buffer overflow loses none of the frames that were complete in it, unless a busy *)
(* answer, which ends at no boundary, is among them (rdo.ts, the cut at lastIndexOf(';')).                  *)
THEOREM OverflowLosesNoFrame ==
    ASSUME MaxChunk \in Nat, MaxBuffer \in Nat
    PROVE  FramerSpec => OverflowKeepsFrames
<1> DEFINE all == buffer \o SubSeq(received', Len(received) + 1, Len(received'))
           Keeps == ~Contains(all, "error") => delivered' = delivered \o Cut(all).frames
<1>1. ASSUME FramerInv, FramerNext
      PROVE  Keeps
  <2>1. PICK n \in 1 .. MaxChunk : \E c \in [1 .. n -> Piece] : Ingest(c)
    BY <1>1 DEF FramerNext
  <2>2. PICK chunk \in [1 .. n -> Piece] : Ingest(chunk)
    BY <2>1
  <2>3. chunk \in Seq(Piece) /\ received \in Seq(Piece) /\ buffer \in Seq(Piece)
    <3>1. n \in Nat
      OBVIOUS
    <3> QED
      BY <1>1, <3>1, ChunkIsSeq DEF FramerInv, FramerTypes
  <2>4. /\ received' = received \o chunk
        /\ delivered' = delivered \o Cut(Kept(buffer \o chunk)).frames
    BY <2>2 DEF Ingest
  <2>5. SubSeq(received', Len(received) + 1, Len(received')) = chunk
    <3>1. PICK N \in Nat : N = Len(received) /\ N \in 0 .. Len(received)
      BY <2>3, LenProperties
    <3>2. Suffix(received \o chunk, N) = Suffix(received, N) \o chunk
      BY <2>3, <3>1, SuffixOfConcat
    <3>3. Suffix(received, N) = <<>>
      <4>1. N \in Int /\ N + 1 \in Int /\ N < N + 1
        OBVIOUS
      <4> QED
        BY <3>1, <4>1, SubSeqEmpty DEF Suffix
    <3>4. <<>> \o chunk = chunk
      BY <2>3, ConcatEmptySeq
    <3> QED
      BY <2>4, <3>1, <3>2, <3>3, <3>4 DEF Suffix
  <2>6. PICK b \in Seq(Piece) : b = buffer \o chunk /\ b = all
    BY <2>3, <2>5, ConcatPieces
  <2>7. CASE Len(b) > MaxBuffer
    <3>1. SUFFICES ASSUME ~Contains(b, "error")
                   PROVE  Cut(Salvaged(b)).frames = Cut(b).frames
      BY <2>4, <2>6, <2>7 DEF Kept
    <3>2. PICK p \in Seq(Piece), t \in Seq(Piece) :
            p = Salvaged(b) /\ b = p \o t /\ ~Contains(t, Semicolon)
      BY SalvageFacts
    <3>3. Cut(b).frames = Cut(p).frames \o Cut(Cut(p).left \o t).frames
      BY <3>2, FramesInTwo
    <3>4. Cut(Cut(p).left \o t).frames = <<>>
      BY <3>1, <3>2, NothingInTheTail
    <3>5. Cut(p).frames \o <<>> = Cut(p).frames
      BY CutSizes, ConcatEmptySeq
    <3> QED
      BY <3>2, <3>3, <3>4, <3>5
  <2>8. CASE ~(Len(b) > MaxBuffer)
    BY <2>4, <2>6, <2>8 DEF Kept
  <2> QED
    BY <2>7, <2>8
<1>2. FramerInv /\ [FramerNext]_framerVars => [Keeps]_framerVars
  BY <1>1
<1>3. FramerInit => FramerInv
  BY FramerInvInit
<1>4. FramerInv /\ [FramerNext]_framerVars => FramerInv'
  BY FramerInvStep
<1>5. FramerSpec => [][Keeps]_framerVars
  <2> HIDE DEF Keeps, all
  <2> QED
    BY <1>2, <1>3, <1>4, PTL DEF FramerSpec
<1> QED
  BY <1>5 DEF OverflowKeepsFrames

-----------------------------------------------------------------------------
(* The frames *)

\* A frame the session can read: it is not empty, and no semicolon outside quotes is in it.
Whole(frame) == frame # <<>> /\ Delimiter(frame) = 0

LEMMA PrefixFacts ==
    ASSUME NEW b \in Seq(Piece), NEW k \in 1 .. Len(b)
    PROVE  /\ SubSeq(b, 1, k) \in Seq(Piece) /\ SubSeq(b, 1, k) # <<>> /\ Len(SubSeq(b, 1, k)) = k
           /\ \A i \in 1 .. k : SubSeq(b, 1, k)[i] = b[i]
<1>1. PICK N \in Nat : N = Len(b) /\ k \in 1 .. N
  BY LenProperties
<1>2. \A i \in 1 .. k : b[i] \in Piece
  <2>1. \A i \in 1 .. k : i \in 1 .. N
    BY <1>1
  <2> QED
    BY <1>1, <2>1, ElementOfSeq
<1>3. /\ SubSeq(b, 1, k) \in Seq(Piece)
      /\ Len(SubSeq(b, 1, k)) = IF 1 <= k THEN k - 1 + 1 ELSE 0
      /\ \A i \in 1 .. k - 1 + 1 : SubSeq(b, 1, k)[i] = b[1 + i - 1]
  <2>1. k \in Int /\ 1 \in Int
    BY <1>1
  <2> QED
    BY <1>2, <2>1, SubSeqProperties
<1>4. Len(SubSeq(b, 1, k)) = k /\ \A i \in 1 .. k : SubSeq(b, 1, k)[i] = b[i]
  <2>1. 1 <= k /\ k - 1 + 1 = k /\ \A i \in 1 .. k : 1 + i - 1 = i
    BY <1>1
  <2> QED
    BY <1>3, <2>1
<1>5. SubSeq(b, 1, k) # <<>>
  <2>1. k # 0 /\ Len(<<>>) = 0
    BY <1>1
  <2> QED
    BY <1>4, <2>1
<1> QED
  BY <1>3, <1>4, <1>5

\* What a turn cuts from the head of a buffer is whole.
LEMMA HeadsAreWhole ==
    ASSUME NEW b \in Seq(Piece)
    PROVE  /\ Busy(b) # 0 => Whole(SubSeq(b, 1, Busy(b)))
           /\ Busy(b) = 0 /\ Delimiter(b) > 1 => Whole(SubSeq(b, 1, Delimiter(b) - 1))
<1>1. PICK N \in Nat : N = Len(b)
  BY LenProperties
<1>2. ASSUME Busy(b) # 0
      PROVE  Whole(SubSeq(b, 1, Busy(b)))
  <2>1. PICK e \in 3 .. N - 1 : e = Busy(b) /\ BusyAt(b, e)
    BY <1>1, <1>2, BusyFacts DEF BusyAt
  <2>2. e \in 1 .. N /\ e \in Nat
    BY <2>1
  <2>3. PICK f \in Seq(Piece) :
          f = SubSeq(b, 1, e) /\ f # <<>> /\ Len(f) = e /\ \A i \in 1 .. e : f[i] = b[i]
    BY <1>1, <2>2, PrefixFacts
  <2>4. ASSUME NEW i \in 1 .. e
        PROVE  b[i] \in {"A", "error", "1"}
    <3>1. i = 1 \/ i = 2 \/ i \in 3 .. e
      BY <2>2
    <3> QED
      BY <2>1, <3>1 DEF BusyAt
  <2>5. ASSUME NEW i, EndAt(f, i)
        PROVE  FALSE
    <3>1. i \in 1 .. e /\ f[i] = Semicolon
      BY <2>3, <2>5, EndIsSemicolon
    <3>2. f[i] \in {"A", "error", "1"}
      BY <2>3, <2>4, <3>1
    <3>3. Semicolon \notin {"A", "error", "1"}
      BY Zenon DEF Semicolon
    <3> QED
      BY <3>1, <3>2, <3>3
  <2>6. Delimiter(f) = 0
    BY <2>5, DelimiterFacts
  <2> QED
    BY <2>1, <2>3, <2>6 DEF Whole
<1>3. ASSUME Busy(b) = 0, Delimiter(b) > 1
      PROVE  Whole(SubSeq(b, 1, Delimiter(b) - 1))
  <2>1. PICK d \in 1 .. N : d = Delimiter(b) /\ d > 1
    BY <1>1, <1>3, HeadsFit
  <2>2. d - 1 \in 1 .. N /\ d - 1 \in Nat /\ d - 1 <= N /\ ~(d <= d - 1)
    BY <2>1
  <2>3. PICK f \in Seq(Piece), M \in Nat :
          /\ f = SubSeq(b, 1, d - 1) /\ f # <<>> /\ Len(f) = M /\ M = d - 1
          /\ \A i \in 1 .. M : b[i] = f[i]
    BY <1>1, <2>2, PrefixFacts
  <2>4. /\ Busy(f) # 0 => Busy(b) = Busy(f)
        /\ Busy(f) = 0 /\ Delimiter(f) # 0 => Delimiter(b) = Delimiter(f)
    BY <1>1, <2>2, <2>3, PrefixHeads
  <2>5. Delimiter(f) \in 0 .. M
    BY <2>3, HeadsFit
  <2>6. Delimiter(f) = 0
    <3>1. Delimiter(f) # d
      BY <2>2, <2>3, <2>5
    <3> QED
      BY <1>3, <2>1, <2>4, <3>1
  <2> QED
    BY <2>1, <2>3, <2>6 DEF Whole
<1> QED
  BY <1>2, <1>3

WholeFrames == {f \in Seq(Piece) : Whole(f)}

LEMMA CutsWholeFrames ==
    ASSUME NEW b \in Seq(Piece)
    PROVE  Cut(b).frames \in Seq(WholeFrames)
<1>1. PICK N \in Nat : N = Len(b)
  BY LenProperties
<1> DEFINE G == {n \in 0 .. N : Cut(Suffix(b, n)).frames \in Seq(WholeFrames)}
<1>2. ASSUME NEW n \in 0 .. N, \A m \in n + 1 .. N : m \in G
      PROVE  n \in G
  <2>1. PICK s \in Seq(Piece), M \in Nat : s = Suffix(b, n) /\ Len(s) = M /\ M = N - n
    <3>1. N - n \in Nat
      OBVIOUS
    <3> QED
      BY <1>1, <3>1, SuffixFacts
  <2>2. PICK busy \in 0 .. M, end \in 0 .. M : busy = Busy(s) /\ end = Delimiter(s)
    BY <2>1, HeadsFit
  <2>3. ASSUME NEW k \in 1 .. M
        PROVE  Cut(Suffix(s, k)).frames \in Seq(WholeFrames)
    <3>1. n + k \in n + 1 .. N /\ k \in 0 .. Len(b) - n /\ n \in 0 .. Len(b)
      BY <1>1, <2>1
    <3>2. Suffix(s, k) = Suffix(b, n + k)
      BY <2>1, <3>1, SuffixOfSuffix
    <3> QED
      BY <1>2, <3>1, <3>2
  <2>4. ASSUME NEW k \in 1 .. M, NEW f \in Seq(Piece), Whole(f), Cut(s) = Yields(f, Cut(Suffix(s, k)))
        PROVE  Cut(s).frames \in Seq(WholeFrames)
    <3>1. <<f>> \in Seq(WholeFrames)
      BY <2>4 DEF WholeFrames
    <3>2. Cut(s).frames = <<f>> \o Cut(Suffix(s, k)).frames
      BY <2>4 DEF Yields
    <3> QED
      BY <2>3, <3>1, <3>2, ConcatProperties
  <2>5. CASE busy # 0
    <3>1. busy \in 1 .. M
      BY <2>5
    <3>2. Whole(SubSeq(s, 1, busy)) /\ Cut(s) = Yields(SubSeq(s, 1, busy), Cut(Suffix(s, busy)))
      BY <2>2, <2>5, HeadsAreWhole, CutUnfolds
    <3>3. SubSeq(s, 1, busy) \in Seq(Piece)
      BY <2>1, <3>1, PrefixFacts
    <3> QED
      BY <2>1, <2>4, <3>1, <3>2, <3>3
  <2>6. CASE busy = 0 /\ end > 1
    <3>1. end \in 1 .. M /\ end - 1 \in 1 .. M
      BY <2>6
    <3>2. Whole(SubSeq(s, 1, end - 1)) /\ Cut(s) = Yields(SubSeq(s, 1, end - 1), Cut(Suffix(s, end)))
      BY <2>2, <2>6, HeadsAreWhole, CutUnfolds
    <3>3. SubSeq(s, 1, end - 1) \in Seq(Piece)
      BY <2>1, <3>1, PrefixFacts
    <3> QED
      BY <2>1, <2>4, <3>1, <3>2, <3>3
  <2>7. CASE busy = 0 /\ end = 1
    <3>1. 1 \in 1 .. M
      BY <2>7
    <3>2. Cut(s) = Cut(Suffix(s, 1))
      BY <2>2, <2>7, CutUnfolds
    <3> QED
      BY <2>1, <2>3, <3>1, <3>2
  <2>8. CASE busy = 0 /\ end = 0
    <3>1. Cut(s) = [frames |-> <<>>, left |-> s]
      BY <2>2, <2>8, CutUnfolds
    <3>2. Cut(s).frames = <<>>
      BY ONLY <3>1, OutcomeFields
    <3>3. <<>> \in Seq(WholeFrames)
      OBVIOUS
    <3> QED
      BY <2>1, <3>2, <3>3
  <2> QED
    BY <2>5, <2>6, <2>7, <2>8
<1>3. G = 0 .. N
  <2>1. G \in SUBSET (0 .. N)
    OBVIOUS
  <2> HIDE DEF G
  <2> QED
    BY <1>2, <2>1, FromTheEnd
<1>4. 0 \in G
  <2>1. 0 \in 0 .. N
    OBVIOUS
  <2> QED
    BY <1>3, <2>1
<1> QED
  BY <1>4, SuffixOfNone

(* What the session is handed is never empty and holds no frame's end, and no complete frame is left waiting *)
(* in the buffer (rdo.ts, ingest).                                                                           *)
FramesAreWhole ==
    /\ \A i \in 1 .. Len(delivered) : Whole(delivered[i])
    /\ Busy(buffer) = 0 /\ Delimiter(buffer) = 0

(* Whatever the world sends and however it is split, past the buffer's limit too, the frames handed over are *)
(* whole and none waits for the next chunk.                                                                  *)
THEOREM NoFrameWaits ==
    ASSUME MaxChunk \in Nat, MaxBuffer \in Nat
    PROVE  FramerSpec => []FramesAreWhole
<1> DEFINE Inv == /\ FramerInv /\ delivered \in Seq(WholeFrames)
                  /\ Busy(buffer) = 0 /\ Delimiter(buffer) = 0
<1>1. FramerInit => Inv
  <2> SUFFICES ASSUME FramerInit PROVE Inv
    OBVIOUS
  <2>1. FramerInv /\ buffer = <<>> /\ delivered = <<>>
    BY FramerInvInit DEF FramerInit
  <2>2. <<>> \in Seq(Piece) /\ <<>> \in Seq(WholeFrames) /\ Len(<<>>) = 0
    OBVIOUS
  <2>3. Busy(<<>>) \in 0 .. 0 /\ Delimiter(<<>>) \in 0 .. 0
    BY <2>2, HeadsFit
  <2>4. Busy(<<>>) = 0 /\ Delimiter(<<>>) = 0
    BY <2>3
  <2> QED
    BY <2>1, <2>2, <2>4
<1>2. Inv /\ [FramerNext]_framerVars => Inv'
  <2> SUFFICES ASSUME Inv, [FramerNext]_framerVars PROVE Inv'
    OBVIOUS
  <2>1. FramerInv'
    BY FramerInvStep
  <2>2. CASE UNCHANGED framerVars
    BY <2>1, <2>2 DEF framerVars
  <2>3. ASSUME NEW n \in 1 .. MaxChunk, NEW chunk \in [1 .. n -> Piece], Ingest(chunk)
        PROVE  Inv'
    <3>1. PICK kept \in Seq(Piece) : buffer' = Cut(kept).left /\ delivered' = delivered \o Cut(kept).frames
      <4>1. n \in Nat
        OBVIOUS
      <4>2. chunk \in Seq(Piece) /\ buffer \in Seq(Piece)
        BY <4>1, ChunkIsSeq DEF FramerInv, FramerTypes
      <4>3. Kept(buffer \o chunk) \in Seq(Piece)
        BY <4>2, ConcatPieces, KeptFacts
      <4> QED
        BY <2>3, <4>3 DEF Ingest
    <3>2. Busy(buffer') = 0 /\ Delimiter(buffer') = 0
      BY <3>1, WhatIsLeft
    <3>3. delivered' \in Seq(WholeFrames)
      BY <3>1, CutsWholeFrames, ConcatProperties
    <3>4. Busy(buffer)' = 0 /\ Delimiter(buffer)' = 0
      BY <3>2
    <3> QED
      BY <2>1, <3>3, <3>4
  <2> QED
    BY <2>2, <2>3 DEF FramerNext
<1>3. Inv => FramesAreWhole
  <2> SUFFICES ASSUME Inv PROVE FramesAreWhole
    OBVIOUS
  <2>1. \A i \in 1 .. Len(delivered) : delivered[i] \in WholeFrames
    BY ElementOfSeq
  <2> QED
    BY <2>1 DEF FramesAreWhole, WholeFrames
<1> QED
  <2> HIDE DEF Inv
  <2> QED
    BY <1>1, <1>2, <1>3, PTL DEF FramerSpec
=============================================================================
