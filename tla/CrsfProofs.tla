------------------------------- MODULE CrsfProofs -------------------------------
(***************************************************************************)
(* What parse_frames computes, for every buffer and every checksum: it     *)
(* comes to the same in whatever pieces the bytes arrive, finds an intact  *)
(* frame behind any noise that starts none, and keeps less than a frame.   *)
(* The function recurs on shorter and shorter buffers; the library's       *)
(* theorems on induction speak of operators, so the ones needed here are   *)
(* derived for sets and functions from the smallest element of a set.      *)
(***************************************************************************)
EXTENDS Crsf, SequenceTheorems, WellFoundedInduction, TLAPS

(***************************************************************************)
(* Induction and recursion.                                                *)
(***************************************************************************)

\* A set of naturals has a smallest element.
LEMMA SmallestOf ==
    ASSUME NEW T \in SUBSET Nat, T # {}
    PROVE  \E n \in T : \A m \in T : n <= m
<1> DEFINE R == OpToRel(<, Nat)
<1>1. IsWellFoundedOn(R, Nat)
  BY NatLessThanWellFounded
<1> HIDE DEF R
<1>2. PICK n \in T : \A m \in T : <<m, n>> \notin R
  BY <1>1, WFMin
<1>3. \A m \in T : ~(m < n)
  BY <1>2 DEF R, OpToRel
<1>4. QED
  BY <1>2, <1>3

\* A set that has whatever comes after smaller members has everything.
LEMMA RankInduction ==
    ASSUME NEW S, NEW rank \in [S -> Nat], NEW G,
           \A x \in S : (\A y \in S : rank[y] < rank[x] => y \in G) => x \in G
    PROVE  S \subseteq G
<1> SUFFICES ASSUME S \ G # {} PROVE FALSE
  OBVIOUS
<1> DEFINE T == {rank[x] : x \in S \ G}
<1>1. T \in SUBSET Nat /\ T # {}
  OBVIOUS
<1>2. PICK n \in T : \A m \in T : n <= m
  BY <1>1, SmallestOf
<1>3. PICK x \in S \ G : rank[x] = n
  BY <1>2
<1>4. ASSUME NEW y \in S, rank[y] < rank[x], y \notin G
      PROVE  FALSE
  <2>1. rank[y] \in T /\ rank[y] \in Nat /\ n \in Nat
    BY <1>1, <1>4
  <2>2. n <= rank[y]
    BY <1>2, <2>1
  <2> HIDE DEF T
  <2>3. QED
    BY <1>3, <1>4, <2>1, <2>2
<1>5. QED
  BY <1>3, <1>4

\* f computes step where the rank is less than n.
Computes(f, step, rank, S, n) == \A x \in S : rank[x] < n => f[x] = step[<<x, f>>]

\* step looks f up only at arguments of a smaller rank.
Descends(step, rank, S, T) ==
    \A x \in S, f \in [S -> T], g \in [S -> T] :
        (\A y \in S : rank[y] < rank[x] => f[y] = g[y]) => step[<<x, f>>] = step[<<x, g>>]

Recursion(step, rank, S, T) ==
    /\ T # {}
    /\ rank \in [S -> Nat]
    /\ step \in [S \X [S -> T] -> T]
    /\ Descends(step, rank, S, T)

Solved(step, S, T) == \E f \in [S -> T] : \A x \in S : f[x] = step[<<x, f>>]

\* A positive number has one before it.
LEMMA Predecessor ==
    ASSUME NEW i \in Nat, i # 0
    PROVE  \E j \in Nat : j < i /\ j = i - 1
<1>1. i - 1 \in Nat /\ i - 1 < i
  OBVIOUS
<1>2. QED
  BY <1>1

\* A set that has whatever comes after smaller numbers has all of them.
LEMMA StrongInduction ==
    ASSUME NEW G, \A k \in Nat : (\A j \in Nat : j < k => j \in G) => k \in G
    PROVE  Nat \subseteq G
<1> DEFINE id == [k \in Nat |-> k]
<1>1. id \in [Nat -> Nat]
  OBVIOUS
<1>2. \A k \in Nat : id[k] = k
  OBVIOUS
<1> HIDE DEF id
<1>3. \A k \in Nat : (\A j \in Nat : id[j] < id[k] => j \in G) => k \in G
  BY <1>2
<1>4. QED
  BY <1>1, <1>3, RankInduction

\* Up to any rank there is a function that computes a step that descends ...
LEMMA ComputesUpTo ==
    ASSUME NEW S, NEW T, T # {}, NEW rank \in [S -> Nat], NEW step \in [S \X [S -> T] -> T],
           Descends(step, rank, S, T), NEW n \in Nat
    PROVE  \E f \in [S -> T] : Computes(f, step, rank, S, n)
<1> DEFINE G == {k \in Nat : \E f \in [S -> T] : Computes(f, step, rank, S, k)}
<1>1. ASSUME NEW k \in Nat, \A j \in Nat : j < k => j \in G
      PROVE  k \in G
  <2>1. \A j \in Nat : j < k => \E f \in [S -> T] : Computes(f, step, rank, S, j)
    BY <1>1
  <2> SUFFICES \E f \in [S -> T] : Computes(f, step, rank, S, k)
    OBVIOUS
  <2> HIDE DEF G
  <2>2. CASE k = 0
    <3>1. PICK t \in T : TRUE
      OBVIOUS
    <3>2. [x \in S |-> t] \in [S -> T]
      OBVIOUS
    <3>3. Computes([x \in S |-> t], step, rank, S, 0)
      BY DEF Computes
    <3>4. QED
      BY <2>2, <3>2, <3>3
  <2>3. CASE k # 0
    <3>1. PICK j \in Nat : j < k /\ j = k - 1
      BY <2>3, Predecessor
    <3>2. PICK f \in [S -> T] : Computes(f, step, rank, S, k - 1)
      BY <2>1, <3>1
    <3> DEFINE g == [x \in S |-> step[<<x, f>>]]
    <3>3. g \in [S -> T]
      OBVIOUS
    <3>4. ASSUME NEW x \in S, rank[x] < k
          PROVE  g[x] = step[<<x, g>>]
      <4>1. \A y \in S : rank[y] < rank[x] => f[y] = g[y]
        BY <3>2, <3>4 DEF Computes
      <4> HIDE DEF g
      <4>2. step[<<x, f>>] = step[<<x, g>>]
        BY <3>3, <4>1 DEF Descends
      <4>3. g[x] = step[<<x, f>>]
        BY DEF g
      <4>4. QED
        BY <4>2, <4>3
    <3>5. Computes(g, step, rank, S, k)
      BY <3>4 DEF Computes
    <3>6. QED
      BY <3>3, <3>5
  <2>4. QED
    BY <2>2, <2>3
<1> HIDE DEF G
<1>2. Nat \subseteq G
  BY <1>1, StrongInduction
<1> USE DEF G
<1>3. QED
  BY <1>2

\* ... two of them agree where both do, and so one computes it everywhere.
LEMMA RecursionDefines ==
    ASSUME NEW S, NEW T, NEW rank, NEW step, Recursion(step, rank, S, T)
    PROVE  Solved(step, S, T)
<1> SUFFICES ASSUME T # {}, rank \in [S -> Nat], step \in [S \X [S -> T] -> T],
                    Descends(step, rank, S, T)
             PROVE  \E f \in [S -> T] : \A x \in S : f[x] = step[<<x, f>>]
  BY DEF Recursion, Solved
<1>0. \A m, n \in Nat, f, g \in [S -> T] :
         m <= n /\ Computes(f, step, rank, S, m) /\ Computes(g, step, rank, S, n)
            => \A z \in S : rank[z] < m => f[z] = g[z]
  <2> SUFFICES ASSUME NEW m \in Nat, NEW n \in Nat, NEW f \in [S -> T], NEW g \in [S -> T],
                      m <= n, Computes(f, step, rank, S, m), Computes(g, step, rank, S, n)
               PROVE  \A x \in S : rank[x] < m => f[x] = g[x]
    OBVIOUS
  <2> DEFINE G == {x \in S : rank[x] < m => f[x] = g[x]}
  <2>1. ASSUME NEW x \in S, \A y \in S : rank[y] < rank[x] => y \in G
        PROVE  x \in G
    <3> SUFFICES ASSUME rank[x] < m PROVE f[x] = g[x]
      OBVIOUS
    <3>1. rank[x] \in Nat /\ \A y \in S : rank[y] \in Nat
      OBVIOUS
    <3>2. \A y \in S : rank[y] < rank[x] => f[y] = g[y]
      BY <2>1, <3>1
    <3>3. step[<<x, f>>] = step[<<x, g>>]
      BY <3>2 DEF Descends
    <3>4. f[x] = step[<<x, f>>] /\ g[x] = step[<<x, g>>]
      BY <3>1 DEF Computes
    <3>5. QED
      BY <3>3, <3>4
  <2> HIDE DEF G
  <2>2. S \subseteq G
    BY <2>1, RankInduction
  <2>3. QED
    BY <2>2 DEF G
<1> DEFINE Upto(n) == CHOOSE f \in [S -> T] : Computes(f, step, rank, S, n)
           f == [x \in S |-> Upto(rank[x] + 1)[x]]
<1>1. ASSUME NEW n \in Nat
      PROVE  Upto(n) \in [S -> T] /\ Computes(Upto(n), step, rank, S, n)
  BY <1>1, ComputesUpTo
<1> HIDE DEF Upto
<1>2. f \in [S -> T]
  BY <1>1
<1>3. ASSUME NEW x \in S
      PROVE  f[x] = step[<<x, f>>]
  <2> DEFINE n == rank[x] + 1
             u == Upto(n)
  <2>0. rank[x] \in Nat /\ n \in Nat
    OBVIOUS
  <2>1. u \in [S -> T] /\ Computes(u, step, rank, S, n)
    BY <1>1, <2>0
  <2>2. ASSUME NEW y \in S, rank[y] < rank[x]
        PROVE  u[y] = f[y]
    <3> DEFINE v == Upto(rank[y] + 1)
    <3>1. rank[y] \in Nat /\ rank[y] + 1 \in Nat /\ rank[y] + 1 <= n
      BY <2>0, <2>2
    <3>2. v \in [S -> T] /\ Computes(v, step, rank, S, rank[y] + 1)
      BY <1>1, <3>1
    <3> DEFINE m == rank[y] + 1
    <3>3. m \in Nat /\ rank[y] < m /\ m <= n /\ Computes(v, step, rank, S, m)
      BY <3>1, <3>2
    <3> HIDE DEF f, u, v, n, m
    <3>4. \A z \in S : rank[z] < m => v[z] = u[z]
      BY <1>0, <2>0, <2>1, <3>2, <3>3
    <3>5. v[y] = u[y]
      BY <3>3, <3>4
    <3>6. QED
      BY <3>5 DEF f, v
  <2>3. u[x] = step[<<x, u>>]
    <3>1. rank[x] < n
      BY <2>0
    <3> HIDE DEF f, u, n
    <3>2. QED
      BY <2>1, <3>1 DEF Computes
  <2>4. f[x] = u[x]
    OBVIOUS
  <2> HIDE DEF f, u, n
  <2>5. step[<<x, u>>] = step[<<x, f>>]
    BY <1>2, <2>1, <2>2 DEF Descends
  <2>6. QED
    BY <2>3, <2>4, <2>5
<1>4. QED
  BY <1>2, <1>3

(***************************************************************************)
(* The parser, unfolded once.                                              *)
(***************************************************************************)

Parsed == [frames : Seq(Frames), buf : Seq(Nat)]

\* What parse_frames makes of b, if f is what it makes of shorter buffers.
ParseWith(b, f) ==
    IF Len(b) < 4 THEN Wait(b)
    ELSE IF ~Candidate(b) THEN f[Tail(b)]
    ELSE IF ~Complete(b) THEN Wait(b)
    ELSE LET later == f[Rest(b)]
         IN  IF Intact(b) THEN [later EXCEPT !.frames = <<FirstFrame(b)>> \o @] ELSE later

\* What is behind the first byte, and behind the first frame.
LEMMA TailShorter ==
    ASSUME NEW b \in Seq(Nat), Len(b) >= 1
    PROVE  Tail(b) \in Seq(Nat) /\ Len(Tail(b)) = Len(b) - 1
<1>1. Len(b) \in Nat /\ b # <<>>
  BY EmptySeq
<1>2. QED
  BY <1>1, HeadTailProperties

\* A complete candidate is a frame, and what follows it is a shorter buffer.
LEMMA RestShorter ==
    ASSUME NEW b \in Seq(Nat), Len(b) >= 4, Candidate(b), Complete(b)
    PROVE  /\ Total(b) \in 4..Len(b)
           /\ Rest(b) \in Seq(Nat) /\ Len(Rest(b)) = Len(b) - Total(b)
           /\ FirstFrame(b) \in Frames
<1>1. Len(b) \in Nat /\ \A i \in 1..Len(b) : b[i] \in Nat
  OBVIOUS
<1>2. Total(b) \in 4..Len(b)
  BY <1>1 DEF Candidate, Complete, Total, MIN_FRAME_LEN
<1>3. Rest(b) \in Seq(Nat) /\ Len(Rest(b)) = Len(b) - Total(b)
  <2>1. \A i \in (Total(b) + 1)..Len(b) : b[i] \in Nat
    BY <1>1, <1>2
  <2>2. Total(b) + 1 \in Int /\ Len(b) \in Int
    BY <1>1, <1>2
  <2>3. /\ SubSeq(b, Total(b) + 1, Len(b)) \in Seq(Nat)
        /\ Len(SubSeq(b, Total(b) + 1, Len(b)))
              = IF Total(b) + 1 <= Len(b) THEN Len(b) - (Total(b) + 1) + 1 ELSE 0
    BY <2>1, <2>2, SubSeqProperties
  <2>4. QED
    BY <1>1, <1>2, <2>3 DEF Rest
<1>4. FirstFrame(b) \in Frames
  <2>1. \A i \in 4..(Total(b) - 1) : b[i] \in Nat
    BY <1>1, <1>2
  <2>2. SubSeq(b, 4, Total(b) - 1) \in Seq(Nat)
    BY <1>2, <2>1, SubSeqProperties
  <2>3. b[3] \in Nat
    BY <1>1
  <2>4. QED
    BY <2>2, <2>3 DEF FirstFrame, Frames
<1>5. QED
  BY <1>2, <1>3, <1>4

\* One round of the loop yields frames and bytes if the rounds after it do.
LEMMA ParseWithTypes ==
    ASSUME NEW b \in Seq(Nat), NEW f \in [Seq(Nat) -> Parsed]
    PROVE  ParseWith(b, f) \in Parsed
<1>0. Len(b) \in Nat
  OBVIOUS
<1>1. Wait(b) \in Parsed
  BY DEF Wait, Parsed
<1>2. CASE Len(b) >= 4 /\ ~Candidate(b)
  <2>1. Tail(b) \in Seq(Nat)
    BY <1>2, TailShorter
  <2>2. ParseWith(b, f) = f[Tail(b)]
    BY <1>0, <1>2 DEF ParseWith
  <2>3. QED
    BY <2>1, <2>2
<1>3. CASE Len(b) >= 4 /\ Candidate(b) /\ Complete(b)
  <2>1. f[Rest(b)] \in Parsed /\ FirstFrame(b) \in Frames
    BY <1>3, RestShorter
  <2>2. f[Rest(b)].frames \in Seq(Frames)
    BY <2>1 DEF Parsed
  <2>3. <<FirstFrame(b)>> \o f[Rest(b)].frames \in Seq(Frames)
    BY <2>1, <2>2, ConcatProperties
  <2>4. [f[Rest(b)] EXCEPT !.frames = <<FirstFrame(b)>> \o f[Rest(b)].frames] \in Parsed
    BY <2>1, <2>3 DEF Parsed
  <2>5. QED
    BY <1>0, <1>3, <2>1, <2>4 DEF ParseWith
<1>4. CASE Len(b) < 4 \/ (Len(b) >= 4 /\ Candidate(b) /\ ~Complete(b))
  <2>1. ParseWith(b, f) = Wait(b)
    BY <1>0, <1>4 DEF ParseWith
  <2>2. QED
    BY <1>1, <2>1
<1>5. QED
  BY <1>0, <1>2, <1>3, <1>4

\* The recursion is well-founded, so parse_frames is what its definition says.
LEMMA ParseUnfolds ==
    \A b \in Seq(Nat) : parse_frames[b] = ParseWith(b, parse_frames)
<1> DEFINE S == Seq(Nat)
           rank == [b \in S |-> Len(b)]
           step == [x \in S \X [S -> Parsed] |-> ParseWith(x[1], x[2])]
<1>1. Parsed # {}
  <2>1. [frames |-> <<>>, buf |-> <<>>] \in Parsed
    BY DEF Parsed
  <2>2. QED
    BY <2>1
<1>2. rank \in [S -> Nat] /\ \A b \in S : rank[b] = Len(b)
  OBVIOUS
<1>3. step \in [S \X [S -> Parsed] -> Parsed]
  <2>1. \A x \in S \X [S -> Parsed] : ParseWith(x[1], x[2]) \in Parsed
    BY ParseWithTypes
  <2>2. QED
    BY <2>1
<1>4. \A b \in S, f \in [S -> Parsed] : step[<<b, f>>] = ParseWith(b, f)
  OBVIOUS
<1> HIDE DEF rank, step
<1>5. ASSUME NEW b \in S, NEW f \in [S -> Parsed], NEW g \in [S -> Parsed],
             \A c \in S : rank[c] < rank[b] => f[c] = g[c]
      PROVE  step[<<b, f>>] = step[<<b, g>>]
  <2>1. Len(b) \in Nat /\ \A c \in S : Len(c) < Len(b) => f[c] = g[c]
    BY <1>2, <1>5
  <2>2. ASSUME Len(b) >= 4
        PROVE  f[Tail(b)] = g[Tail(b)]
    <3>1. Tail(b) \in S /\ Len(Tail(b)) < Len(b)
      BY <2>1, <2>2, TailShorter
    <3>2. QED
      BY <2>1, <3>1
  <2>3. ASSUME Len(b) >= 4, Candidate(b), Complete(b)
        PROVE  f[Rest(b)] = g[Rest(b)]
    <3>1. Rest(b) \in S /\ Len(Rest(b)) < Len(b)
      BY <2>1, <2>3, RestShorter
    <3>2. QED
      BY <2>1, <3>1
  <2>4. ParseWith(b, f) = ParseWith(b, g)
    <3>1. CASE Len(b) < 4
      BY <3>1 DEF ParseWith
    <3>2. CASE Len(b) >= 4
      BY <2>1, <2>2, <2>3, <3>2 DEF ParseWith
    <3>3. QED
      BY <2>1, <3>1, <3>2
  <2>5. QED
    BY <1>4, <2>4
<1>6. PICK f \in [S -> Parsed] : \A b \in S : f[b] = step[<<b, f>>]
  <2>1. Descends(step, rank, S, Parsed)
    BY <1>5 DEF Descends
  <2>2. Recursion(step, rank, S, Parsed)
    BY <1>1, <1>2, <1>3, <2>1 DEF Recursion
  <2>3. Solved(step, S, Parsed)
    BY <2>2, RecursionDefines
  <2>4. QED
    BY <2>3 DEF Solved
<1>7. f = [b \in S |-> ParseWith(b, f)]
  BY <1>4, <1>6
<1> DEFINE IsParse(p) == p = [b \in Seq(Nat) |-> ParseWith(b, p)]
<1>8. IsParse(CHOOSE p : IsParse(p))
  BY <1>7
<1>9. parse_frames = CHOOSE p : IsParse(p)
  BY DEF parse_frames, ParseWith
<1>10. IsParse(parse_frames)
  BY <1>8, <1>9
<1>11. QED
  BY <1>10

\* What holds of a buffer if it holds of the shorter ones holds of all.
LEMMA BufferInduction ==
    ASSUME NEW G, \A b \in Seq(Nat) : (\A c \in Seq(Nat) : Len(c) < Len(b) => c \in G) => b \in G
    PROVE  Seq(Nat) \subseteq G
<1> DEFINE S == Seq(Nat)
           rank == [b \in S |-> Len(b)]
<1>1. rank \in [S -> Nat] /\ \A b \in S : rank[b] = Len(b)
  OBVIOUS
<1> HIDE DEF rank
<1>2. \A b \in S : (\A c \in S : rank[c] < rank[b] => c \in G) => b \in G
  BY <1>1
<1> HIDE DEF S
<1>3. S \subseteq G
  BY <1>1, <1>2, RankInduction
<1>4. QED
  BY <1>3 DEF S

\* The frame at the start of a buffer, if its checksum is right.
Found(b) == IF Intact(b) THEN <<FirstFrame(b)>> ELSE <<>>

\* What the parser finds in b, and what it keeps of it.
Parse(b, frames, buf) == parse_frames[b].frames = frames /\ parse_frames[b].buf = buf

\* The cases of the definition.
Waiting(b) == Len(b) < 4 \/ (Candidate(b) /\ ~Complete(b))

\* The four ways parse_frames goes on, by what the buffer begins with.
LEMMA ParseCases ==
    ASSUME NEW b \in Seq(Nat)
    PROVE  /\ Waiting(b) => parse_frames[b] = Wait(b)
           /\ Len(b) >= 4 /\ ~Candidate(b) => parse_frames[b] = parse_frames[Tail(b)]
           /\ Len(b) >= 4 /\ Candidate(b) /\ Complete(b) =>
                 parse_frames[b] =
                    IF Intact(b)
                    THEN [parse_frames[Rest(b)] EXCEPT !.frames = <<FirstFrame(b)>> \o @]
                    ELSE parse_frames[Rest(b)]
<1>1. parse_frames[b] = ParseWith(b, parse_frames) /\ Len(b) \in Nat
  BY ParseUnfolds
<1>2. QED
  BY <1>1 DEF ParseWith, Waiting

\* Whatever the bytes, parse_frames yields frames and leaves bytes.
LEMMA ParseTypes == \A b \in Seq(Nat) : parse_frames[b] \in Parsed
<1> DEFINE G == {b \in Seq(Nat) : parse_frames[b] \in Parsed}
<1>1. ASSUME NEW b \in Seq(Nat), \A c \in Seq(Nat) : Len(c) < Len(b) => c \in G
      PROVE  b \in G
  <2>1. Len(b) \in Nat /\ \A c \in Seq(Nat) : Len(c) < Len(b) => parse_frames[c] \in Parsed
    BY <1>1
  <2>2. CASE Len(b) >= 4 /\ ~Candidate(b)
    <3>1. Tail(b) \in Seq(Nat) /\ Len(Tail(b)) < Len(b)
      BY <2>1, <2>2, TailShorter
    <3>2. parse_frames[b] = parse_frames[Tail(b)]
      BY <2>2, ParseCases
    <3>3. QED
      BY <2>1, <3>1, <3>2
  <2>3. CASE Len(b) >= 4 /\ Candidate(b) /\ Complete(b)
    <3> DEFINE later == parse_frames[Rest(b)]
    <3>1. Rest(b) \in Seq(Nat) /\ Len(Rest(b)) < Len(b) /\ FirstFrame(b) \in Frames
      BY <2>1, <2>3, RestShorter
    <3>2. later \in Parsed /\ later.frames \in Seq(Frames)
      BY <2>1, <3>1 DEF Parsed
    <3>3. \/ parse_frames[b] = [later EXCEPT !.frames = <<FirstFrame(b)>> \o @]
          \/ parse_frames[b] = later
      BY <2>3, ParseCases
    <3> HIDE DEF later
    <3>4. <<FirstFrame(b)>> \o later.frames \in Seq(Frames)
      BY <3>1, <3>2, ConcatProperties
    <3>5. QED
      BY <3>2, <3>3, <3>4 DEF Parsed
  <2>4. CASE Waiting(b)
    <3>1. parse_frames[b] = Wait(b)
      BY <2>4, ParseCases
    <3>2. Wait(b) \in Parsed
      BY DEF Wait, Parsed
    <3>3. QED
      BY <3>1, <3>2
  <2>5. QED
    BY <2>1, <2>2, <2>3, <2>4 DEF Waiting
<1> HIDE DEF G
<1>2. Seq(Nat) \subseteq G
  BY <1>1, BufferInduction
<1>3. QED
  BY <1>2 DEF G

\* The parser on a buffer that waits, ...
LEMMA ParseWaits ==
    ASSUME NEW b \in Seq(Nat), Waiting(b)
    PROVE  Parse(b, <<>>, b)
<1>1. parse_frames[b] = [frames |-> <<>>, buf |-> b]
  BY ParseCases DEF Wait
<1>2. parse_frames[b].frames = <<>> /\ parse_frames[b].buf = b
  BY <1>1
<1>3. QED
  BY <1>2 DEF Parse

\* ... one that starts with no frame, ...
LEMMA ParseSkips ==
    ASSUME NEW b \in Seq(Nat), Len(b) >= 4, ~Candidate(b)
    PROVE  parse_frames[b] = parse_frames[Tail(b)]
BY ParseCases

\* ... and one that starts with a whole frame.
LEMMA ParseTakes ==
    ASSUME NEW b \in Seq(Nat), Len(b) >= 4, Candidate(b), Complete(b)
    PROVE  Parse(b, Found(b) \o parse_frames[Rest(b)].frames, parse_frames[Rest(b)].buf)
<1> DEFINE later == parse_frames[Rest(b)]
<1>1. later \in Parsed /\ FirstFrame(b) \in Frames
  BY RestShorter, ParseTypes
<1>2. later = [frames |-> later.frames, buf |-> later.buf] /\ later.frames \in Seq(Frames)
  BY <1>1 DEF Parsed
<1>3. CASE Intact(b)
  <2>1. parse_frames[b] = [later EXCEPT !.frames = <<FirstFrame(b)>> \o @]
    BY <1>3, ParseCases
  <2> HIDE DEF later
  <2>2. /\ parse_frames[b].frames = <<FirstFrame(b)>> \o later.frames
        /\ parse_frames[b].buf = later.buf
    BY <1>2, <2>1
  <2>3. QED
    BY <1>3, <2>2 DEF Parse, Found, later
<1>4. CASE ~Intact(b)
  <2>1. parse_frames[b] = later
    BY <1>4, ParseCases
  <2> HIDE DEF later
  <2>2. <<>> \o later.frames = later.frames
    BY <1>2, ConcatEmptySeq
  <2>3. parse_frames[b].frames = <<>> \o later.frames /\ parse_frames[b].buf = later.buf
    BY <2>1, <2>2
  <2>4. QED
    BY <1>4, <2>3 DEF Parse, Found, later
<1>5. QED
  BY <1>3, <1>4

(***************************************************************************)
(* What the pieces of a line say.                                          *)
(***************************************************************************)

\* What is behind p in p \o u is u.
LEMMA Behind ==
    ASSUME NEW S, NEW p \in Seq(S), NEW u \in Seq(S)
    PROVE  SubSeq(p \o u, Len(p) + 1, Len(p) + Len(u)) = u
<1>1. Len(p) \in Nat /\ Len(u) \in Nat
  OBVIOUS
<1>2. CASE Len(u) = 0
  <2>1. u = <<>>
    BY <1>2, EmptySeq
  <2>2. Len(p) + 1 \in Int /\ Len(p) + Len(u) \in Int /\ Len(p) + Len(u) < Len(p) + 1
    BY <1>1, <1>2
  <2>3. QED
    BY <2>1, <2>2, SubSeqEmpty
<1>3. CASE Len(u) # 0
  <2>1. /\ Len(p) + 1 \in (Len(p) + 1)..(Len(p) + Len(u))
        /\ Len(p) + Len(u) \in (Len(p) + 1)..(Len(p) + Len(u))
        /\ Len(p) + 1 - Len(p) = 1 /\ Len(p) + Len(u) - Len(p) = Len(u)
    BY <1>1, <1>3
  <2>2. SubSeq(p \o u, Len(p) + 1, Len(p) + Len(u))
           = SubSeq(u, Len(p) + 1 - Len(p), Len(p) + Len(u) - Len(p))
    BY <2>1, SubSeqOfConcat2
  <2>3. QED
    BY <2>1, <2>2, SubSeqFull
<1>4. QED
  BY <1>2, <1>3

\* A sequence cut anywhere.
LEMMA CutAt ==
    ASSUME NEW S, NEW b \in Seq(S), NEW k \in 0..Len(b)
    PROVE  /\ SubSeq(b, 1, k) \in Seq(S) /\ Len(SubSeq(b, 1, k)) = k
           /\ SubSeq(b, k + 1, Len(b)) \in Seq(S) /\ Len(SubSeq(b, k + 1, Len(b))) = Len(b) - k
           /\ b = SubSeq(b, 1, k) \o SubSeq(b, k + 1, Len(b))
<1>1. Len(b) \in Nat /\ \A i \in 1..Len(b) : b[i] \in S
  OBVIOUS
<1>2. SubSeq(b, 1, k) \in Seq(S) /\ Len(SubSeq(b, 1, k)) = k
  <2>1. 1 \in Int /\ k \in Int /\ \A i \in 1..k : b[i] \in S
    BY <1>1
  <2>2. /\ SubSeq(b, 1, k) \in Seq(S)
        /\ Len(SubSeq(b, 1, k)) = IF 1 <= k THEN k - 1 + 1 ELSE 0
    BY <2>1, SubSeqProperties
  <2>3. QED
    BY <1>1, <2>2
<1>3. SubSeq(b, k + 1, Len(b)) \in Seq(S) /\ Len(SubSeq(b, k + 1, Len(b))) = Len(b) - k
  <2>1. k + 1 \in Int /\ Len(b) \in Int /\ \A i \in (k + 1)..Len(b) : b[i] \in S
    BY <1>1
  <2>2. /\ SubSeq(b, k + 1, Len(b)) \in Seq(S)
        /\ Len(SubSeq(b, k + 1, Len(b))) = IF k + 1 <= Len(b) THEN Len(b) - (k + 1) + 1 ELSE 0
    BY <2>1, SubSeqProperties
  <2>3. QED
    BY <1>1, <2>2
<1>4. b = SubSeq(b, 1, k) \o SubSeq(b, k + 1, Len(b))
  <2>1. 1 \in 1..(Len(b) + 1) /\ k \in (1 - 1)..Len(b) /\ Len(b) \in k..Len(b)
    BY <1>1
  <2>2. SubSeq(b, 1, k) \o SubSeq(b, k + 1, Len(b)) = SubSeq(b, 1, Len(b))
    BY <2>1, ConcatAdjacentSubSeq
  <2>3. QED
    BY <2>2, SubSeqFull
<1>5. QED
  BY <1>2, <1>3, <1>4

\* The end of b \o c is the end of b, and c.
LEMMA SuffixOf ==
    ASSUME NEW S, NEW b \in Seq(S), NEW c \in Seq(S), NEW k \in 0..Len(b)
    PROVE  SubSeq(b \o c, k + 1, Len(b \o c)) = SubSeq(b, k + 1, Len(b)) \o c
<1> DEFINE p == SubSeq(b, 1, k)
           s == SubSeq(b, k + 1, Len(b))
<1>1. p \in Seq(S) /\ s \in Seq(S) /\ Len(p) = k /\ b = p \o s
  <2>1. /\ SubSeq(b, 1, k) \in Seq(S) /\ Len(SubSeq(b, 1, k)) = k
        /\ SubSeq(b, k + 1, Len(b)) \in Seq(S)
        /\ b = SubSeq(b, 1, k) \o SubSeq(b, k + 1, Len(b))
    BY CutAt, ZenonT(30)
  <2>2. QED
    BY <2>1, Zenon
<1> HIDE DEF p, s
<1>2. b \o c = p \o (s \o c)
  <2>1. p \in Seq(S) /\ s \in Seq(S)
    BY <1>1
  <2>2. (p \o s) \o c = p \o (s \o c)
    BY <2>1, ConcatAssociative
  <2>3. QED
    BY <1>1, <2>2
<1>3. s \o c \in Seq(S) /\ Len(p \o (s \o c)) = Len(p) + Len(s \o c)
  BY <1>1, ConcatProperties
<1>4. SubSeq(p \o (s \o c), Len(p) + 1, Len(p) + Len(s \o c)) = s \o c
  BY <1>1, <1>3, Behind
<1>5. QED
  BY <1>1, <1>2, <1>3, <1>4 DEF s

\* What the start of a buffer says does not depend on what follows.
LEMMA FrontOf ==
    ASSUME NEW b \in Seq(Nat), NEW c \in Seq(Nat), Len(b) >= 4
    PROVE  /\ b \o c \in Seq(Nat) /\ Len(b \o c) = Len(b) + Len(c)
           /\ Tail(b \o c) = Tail(b) \o c
           /\ Candidate(b \o c) <=> Candidate(b)
           /\ Total(b \o c) = Total(b)
<1>1. /\ Len(b) \in Nat /\ Len(c) \in Nat
      /\ b \o c \in Seq(Nat) /\ Len(b \o c) = Len(b) + Len(c)
      /\ \A i \in 1..(Len(b) + Len(c)) :
            (b \o c)[i] = IF i <= Len(b) THEN b[i] ELSE c[i - Len(b)]
  BY ConcatProperties
<1>2. (b \o c)[1] = b[1] /\ (b \o c)[2] = b[2]
  BY <1>1
<1>3. Tail(b \o c) = Tail(b) \o c
  <2>1. b # <<>> /\ b \o c # <<>> /\ 1 \in 0..Len(b) /\ 1 + 1 = 2
    BY <1>1, EmptySeq
  <2>2. Tail(b) = SubSeq(b, 2, Len(b)) /\ Tail(b \o c) = SubSeq(b \o c, 2, Len(b \o c))
    BY <1>1, <2>1, TailIsSubSeq
  <2>3. SubSeq(b \o c, 1 + 1, Len(b \o c)) = SubSeq(b, 1 + 1, Len(b)) \o c
    BY <2>1, SuffixOf
  <2>4. QED
    BY <2>1, <2>2, <2>3
<1>4. QED
  BY <1>1, <1>2, <1>3 DEF Candidate, Total

\* More bytes behind a complete candidate change nothing of it.
LEMMA FrameOfFront ==
    ASSUME NEW b \in Seq(Nat), NEW c \in Seq(Nat), Len(b) >= 4, Candidate(b), Complete(b)
    PROVE  Found(b \o c) = Found(b) /\ Rest(b \o c) = Rest(b) \o c
<1> DEFINE t == Total(b)
<1>1. Len(b) \in Nat /\ t \in 4..Len(b) /\ Total(b \o c) = t
  BY RestShorter, FrontOf
<1> HIDE DEF t
<1>2. 3 \in 1..Len(b) /\ 4 \in 1..Len(b) /\ t - 1 \in 1..Len(b) /\ t \in 0..Len(b)
  BY <1>1
<1>3. /\ SubSeq(b \o c, 3, t - 1) = SubSeq(b, 3, t - 1)
      /\ SubSeq(b \o c, 4, t - 1) = SubSeq(b, 4, t - 1)
  BY <1>2, SubSeqOfConcat1
<1>4. (b \o c)[3] = b[3] /\ (b \o c)[t] = b[t]
  BY <1>1, ConcatProperties
<1>5. Found(b \o c) = Found(b)
  BY <1>1, <1>3, <1>4 DEF Found, Intact, FirstFrame, t
<1>6. SubSeq(b \o c, t + 1, Len(b \o c)) = SubSeq(b, t + 1, Len(b)) \o c
  BY <1>2, SuffixOf
<1>7. QED
  BY <1>1, <1>5, <1>6 DEF Rest, t

(***************************************************************************)
(* Whatever the pieces.                                                    *)
(***************************************************************************)

\* What the parser keeps waits for more bytes.
LEMMA ParseSettles ==
    \A b \in Seq(Nat) : parse_frames[b].buf \in Seq(Nat) /\ Waiting(parse_frames[b].buf)
<1> DEFINE G == {b \in Seq(Nat) : Waiting(parse_frames[b].buf)}
<1>1. ASSUME NEW b \in Seq(Nat), \A c \in Seq(Nat) : Len(c) < Len(b) => c \in G
      PROVE  b \in G
  <2>1. Len(b) \in Nat /\ \A c \in Seq(Nat) : Len(c) < Len(b) => Waiting(parse_frames[c].buf)
    BY <1>1
  <2>2. CASE Len(b) >= 4 /\ ~Candidate(b)
    <3>1. Tail(b) \in Seq(Nat) /\ Len(Tail(b)) < Len(b)
      BY <2>1, <2>2, TailShorter
    <3>2. parse_frames[b] = parse_frames[Tail(b)]
      BY <2>2, ParseSkips
    <3>3. QED
      BY <2>1, <3>1, <3>2
  <2>3. CASE Len(b) >= 4 /\ Candidate(b) /\ Complete(b)
    <3>1. Rest(b) \in Seq(Nat) /\ Len(Rest(b)) < Len(b)
      BY <2>1, <2>3, RestShorter
    <3>2. parse_frames[b].buf = parse_frames[Rest(b)].buf
      BY <2>3, ParseTakes DEF Parse
    <3>3. QED
      BY <2>1, <3>1, <3>2
  <2>4. CASE Waiting(b)
    <3>1. parse_frames[b].buf = b
      BY <2>4, ParseWaits DEF Parse
    <3>2. QED
      BY <2>4, <3>1
  <2>5. QED
    BY <2>1, <2>2, <2>3, <2>4 DEF Waiting
<1> HIDE DEF G
<1>2. Seq(Nat) \subseteq G
  BY <1>1, BufferInduction
<1>3. QED
  BY <1>2, ParseTypes DEF G, Parsed

\* It is less than a frame of the greatest length.
THEOREM ParseBound ==
    ASSUME MaxLen \in Nat, MaxLen >= 3, NEW b \in Seq(Nat)
    PROVE  Len(parse_frames[b].buf) <= MaxLen + 1
<1> DEFINE q == parse_frames[b].buf
<1>1. q \in Seq(Nat) /\ Waiting(q)
  BY ParseSettles
<1> HIDE DEF q
<1>2. Len(q) \in Nat /\ (Len(q) >= 4 => q[2] \in Nat)
  BY <1>1
<1>3. Len(q) < 4 \/ (q[2] <= MaxLen /\ q[2] \in Nat /\ ~(Len(q) >= q[2] + 2))
  BY <1>1, <1>2 DEF Waiting, Candidate, Complete, Total, MIN_FRAME_LEN
<1>4. Len(q) <= MaxLen + 1
  BY <1>2, <1>3
<1>5. QED
  BY <1>4 DEF q

\* Rows of frames may be joined in any order.
LEMMA FramesAssociate ==
    \A s, t, u \in Seq(Frames) : s \o (t \o u) = (s \o t) \o u
BY ConcatAssociative

\* So may rows of bytes.
LEMMA BytesAssociate ==
    \A s, t, u \in Seq(Nat) : s \o (t \o u) = (s \o t) \o u
<1> DEFINE Byte == Nat
<1> HIDE DEF Byte
<1>1. \A s, t, u \in Seq(Byte) : s \o (t \o u) = (s \o t) \o u
  BY ConcatAssociative
<1>2. QED
  BY <1>1 DEF Byte

\* Reading b and then c comes to the same as reading them at once: the frames
\* of b, then those of what b left and c.
THEOREM ParseInPieces ==
    ASSUME NEW b \in Seq(Nat), NEW c \in Seq(Nat)
    PROVE  LET left == parse_frames[parse_frames[b].buf \o c]
           IN  Parse(b \o c, parse_frames[b].frames \o left.frames, left.buf)
<1> DEFINE Left(x) == parse_frames[parse_frames[x].buf \o c]
           Good(x) == Parse(x \o c, parse_frames[x].frames \o Left(x).frames, Left(x).buf)
           G == {x \in Seq(Nat) : Good(x)}
<1>0. ASSUME NEW x \in Seq(Nat)
      PROVE  Left(x) \in Parsed /\ x \o c \in Seq(Nat) /\ parse_frames[x].frames \in Seq(Frames)
             /\ Left(x).frames \in Seq(Frames)
  <2>1. parse_frames[x].buf \o c \in Seq(Nat) /\ x \o c \in Seq(Nat)
    BY ParseSettles, ConcatProperties
  <2>2. QED
    BY <2>1, ParseTypes DEF Parsed
<1>1. ASSUME NEW x \in Seq(Nat), \A y \in Seq(Nat) : Len(y) < Len(x) => Good(y)
      PROVE  Good(x)
  <2>1. Len(x) \in Nat
    OBVIOUS
  <2>2. CASE Len(x) >= 4 /\ ~Candidate(x)
    <3>1. Tail(x) \in Seq(Nat) /\ Len(Tail(x)) < Len(x)
      BY <2>1, <2>2, TailShorter
    <3>2. parse_frames[x] = parse_frames[Tail(x)]
      BY <2>2, ParseSkips
    <3>3. parse_frames[x \o c] = parse_frames[Tail(x) \o c]
      <4>1. /\ x \o c \in Seq(Nat) /\ Len(x \o c) = Len(x) + Len(c)
            /\ Tail(x \o c) = Tail(x) \o c /\ ~Candidate(x \o c)
        BY <2>2, FrontOf
      <4>2. Len(x \o c) >= 4
        BY <2>1, <2>2, <4>1
      <4>3. QED
        BY <4>1, <4>2, ParseSkips
    <3>4. Good(Tail(x))
      BY <1>1, <3>1
    <3>5. QED
      BY <3>2, <3>3, <3>4 DEF Parse
  <2>3. CASE Len(x) >= 4 /\ Candidate(x) /\ Complete(x)
    <3> DEFINE r == Rest(x)
    <3>1. r \in Seq(Nat) /\ Len(r) < Len(x) /\ FirstFrame(x) \in Frames
      BY <2>1, <2>3, RestShorter
    <3>2. Parse(x, Found(x) \o parse_frames[r].frames, parse_frames[r].buf)
      BY <2>3, ParseTakes
    <3>3. Parse(x \o c, Found(x) \o parse_frames[r \o c].frames, parse_frames[r \o c].buf)
      <4>1. /\ x \o c \in Seq(Nat) /\ Len(x \o c) = Len(x) + Len(c)
            /\ Candidate(x \o c) /\ Total(x \o c) = Total(x)
        BY <2>3, FrontOf
      <4>2. Total(x) \in 4..Len(x) /\ Len(c) \in Nat
        BY <2>3, RestShorter
      <4>3. Len(x \o c) >= 4 /\ Complete(x \o c)
        BY <2>1, <4>1, <4>2 DEF Complete
      <4>4. Found(x \o c) = Found(x) /\ Rest(x \o c) = r \o c
        BY <2>3, FrameOfFront
      <4>5. QED
        BY <4>1, <4>3, <4>4, ParseTakes
    <3>4. Good(r)
      BY <1>1, <3>1
    <3>5. Found(x) \in Seq(Frames)
      BY <3>1 DEF Found
    <3> HIDE DEF r
    <3>6. parse_frames[x].buf = parse_frames[r].buf
      BY <3>2 DEF Parse
    <3>7. parse_frames[r \o c].frames = parse_frames[r].frames \o Left(r).frames
      BY <3>4 DEF Parse
    <3>8. Found(x) \o (parse_frames[r].frames \o Left(r).frames)
             = (Found(x) \o parse_frames[r].frames) \o Left(r).frames
      <4>1. parse_frames[r].frames \in Seq(Frames) /\ Left(r).frames \in Seq(Frames)
        BY <1>0, <3>1
      <4>2. QED
        BY <3>5, <4>1, FramesAssociate
    <3>9. /\ parse_frames[x].frames = Found(x) \o parse_frames[r].frames
          /\ parse_frames[x \o c].frames = Found(x) \o parse_frames[r \o c].frames
          /\ parse_frames[x \o c].buf = parse_frames[r \o c].buf
          /\ parse_frames[r \o c].buf = Left(r).buf
      BY <3>2, <3>3, <3>4 DEF Parse
    <3>10. Left(x) = Left(r)
      BY <3>6
    <3> HIDE DEF Left
    <3>11. /\ parse_frames[x \o c].frames = parse_frames[x].frames \o Left(x).frames
           /\ parse_frames[x \o c].buf = Left(x).buf
      BY <3>7, <3>8, <3>9, <3>10
    <3>12. QED
      BY <3>11 DEF Parse
  <2>4. CASE Waiting(x)
    <3>1. parse_frames[x].frames = <<>> /\ parse_frames[x].buf = x
      BY <2>4, ParseWaits DEF Parse
    <3>2. Left(x) = parse_frames[x \o c] /\ Left(x) \in Parsed
      BY <1>0, <3>1
    <3>3. <<>> \o Left(x).frames = Left(x).frames
      BY <1>0, ConcatEmptySeq
    <3>4. QED
      BY <3>1, <3>2, <3>3 DEF Parse
  <2>5. QED
    BY <2>1, <2>2, <2>3, <2>4 DEF Waiting
<1> HIDE DEF Good
<1>2. \A x \in Seq(Nat) : (\A y \in Seq(Nat) : Len(y) < Len(x) => y \in G) => x \in G
  BY <1>1
<1> HIDE DEF G
<1>3. Seq(Nat) \subseteq G
  BY <1>2, BufferInduction
<1>4. Good(b)
  BY <1>3 DEF G
<1>5. QED
  BY <1>4 DEF Good

(***************************************************************************)
(* Noise, and a frame behind it.                                           *)
(***************************************************************************)

\* Bytes none of which is the length of a frame.
Quiet(r) == \A i \in 1..Len(r) : r[i] \notin MIN_FRAME_LEN..MaxLen

\* Dropping the first byte, with and without more bytes behind.
LEMMA TailOf ==
    ASSUME NEW b \in Seq(Nat), NEW c \in Seq(Nat), Len(b) >= 1
    PROVE  /\ Tail(b) \in Seq(Nat) /\ Len(Tail(b)) = Len(b) - 1
           /\ \A i \in 1..Len(Tail(b)) : Tail(b)[i] = b[i + 1]
           /\ Tail(b \o c) = Tail(b) \o c
<1>1. /\ Len(b) \in Nat /\ Len(c) \in Nat /\ b # <<>>
      /\ b \o c \in Seq(Nat) /\ Len(b \o c) = Len(b) + Len(c) /\ b \o c # <<>>
  <2>1. b \o c \in Seq(Nat) /\ Len(b \o c) = Len(b) + Len(c) /\ Len(b) \in Nat /\ Len(c) \in Nat
    BY ConcatProperties
  <2>2. QED
    BY <2>1, EmptySeq
<1>2. Tail(b) = SubSeq(b, 2, Len(b)) /\ Tail(b \o c) = SubSeq(b \o c, 2, Len(b \o c))
  BY <1>1, TailIsSubSeq
<1>3. 1 \in 0..Len(b) /\ 1 + 1 = 2
  BY <1>1
<1>4. SubSeq(b \o c, 1 + 1, Len(b \o c)) = SubSeq(b, 1 + 1, Len(b)) \o c
  BY <1>3, SuffixOf
<1>5. Tail(b) \in Seq(Nat) /\ Len(Tail(b)) = Len(b) - 1
  BY TailShorter
<1>6. \A i \in 1..Len(Tail(b)) : Tail(b)[i] = b[i + 1]
  <2>1. 2 \in Int /\ Len(b) \in Int /\ \A i \in 2..Len(b) : b[i] \in Nat
    BY <1>1
  <2>2. \A i \in 1..(Len(b) - 2 + 1) : SubSeq(b, 2, Len(b))[i] = b[2 + i - 1]
    BY <2>1, SubSeqProperties
  <2>3. QED
    BY <1>1, <1>2, <1>5, <2>2
<1>7. QED
  BY <1>2, <1>3, <1>4, <1>5, <1>6

\* A buffer whose second byte is no length starts with no frame.
LEMMA NoLength ==
    ASSUME NEW b \in Seq(Nat), b[2] \notin MIN_FRAME_LEN..MaxLen
    PROVE  ~Candidate(b)
BY DEF Candidate

\* The end of noise is noise.
LEMMA QuietTail ==
    ASSUME NEW r \in Seq(Nat), Quiet(r), Len(r) >= 1
    PROVE  Quiet(Tail(r))
<1>1. Len(r) \in Nat /\ Len(Tail(r)) = Len(r) - 1
  BY TailShorter
<1>2. \A i \in 1..Len(Tail(r)) : i + 1 \in 1..Len(r)
  BY <1>1
<1>3. \A i \in 1..Len(Tail(r)) : Tail(r)[i] = r[i + 1]
  BY TailOf
<1>4. QED
  BY <1>2, <1>3 DEF Quiet

\* Noise before a buffer is skipped, if that does not begin with a length.
THEOREM NoiseBefore ==
    ASSUME NEW c \in Seq(Nat), Len(c) >= 4, c[1] \notin MIN_FRAME_LEN..MaxLen,
           NEW r \in Seq(Nat), Quiet(r)
    PROVE  parse_frames[r \o c] = parse_frames[c]
<1> DEFINE G == {x \in Seq(Nat) : Quiet(x) => parse_frames[x \o c] = parse_frames[c]}
<1>1. ASSUME NEW x \in Seq(Nat), \A y \in Seq(Nat) : Len(y) < Len(x) => y \in G, Quiet(x)
      PROVE  parse_frames[x \o c] = parse_frames[c]
  <2>1. Len(x) \in Nat /\ Len(c) \in Nat
    OBVIOUS
  <2>2. CASE Len(x) = 0
    <3>1. x = <<>>
      BY <2>2, EmptySeq
    <3>2. QED
      BY <3>1, ConcatEmptySeq
  <2>3. CASE Len(x) >= 1
    <3>1. Tail(x) \in Seq(Nat) /\ Len(Tail(x)) < Len(x) /\ Tail(x \o c) = Tail(x) \o c
      <4>1. Tail(x) \in Seq(Nat) /\ Len(Tail(x)) < Len(x)
        BY <2>1, <2>3, TailShorter
      <4>2. QED
        BY <2>3, <4>1, TailOf
    <3>2. Quiet(Tail(x))
      BY <1>1, <2>3, QuietTail
    <3>3. Tail(x) \in G
      BY <1>1, <2>1, <3>1
    <3>4. /\ x \o c \in Seq(Nat) /\ Len(x \o c) >= 4
          /\ (x \o c)[2] = IF 2 <= Len(x) THEN x[2] ELSE c[2 - Len(x)]
      BY <2>1, <2>3, ConcatProperties
    <3>5. (x \o c)[2] \notin MIN_FRAME_LEN..MaxLen
      <4>1. CASE 2 <= Len(x)
        BY <1>1, <2>1, <3>4, <4>1 DEF Quiet
      <4>2. CASE Len(x) = 1
        <5>1. 2 - Len(x) = 1 /\ ~(2 <= Len(x))
          BY <4>2
        <5>2. QED
          BY <3>4, <5>1
      <4>3. QED
        BY <2>1, <2>3, <4>1, <4>2
    <3>6. ~Candidate(x \o c)
      BY <3>4, <3>5, NoLength
    <3>7. parse_frames[x \o c] = parse_frames[Tail(x \o c)]
      BY <3>4, <3>6, ParseSkips
    <3>8. QED
      BY <3>1, <3>2, <3>3, <3>7
  <2>4. QED
    BY <2>1, <2>2, <2>3
<1> HIDE DEF G
<1>2. \A x \in Seq(Nat) : (\A y \in Seq(Nat) : Len(y) < Len(x) => y \in G) => x \in G
  BY <1>1 DEF G
<1>3. Seq(Nat) \subseteq G
  BY <1>2, BufferInduction
<1>4. QED
  BY <1>3 DEF G

\* Noise alone has no frame, and what is kept of it is noise.
THEOREM NoiseAlone ==
    ASSUME NEW r \in Seq(Nat), Quiet(r)
    PROVE  parse_frames[r].frames = <<>> /\ Quiet(parse_frames[r].buf)
<1> DEFINE Good(x) == parse_frames[x].frames = <<>> /\ Quiet(parse_frames[x].buf)
           G == {x \in Seq(Nat) : Quiet(x) => Good(x)}
<1>1. ASSUME NEW x \in Seq(Nat), \A y \in Seq(Nat) : Len(y) < Len(x) => y \in G, Quiet(x)
      PROVE  Good(x)
  <2>1. Len(x) \in Nat
    OBVIOUS
  <2>2. CASE Len(x) < 4
    <3>1. parse_frames[x].frames = <<>> /\ parse_frames[x].buf = x
      BY <2>2, ParseWaits DEF Parse, Waiting
    <3>2. QED
      BY <1>1, <3>1
  <2>3. CASE Len(x) >= 4
    <3>1. Tail(x) \in Seq(Nat) /\ Len(Tail(x)) < Len(x)
      BY <2>1, <2>3, TailShorter
    <3>2. Quiet(Tail(x))
      BY <1>1, <2>3, QuietTail
    <3>3. ~Candidate(x)
      <4>1. 2 \in 1..Len(x)
        BY <2>1, <2>3
      <4>2. QED
        BY <1>1, <4>1, NoLength DEF Quiet
    <3>4. parse_frames[x] = parse_frames[Tail(x)]
      BY <2>3, <3>3, ParseSkips
    <3>5. Tail(x) \in G
      BY <1>1, <2>1, <3>1
    <3>6. QED
      BY <3>2, <3>4, <3>5
  <2>4. QED
    BY <2>1, <2>2, <2>3
<1> HIDE DEF Good
<1>2. \A x \in Seq(Nat) : (\A y \in Seq(Nat) : Len(y) < Len(x) => y \in G) => x \in G
  BY <1>1
<1> HIDE DEF G
<1>3. Seq(Nat) \subseteq G
  BY <1>2, BufferInduction
<1>4. Good(r)
  BY <1>3 DEF G
<1>5. QED
  BY <1>4 DEF Good

\* An empty buffer has no frame and leaves nothing.
LEMMA ParseEmpty == Parse(<<>>, <<>>, <<>>)
<1>1. <<>> \in Seq(Nat) /\ Len(<<>>) < 4
  BY EmptySeq
<1>2. QED
  BY <1>1, ParseWaits DEF Waiting

\* A buffer that is one frame leaves nothing.
LEMMA ParseWhole ==
    ASSUME NEW b \in Seq(Nat), Len(b) >= 4, Candidate(b), Total(b) = Len(b)
    PROVE  Parse(b, Found(b), <<>>)
<1>1. Complete(b)
  BY DEF Complete
<1>2. Rest(b) \in Seq(Nat) /\ Len(Rest(b)) = 0 /\ FirstFrame(b) \in Frames
  BY <1>1, RestShorter
<1>3. Rest(b) = <<>>
  BY <1>2, EmptySeq
<1>4. parse_frames[<<>>].frames = <<>> /\ parse_frames[<<>>].buf = <<>>
  BY ParseEmpty DEF Parse
<1>5. Found(b) \in Seq(Frames)
  BY <1>2 DEF Found
<1>6. Parse(b, Found(b) \o parse_frames[Rest(b)].frames, parse_frames[Rest(b)].buf)
  BY <1>1, ParseTakes
<1>7. Found(b) \o <<>> = Found(b)
  BY <1>5, ConcatEmptySeq
<1>8. QED
  BY <1>3, <1>4, <1>6, <1>7 DEF Parse

\* What holds of a line on which frames for the flight controller travel:
\* their address is one the parser knows, and no length.
SoundLine ==
    /\ MaxLen \in Nat
    /\ AddrFc \in Nat \cap Addresses
    /\ AddrFc \notin MIN_FRAME_LEN..MaxLen

\* A frame that is not too long.
Fits(f) == f \in Frames /\ Len(f.payload) + 2 <= MaxLen

\* The bytes of a frame with any checksum.
BytesWith(f, crc) ==
    <<AddrFc, Len(<<f.type>> \o f.payload) + 1>> \o (<<f.type>> \o f.payload) \o <<crc>>

\* They are a frame for the parser, intact if the checksum is the right one.
LEMMA OneFrame ==
    ASSUME SoundLine, NEW f, Fits(f), NEW crc \in Nat
    PROVE  LET b == BytesWith(f, crc)
           IN  /\ b \in Seq(Nat) /\ Len(b) >= 4 /\ Candidate(b) /\ Total(b) = Len(b)
               /\ b[1] \notin MIN_FRAME_LEN..MaxLen
               /\ b[Len(b)] = crc
               /\ FirstFrame(b) = f
               /\ Intact(b) <=> crc = Crc(<<f.type>> \o f.payload)
<1> DEFINE t == f.type
           p == f.payload
           body == <<t>> \o p
           h == <<AddrFc, Len(body) + 1>>
           front == h \o body
           b == front \o <<crc>>
           n == Len(p)
<1>1. t \in Nat /\ p \in Seq(Nat) /\ n \in Nat /\ n + 2 <= MaxLen /\ MaxLen \in Nat
  BY DEF Fits, Frames, SoundLine
<1>2. f = [type |-> t, payload |-> p]
  BY DEF Fits, Frames
<1> HIDE DEF t, p
<1>3. /\ body \in Seq(Nat) /\ Len(body) = n + 1 /\ body[1] = t
      /\ SubSeq(body, 2, n + 1) = p
  <2>1. <<t>> \in Seq(Nat) /\ Len(<<t>>) = 1 /\ <<t>>[1] = t
    BY <1>1
  <2>2. SubSeq(<<t>> \o p, Len(<<t>>) + 1, Len(<<t>>) + Len(p)) = p
    BY <1>1, <2>1, Behind
  <2>3. /\ body \in Seq(Nat) /\ Len(body) = 1 + n
        /\ \A i \in 1..(1 + n) : body[i] = IF i <= 1 THEN <<t>>[i] ELSE p[i - 1]
    BY <1>1, <2>1, ConcatProperties
  <2>4. 1 + n = n + 1 /\ 1 \in 1..(1 + n)
    BY <1>1
  <2>5. QED
    BY <2>1, <2>2, <2>3, <2>4
<1> HIDE DEF n, body
<1>4. /\ h \in Seq(Nat) /\ Len(h) = 2 /\ h[1] = AddrFc /\ h[2] = n + 2
  BY <1>1, <1>3 DEF SoundLine
<1> HIDE DEF h
<1>5. /\ front \in Seq(Nat) /\ Len(front) = n + 3
      /\ front[1] = AddrFc /\ front[2] = n + 2 /\ front[3] = t
      /\ SubSeq(front, 3, n + 3) = body
  <2>1. /\ front \in Seq(Nat) /\ Len(front) = 2 + (n + 1)
        /\ \A i \in 1..(2 + (n + 1)) : front[i] = IF i <= 2 THEN h[i] ELSE body[i - 2]
    <3>1. /\ front \in Seq(Nat) /\ Len(front) = Len(h) + Len(body)
          /\ \A i \in 1..(Len(h) + Len(body)) :
                front[i] = IF i <= Len(h) THEN h[i] ELSE body[i - Len(h)]
      BY <1>3, <1>4, ConcatProperties
    <3>2. Len(h) = 2 /\ Len(body) = n + 1
      BY <1>3, <1>4
    <3> HIDE DEF front
    <3>3. QED
      BY <3>1, <3>2
  <2>2. SubSeq(h \o body, Len(h) + 1, Len(h) + Len(body)) = body
    BY <1>3, <1>4, Behind
  <2>3. /\ 2 + (n + 1) = n + 3 /\ 2 + 1 = 3 /\ 3 - 2 = 1
        /\ 1 \in 1..(2 + (n + 1)) /\ 2 \in 1..(2 + (n + 1)) /\ 3 \in 1..(2 + (n + 1))
    BY <1>1
  <2>4. SubSeq(front, 3, n + 3) = body
    BY <1>3, <1>4, <2>2, <2>3
  <2>5. front[1] = h[1] /\ front[2] = h[2] /\ front[3] = body[1]
    <3>1. /\ \A i \in 1..(2 + (n + 1)) : i <= 2 => front[i] = h[i]
          /\ \A i \in 1..(2 + (n + 1)) : ~(i <= 2) => front[i] = body[i - 2]
      BY <2>1
    <3> HIDE DEF front
    <3>2. front[1] = h[1] /\ front[2] = h[2]
      BY <2>3, <3>1
    <3>3. front[3] = body[3 - 2]
      BY <2>3, <3>1
    <3>4. QED
      BY <2>3, <3>2, <3>3
  <2>6. QED
    BY <1>3, <1>4, <2>1, <2>3, <2>4, <2>5
<1> HIDE DEF front
<1>6. /\ b \in Seq(Nat) /\ Len(b) = n + 4
      /\ b[1] = AddrFc /\ b[2] = n + 2 /\ b[3] = t /\ b[n + 4] = crc
  <2>1. /\ <<crc>> \in Seq(Nat) /\ Len(<<crc>>) = 1 /\ <<crc>>[1] = crc
    OBVIOUS
  <2>2. /\ b \in Seq(Nat) /\ Len(b) = n + 3 + 1
        /\ \A i \in 1..(n + 3 + 1) : b[i] = IF i <= n + 3 THEN front[i] ELSE <<crc>>[i - (n + 3)]
    BY <1>5, <2>1, ConcatProperties
  <2>3. /\ n + 3 + 1 = n + 4 /\ n + 4 - (n + 3) = 1
        /\ 1 \in 1..(n + 3 + 1) /\ 1 <= n + 3
        /\ 2 \in 1..(n + 3 + 1) /\ 2 <= n + 3
        /\ 3 \in 1..(n + 3 + 1) /\ 3 <= n + 3
        /\ n + 4 \in 1..(n + 3 + 1) /\ ~(n + 4 <= n + 3)
    BY <1>1
  <2> HIDE DEF b
  <2>4. \A i \in 1..(n + 3 + 1) : i <= n + 3 => b[i] = front[i]
    BY <2>2
  <2>5. b[1] = front[1] /\ b[2] = front[2] /\ b[3] = front[3]
    BY <2>3, <2>4
  <2>6. b[n + 4] = <<crc>>[1]
    <3> DEFINE m == n + 4
    <3>1. m \in 1..(n + 3 + 1) /\ ~(m <= n + 3) /\ m - (n + 3) = 1
      BY <1>1
    <3> HIDE DEF m
    <3>2. b[m] = <<crc>>[m - (n + 3)]
      BY <2>2, <3>1
    <3>3. b[m] = <<crc>>[1]
      BY <3>1, <3>2
    <3>4. QED
      BY <3>3 DEF m
  <2>7. QED
    BY <1>5, <2>1, <2>2, <2>3, <2>5, <2>6
<1>7. SubSeq(b, 3, n + 3) = body
  <2>1. 3 \in 1..Len(front) /\ n + 3 \in 1..Len(front) /\ <<crc>> \in Seq(Nat)
    BY <1>1, <1>5
  <2>2. SubSeq(front \o <<crc>>, 3, n + 3) = SubSeq(front, 3, n + 3)
    BY <1>5, <2>1, SubSeqOfConcat1
  <2>3. QED
    BY <1>5, <2>2
<1> HIDE DEF b
<1>8. SubSeq(b, 4, n + 3) = p
  <2>1. CASE n = 0
    <3>1. p = <<>>
      BY <1>1, <2>1, EmptySeq DEF n
    <3>2. 4 \in Int /\ n + 3 \in Int /\ n + 3 < 4
      BY <2>1
    <3>3. QED
      BY <3>1, <3>2, SubSeqEmpty
  <2>2. CASE n # 0
    <3>1. 3 \in 1..Len(b) /\ n + 3 \in 1..Len(b)
      BY <1>1, <1>6
    <3>2. /\ 2 \in 1..(n + 3 - 3 + 1) /\ n + 1 \in 1..(n + 3 - 3 + 1)
          /\ 3 + 2 - 1 = 4 /\ 3 + (n + 1) - 1 = n + 3
      BY <1>1, <2>2
    <3> DEFINE m == n + 3
               k == n + 1
    <3> HIDE DEF m, k
    <3>3. m \in 1..Len(b) /\ 2 \in 1..(m - 3 + 1) /\ k \in 1..(m - 3 + 1)
      BY <1>1, <3>1, <3>2 DEF m, k
    <3>4. SubSeq(SubSeq(b, 3, m), 2, k) = SubSeq(b, 3 + 2 - 1, 3 + k - 1)
      BY <1>6, <3>1, <3>3, SubSeqOfSubSeq
    <3>5. QED
      BY <1>3, <1>7, <3>2, <3>4 DEF m, k
  <2>3. QED
    BY <2>1, <2>2
<1>9. Total(b) = n + 4 /\ Total(b) - 1 = n + 3 /\ n + 4 >= 4 /\ n + 2 \in MIN_FRAME_LEN..MaxLen
  BY <1>1, <1>6 DEF Total, MIN_FRAME_LEN
<1>10. Candidate(b) /\ b[1] \notin MIN_FRAME_LEN..MaxLen
  BY <1>6, <1>9 DEF Candidate, SoundLine
<1>11. FirstFrame(b) = f
  BY <1>2, <1>6, <1>8, <1>9 DEF FirstFrame
<1>12. Intact(b) <=> crc = Crc(body)
  BY <1>6, <1>7, <1>9 DEF Intact
<1>13. BytesWith(f, crc) = b
  BY DEF BytesWith, b, front, h, body, t, p
<1>14. Crc(body) = Crc(<<f.type>> \o f.payload)
  BY DEF body, t, p
<1>15. QED
  BY <1>6, <1>9, <1>10, <1>11, <1>12, <1>13, <1>14

\* Behind noise such a frame is found, or skipped if its checksum is wrong, and
\* nothing is left of either.
THEOREM FrameBehindNoise ==
    ASSUME SoundLine, NEW f, Fits(f), NEW crc \in Nat, NEW r \in Seq(Nat), Quiet(r)
    PROVE  Parse(r \o BytesWith(f, crc),
                 IF crc = Crc(<<f.type>> \o f.payload) THEN <<f>> ELSE <<>>, <<>>)
<1> DEFINE b == BytesWith(f, crc)
<1>1. /\ b \in Seq(Nat) /\ Len(b) >= 4 /\ Candidate(b) /\ Total(b) = Len(b)
      /\ b[1] \notin MIN_FRAME_LEN..MaxLen
      /\ FirstFrame(b) = f
      /\ Intact(b) <=> crc = Crc(<<f.type>> \o f.payload)
  BY OneFrame
<1> HIDE DEF b
<1>2. parse_frames[r \o b] = parse_frames[b]
  BY <1>1, NoiseBefore
<1>3. Parse(b, Found(b), <<>>)
  BY <1>1, ParseWhole
<1>4. Found(b) = IF crc = Crc(<<f.type>> \o f.payload) THEN <<f>> ELSE <<>>
  BY <1>1 DEF Found
<1>5. QED
  BY <1>2, <1>3, <1>4 DEF Parse, b
==============================================================================
