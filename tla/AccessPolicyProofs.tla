------------------------- MODULE AccessPolicyProofs -------------------------
(***************************************************************************)
(* What AccessPolicy computes, for every list of grants: the sort is one,  *)
(* and the loop that stops at the first less specific pattern gives what   *)
(* the grants for the fewest boards are due (CapabilitiesAreDue).          *)
(***************************************************************************)
EXTENDS AccessPolicy, FiniteSetTheorems, SequenceTheorems, WellFoundedInduction, TLAPS

(* The least-number principle, from the order on Nat being well founded.   *)
LEMMA LeastNumber ==
    ASSUME NEW T, T \subseteq Nat, T # {}
    PROVE  \E x \in T : \A y \in T : ~(y < x)
<1> DEFINE R == {p \in Nat \X Nat : p[1] < p[2]}
<1>1. IsWellFoundedOn(R, Nat)
  BY NatLessThanWellFounded DEF OpToRel
<1>2. \A x, y \in Nat : <<y, x>> \in R <=> y < x
  OBVIOUS
<1> HIDE DEF R
<1>3. PICK x \in T : \A y \in T : ~ (<<y, x>> \in R)
  BY <1>1, WFMin
<1> QED
  BY <1>2, <1>3

(* Induction over an interval: a set of numbers that has the first, and    *)
(* the next of each, has all.                                              *)
LEMMA IntervalInduction ==
    ASSUME NEW N \in Nat, NEW S, 0 \in S, \A n \in 1..N : n - 1 \in S => n \in S
    PROVE  0..N \subseteq S
<1> DEFINE T == (0..N) \ S
<1> SUFFICES ASSUME T # {} PROVE FALSE
  OBVIOUS
<1>1. T \subseteq Nat
  OBVIOUS
<1>2. PICK x \in T : \A y \in T : ~ (y < x)
  BY <1>1, LeastNumber
<1>3. x \in 1..N /\ x - 1 \in 0..N /\ x - 1 < x
  OBVIOUS
<1>4. x - 1 \in S
  BY <1>2, <1>3
<1> QED
  BY <1>3, <1>4

LEMMA IntervalSize ==
    ASSUME NEW N \in Nat
    PROVE  IsFiniteSet(1..N) /\ Cardinality(1..N) = N
<1>1. IsFiniteSet(1..N) /\ Cardinality(1..N) = IF 1 > N THEN 0 ELSE N - 1 + 1
  BY FS_Interval
<1> QED
  BY <1>1

-----------------------------------------------------------------------------
(* Lengths *)

LengthsOf(path, f) ==
    f = [n \in 0..Len(path) |-> IF n = 0 THEN 0 ELSE f[n - 1] + Size[path[n]] + 1]
Lengths(path) == CHOOSE f : LengthsOf(path, f)

(* The recursion has a solution, in the naturals. *)
LEMMA LengthsExist ==
    ASSUME NEW path \in Seq(Segments)
    PROVE  \E f : LengthsOf(path, f)
<1> DEFINE N == Len(path)
           Upto(n, f) == /\ f \in [0..n -> Nat] /\ f[0] = 0
                         /\ \A i \in 1..n : f[i] = f[i - 1] + Size[path[i]] + 1
           S == {n \in 0..N : \E f : Upto(n, f)}
<1>1. N \in Nat
  OBVIOUS
<1>2. 0 \in S
  <2>1. Upto(0, [i \in 0..0 |-> 0])
    OBVIOUS
  <2>2. \E f : Upto(0, f)
    BY <2>1, Zenon
  <2>3. 0 \in 0..N
    BY <1>1
  <2> QED
    BY <2>2, <2>3, Zenon
<1>3. ASSUME NEW n \in 1..N, n - 1 \in S PROVE n \in S
  <2>1. PICK f : Upto(n - 1, f)
    BY <1>3
  <2> DEFINE step == f[n - 1] + Size[path[n]] + 1
             g == [i \in 0..n |-> IF i = n THEN step ELSE f[i]]
  <2>2. f[n - 1] \in Nat
    BY <2>1, <1>1
  <2>3. Size[path[n]] \in Nat
    BY SegmentsHaveSizes DEF Segments
  <2>4. step \in Nat
    BY <2>2, <2>3
  <2>5. g \in [0..n -> Nat]
    BY <2>1, <2>4
  <2>6. \A i \in 1..n : g[i] = g[i - 1] + Size[path[i]] + 1
    BY <2>1
  <2>7. g[0] = 0
    BY <2>1
  <2> HIDE DEF g
  <2>8. Upto(n, g)
    BY <2>5, <2>6, <2>7
  <2> QED
    BY <2>8
<1> HIDE DEF S
<1>4. 0..N \subseteq S
  BY <1>1, <1>2, <1>3, IntervalInduction
<1>5. PICK f : Upto(N, f)
  BY <1>1, <1>4 DEF S
<1>6. LengthsOf(path, f)
  <2> DEFINE h == [n \in 0..N |-> IF n = 0 THEN 0 ELSE f[n - 1] + Size[path[n]] + 1]
  <2>1. DOMAIN f = 0..N /\ DOMAIN h = 0..N /\ f = [n \in DOMAIN f |-> f[n]]
    BY <1>5
  <2>2. \A n \in 0..N : f[n] = h[n]
    BY <1>1, <1>5
  <2>3. f = h
    BY <2>1, <2>2
  <2> QED
    BY <2>3 DEF LengthsOf
<1> QED
  BY <1>6

LEMMA LengthsProps ==
    ASSUME NEW path \in Seq(Segments)
    PROVE  /\ Chars(path) = Lengths(path)[Len(path)]
           /\ Lengths(path)[0] = 0
           /\ \A n \in 1..Len(path) :
                  Lengths(path)[n] = Lengths(path)[n - 1] + Size[path[n]] + 1
<1>1. Chars(path) = Lengths(path)[Len(path)]
  BY DEF Chars, Lengths, LengthsOf
<1>2. LengthsOf(path, Lengths(path))
  BY LengthsExist DEF Lengths
<1>3. Len(path) \in Nat
  OBVIOUS
<1>4. Lengths(path)[0] = 0
  BY <1>2, <1>3 DEF LengthsOf
<1>5. \A n \in 1..Len(path) : Lengths(path)[n] = Lengths(path)[n - 1] + Size[path[n]] + 1
  BY <1>2, <1>3 DEF LengthsOf
<1> QED
  BY <1>1, <1>4, <1>5

(* The lengths of a path's prefixes are natural numbers, and grow. *)
LEMMA LengthsGrow ==
    ASSUME NEW path \in Seq(Segments)
    PROVE  /\ \A n \in 0..Len(path) : Lengths(path)[n] \in Nat
           /\ \A m, n \in 0..Len(path) : m < n => Lengths(path)[m] < Lengths(path)[n]
<1> DEFINE N == Len(path)
           f == Lengths(path)
           S == {n \in 0..N : f[n] \in Nat /\ \A m \in 0..(n - 1) : f[m] \in Nat /\ f[m] < f[n]}
<1>1. N \in Nat
  OBVIOUS
<1>2. f[0] = 0 /\ \A n \in 1..N : f[n] = f[n - 1] + Size[path[n]] + 1
  BY LengthsProps
<1>3. \A n \in 1..N : Size[path[n]] \in Nat
  BY SegmentsHaveSizes DEF Segments
<1> HIDE DEF f
<1>4. 0 \in S
  BY <1>1, <1>2
<1>5. ASSUME NEW n \in 1..N, n - 1 \in S PROVE n \in S
  <2>1. f[n - 1] \in Nat /\ \A m \in 0..(n - 2) : f[m] \in Nat /\ f[m] < f[n - 1]
    <3>1. f[n - 1] \in Nat /\ \A m \in 0..(n - 1 - 1) : f[m] \in Nat /\ f[m] < f[n - 1]
      BY <1>5, Zenon
    <3>2. n - 1 - 1 = n - 2
      OBVIOUS
    <3> QED
      BY <3>1, <3>2
  <2>2. f[n] \in Nat /\ f[n - 1] < f[n]
    <3>1. f[n] = f[n - 1] + Size[path[n]] + 1 /\ Size[path[n]] \in Nat
      BY <1>2, <1>3
    <3> QED
      BY <2>1, <3>1
  <2>3. ASSUME NEW m \in 0..(n - 1) PROVE f[m] \in Nat /\ f[m] < f[n]
    <3>1. m \in 0..(n - 2) \/ m = n - 1
      OBVIOUS
    <3> QED
      BY <2>1, <2>2, <3>1
  <2>4. \A m \in 0..(n - 1) : f[m] \in Nat /\ f[m] < f[n]
    BY <2>3
  <2>5. n \in 0..N
    BY <1>1
  <2> QED
    BY <2>2, <2>4, <2>5
<1>6. 0..N \subseteq S
  <2> HIDE DEF S
  <2> QED
    BY <1>1, <1>4, <1>5, IntervalInduction
<1> QED
  BY <1>6 DEF f

(* A path begins as its prefixes do, so they have its lengths. *)
LEMMA PrefixElements ==
    ASSUME NEW s \in Seq(Segments), NEW t \in Seq(Segments), IsPrefix(s, t)
    PROVE  Len(s) <= Len(t) /\ \A i \in 1..Len(s) : s[i] = t[i]
<1>1. Len(s) <= Len(t) /\ SubSeq(s, 1, Len(s)) = SubSeq(t, 1, Len(s))
  BY DEF IsPrefix
<1>2. \A i \in 1..Len(s) : SubSeq(s, 1, Len(s))[i] = s[i]
  OBVIOUS
<1>3. \A i \in 1..Len(s) : SubSeq(t, 1, Len(s))[i] = t[i]
  BY <1>1
<1> QED
  BY <1>1, <1>2, <1>3

LEMMA PrefixLengths ==
    ASSUME NEW s \in Seq(Segments), NEW t \in Seq(Segments), IsPrefix(s, t)
    PROVE  Chars(s) = Lengths(t)[Len(s)]
<1> DEFINE N == Len(s)
           f == Lengths(s)
           g == Lengths(t)
           S == {n \in 0..N : f[n] = g[n]}
<1>1. N \in Nat /\ Len(t) \in Nat /\ N <= Len(t) /\ \A i \in 1..N : s[i] = t[i]
  BY PrefixElements
<1>2. f[0] = 0 /\ g[0] = 0 /\ Chars(s) = f[N]
  BY LengthsProps
<1>3. \A n \in 1..N : f[n] = f[n - 1] + Size[s[n]] + 1
  BY LengthsProps
<1>4. \A n \in 1..N : g[n] = g[n - 1] + Size[t[n]] + 1
  <2>1. \A n \in 1..Len(t) : g[n] = g[n - 1] + Size[t[n]] + 1
    BY LengthsProps
  <2>2. 1..N \subseteq 1..Len(t)
    BY <1>1
  <2> QED
    BY <2>1, <2>2, Zenon
<1> HIDE DEF f, g, N
<1>5. 0 \in S
  BY <1>1, <1>2
<1>6. ASSUME NEW n \in 1..N, n - 1 \in S PROVE n \in S
  <2>1. f[n - 1] = g[n - 1] /\ s[n] = t[n]
    BY <1>1, <1>6
  <2>2. f[n] = g[n]
    BY <1>3, <1>4, <2>1
  <2> QED
    BY <1>1, <2>2
<1>7. 0..N \subseteq S
  <2> HIDE DEF S
  <2> QED
    BY <1>1, <1>5, <1>6, IntervalInduction
<1>8. f[N] = g[N]
  BY <1>1, <1>7
<1> QED
  BY <1>2, <1>8 DEF N, g

LEMMA CharsType ==
    ASSUME NEW s \in Seq(Segments)
    PROVE  Chars(s) \in Nat
BY LengthsProps, LengthsGrow

(* Of two prefixes of a path, the one with more characters continues the   *)
(* other.                                                                  *)
LEMMA LongerPrefix ==
    ASSUME NEW s \in Seq(Segments), NEW t \in Seq(Segments), NEW b \in Seq(Segments),
           IsPrefix(s, b), IsPrefix(t, b)
    PROVE  /\ Chars(s) = Chars(t) => s = t
           /\ Chars(s) > Chars(t) => IsPrefix(t, s) /\ s # t
<1>1. Len(s) \in 0..Len(b) /\ \A i \in 1..Len(s) : s[i] = b[i]
  BY PrefixElements
<1>2. Len(t) \in 0..Len(b) /\ \A i \in 1..Len(t) : t[i] = b[i]
  BY PrefixElements
<1>3. Chars(s) = Lengths(b)[Len(s)] /\ Chars(t) = Lengths(b)[Len(t)]
  BY PrefixLengths
<1>4. \A m, n \in 0..Len(b) : m < n => Lengths(b)[m] < Lengths(b)[n]
  BY LengthsGrow
<1>5. Chars(s) \in Nat /\ Chars(t) \in Nat
  BY CharsType
<1>6. CASE Len(s) = Len(t)
  <2>1. s = t
    BY <1>1, <1>2, <1>6, SeqEqual
  <2> QED
    BY <1>5, <2>1
<1>7. CASE Len(s) < Len(t)
  <2>1. Chars(s) < Chars(t)
    BY <1>1, <1>2, <1>3, <1>4, <1>7
  <2> QED
    BY <1>5, <2>1
<1>8. CASE Len(t) < Len(s)
  <2>1. Chars(t) < Chars(s)
    BY <1>1, <1>2, <1>3, <1>4, <1>8
  <2>2. IsPrefix(t, s)
    <3>1. SubSeq(t, 1, Len(t)) \in Seq(Segments) /\ SubSeq(s, 1, Len(t)) \in Seq(Segments)
      BY <1>8
    <3>2. Len(SubSeq(t, 1, Len(t))) = Len(t) /\ Len(SubSeq(s, 1, Len(t))) = Len(t)
      BY <1>8
    <3>3. \A i \in 1..Len(t) : SubSeq(t, 1, Len(t))[i] = t[i] /\ SubSeq(s, 1, Len(t))[i] = s[i]
      BY <1>8
    <3>4. \A i \in 1..Len(t) : SubSeq(t, 1, Len(t))[i] = SubSeq(s, 1, Len(t))[i]
      BY <1>1, <1>2, <1>8, <3>3
    <3>5. SubSeq(t, 1, Len(t)) = SubSeq(s, 1, Len(t))
      BY <3>1, <3>2, <3>4, SeqEqual
    <3> QED
      BY <1>8, <3>5 DEF IsPrefix
  <2> QED
    BY <1>5, <1>8, <2>1, <2>2
<1> QED
  BY <1>1, <1>2, <1>6, <1>7, <1>8

-----------------------------------------------------------------------------
(* Patterns that match the same board *)

Above(p, q) ==
    LET x == Specificity(p)
        y == Specificity(q)
    IN  x[1] > y[1] \/ (x[1] = y[1] /\ x[2] > y[2])

(* The three kinds of pattern, and what each matches. *)
LEMMA PatternKinds ==
    ASSUME NEW p \in Patterns
    PROVE  /\ p.kind \in {"all", "tree", "exact"} /\ p.path \in Seq(Segments)
           /\ p.kind = "all" => p.path = <<>>
           /\ \A q \in Patterns : p.kind = q.kind /\ p.path = q.path => p = q
<1>1. ASSUME NEW q \in Patterns PROVE q = [kind |-> q.kind, path |-> q.path]
  BY DEF Patterns
<1>2. \A q \in Patterns : p.kind = q.kind /\ p.path = q.path => p = q
  BY <1>1, Zenon
<1>3. p.kind \in {"all", "tree", "exact"}
  BY DEF Patterns
<1>4. p.path \in Seq(Segments)
  <2>1. p.path \in {<<>>} \/ p.path \in Seq(Segments) \ {<<>>}
    BY DEF Patterns
  <2>2. <<>> \in Seq(Segments)
    OBVIOUS
  <2> QED
    BY <2>1, <2>2, Zenon
<1>5. p.kind = "all" => p.path = <<>>
  BY DEF Patterns
<1> QED
  BY <1>2, <1>3, <1>4, <1>5

LEMMA SpecificityValues ==
    ASSUME NEW p \in Patterns
    PROVE  /\ Specificity(p)[1] \in 0..2 /\ Specificity(p)[2] \in Int
           /\ p.kind = "all" => Specificity(p) = <<0, 0>>
           /\ p.kind = "tree" => Specificity(p) = <<1, Chars(p.path) + 1>>
           /\ p.kind = "exact" => Specificity(p) = <<2, Chars(p.path) - 1>>
<1>1. p.kind = "all" => Specificity(p) = <<0, 0>>
  BY DEF Specificity
<1>2. p.kind = "tree" => Specificity(p) = <<1, Chars(p.path) + 1>>
  BY DEF Specificity, Length
<1>3. p.kind = "exact" => Specificity(p) = <<2, Chars(p.path) - 1>>
  BY DEF Specificity, Length
<1>4. p.kind \in {"all", "tree", "exact"} /\ p.path \in Seq(Segments)
  BY PatternKinds
<1>5. Chars(p.path) \in Nat
  BY <1>4, CharsType
<1>6. Specificity(p)[1] \in 0..2 /\ Specificity(p)[2] \in Int
  BY <1>1, <1>2, <1>3, <1>4, <1>5
<1> QED
  BY <1>1, <1>2, <1>3, <1>6

LEMMA MatchesKinds ==
    ASSUME NEW p, NEW b
    PROVE  /\ p.kind = "all" => Matches(p, b)
           /\ p.kind = "tree" => (Matches(p, b) <=> IsPrefix(p.path, b) /\ p.path # b)
           /\ p.kind = "exact" => (Matches(p, b) <=> p.path = b)
<1>1. p.kind = "all" => Matches(p, b)
  BY DEF Matches
<1>2. p.kind = "tree" => (Matches(p, b) <=> IsPrefix(p.path, b) /\ p.path # b)
  BY DEF Matches, IsStrictPrefix
<1>3. p.kind = "exact" => (Matches(p, b) <=> p.path = b)
  BY DEF Matches
<1> QED
  BY <1>1, <1>2, <1>3

(* What continues a path continues its prefixes, and is none of them. *)
LEMMA PrefixTransitive ==
    ASSUME NEW s \in Seq(Segments), NEW t \in Seq(Segments), NEW b \in Seq(Segments),
           IsPrefix(t, s), s # t, IsPrefix(s, b)
    PROVE  IsPrefix(t, b) /\ t # b
<1>1. Len(t) <= Len(s) /\ \A i \in 1..Len(t) : t[i] = s[i]
  BY PrefixElements
<1>2. Len(s) <= Len(b) /\ \A i \in 1..Len(s) : s[i] = b[i]
  BY PrefixElements
<1>3. Len(t) # Len(s)
  BY <1>1, SeqEqual
<1>4. Len(t) < Len(b)
  BY <1>1, <1>2, <1>3
<1>5. \A i \in 1..Len(t) : t[i] = b[i]
  BY <1>1, <1>2
<1>6. SubSeq(t, 1, Len(t)) \in Seq(Segments) /\ SubSeq(b, 1, Len(t)) \in Seq(Segments)
  BY <1>4
<1>7. Len(SubSeq(t, 1, Len(t))) = Len(t) /\ Len(SubSeq(b, 1, Len(t))) = Len(t)
  BY <1>4
<1>8. \A i \in 1..Len(t) : SubSeq(t, 1, Len(t))[i] = t[i] /\ SubSeq(b, 1, Len(t))[i] = b[i]
  BY <1>4
<1>9. SubSeq(t, 1, Len(t)) = SubSeq(b, 1, Len(t))
  BY <1>5, <1>6, <1>7, <1>8, SeqEqual
<1> QED
  BY <1>4, <1>9 DEF IsPrefix

(* Of two patterns that match a board, the more specific one matches fewer *)
(* boards; equally specific ones are the same pattern.                     *)
LEMMA SameBoard ==
    ASSUME NEW p \in Patterns, NEW q \in Patterns, NEW b \in Boards,
           Matches(p, b), Matches(q, b)
    PROVE  /\ ~Above(p, q) /\ ~Above(q, p) => p = q
           /\ Above(p, q) => \A c \in Boards : Matches(p, c) => Matches(q, c)
<1> USE DEF Above
<1>1. /\ p.kind \in {"all", "tree", "exact"} /\ p.path \in Seq(Segments)
      /\ q.kind \in {"all", "tree", "exact"} /\ q.path \in Seq(Segments)
      /\ Boards \subseteq Seq(Segments)
  BY PatternKinds, BoardsAreSegments
<1>2. p.kind = q.kind /\ p.path = q.path => p = q
  BY PatternKinds
<1>3. p.kind = "all" => p.path = <<>>
  BY PatternKinds
<1>4. q.kind = "all" => q.path = <<>>
  BY PatternKinds
<1>5. Chars(p.path) \in Nat /\ Chars(q.path) \in Nat
  BY <1>1, CharsType
<1>6. CASE p.kind = q.kind /\ p.kind = "all"
  BY <1>2, <1>3, <1>4, <1>6, MatchesKinds
<1>7. CASE p.kind = q.kind /\ p.kind = "exact"
  BY <1>2, <1>7, MatchesKinds
<1>8. CASE p.kind = q.kind /\ p.kind = "tree"
  <2>1. IsPrefix(p.path, b) /\ IsPrefix(q.path, b)
    BY <1>8, MatchesKinds
  <2>2. Specificity(p) = <<1, Chars(p.path) + 1>> /\ Specificity(q) = <<1, Chars(q.path) + 1>>
    BY <1>8, SpecificityValues
  <2>3. /\ Chars(p.path) = Chars(q.path) => p.path = q.path
        /\ Chars(p.path) > Chars(q.path) => IsPrefix(q.path, p.path) /\ p.path # q.path
    BY <1>1, <2>1, LongerPrefix
  <2>4. ~Above(p, q) /\ ~Above(q, p) => Chars(p.path) = Chars(q.path)
    BY <1>5, <2>2
  <2>5. Above(p, q) => Chars(p.path) > Chars(q.path)
    BY <1>5, <2>2
  <2>6. ASSUME Above(p, q), NEW c \in Boards, Matches(p, c) PROVE Matches(q, c)
    <3>1. IsPrefix(p.path, c) /\ IsPrefix(q.path, p.path) /\ p.path # q.path
      BY <1>8, <2>3, <2>5, <2>6, MatchesKinds
    <3>2. IsPrefix(q.path, c) /\ q.path # c
      BY <1>1, <3>1, PrefixTransitive
    <3> QED
      BY <1>8, <3>2, MatchesKinds
  <2> HIDE DEF Above
  <2> QED
    BY <1>2, <1>8, <2>3, <2>4, <2>6
<1>9. CASE p.kind # q.kind
  <2>1. Above(p, q) \/ Above(q, p)
    BY <1>1, <1>9, SpecificityValues
  <2>2. Above(p, q) => q.kind = "all" \/ p.kind = "exact"
    BY <1>1, <1>9, SpecificityValues
  <2>3. q.kind = "all" => \A c \in Boards : Matches(q, c)
    BY MatchesKinds
  <2>4. p.kind = "exact" => \A c \in Boards : Matches(p, c) => c = b
    BY MatchesKinds
  <2> HIDE DEF Above
  <2> QED
    BY <2>1, <2>2, <2>3, <2>4
<1> QED
  BY <1>1, <1>6, <1>7, <1>8, <1>9

-----------------------------------------------------------------------------
(* The sort *)

(* Above is a strict order in which what is not above is not below either  *)
(* forms classes.                                                          *)
LEMMA AboveOrder ==
    ASSUME NEW p \in Patterns, NEW q \in Patterns, NEW r \in Patterns
    PROVE  /\ ~Above(p, p)
           /\ Above(p, q) => ~Above(q, p)
           /\ ~Above(q, p) /\ ~Above(r, q) => ~Above(r, p)
           /\ Above(p, q) /\ ~Above(r, q) => Above(p, r)
           /\ ~Above(q, p) /\ Above(q, r) => Above(p, r)
<1> DEFINE i(x) == Specificity(x)[1]
           j(x) == Specificity(x)[2]
<1>1. i(p) \in Int /\ i(q) \in Int /\ i(r) \in Int
  BY SpecificityValues
<1>2. j(p) \in Int /\ j(q) \in Int /\ j(r) \in Int
  BY SpecificityValues
<1>3. \A x, y : Above(x, y) <=> i(x) > i(y) \/ (i(x) = i(y) /\ j(x) > j(y))
  BY DEF Above
<1> HIDE DEF i, j
<1> QED
  BY <1>1, <1>2, <1>3

Fits(grants) ==
    grants \in Seq(ToSet(grants)) /\ \A n \in 1..Len(grants) : grants[n].pattern \in Patterns

LEMMA WellFormedFits ==
    ASSUME NEW grants, WellFormed(grants)
    PROVE  Fits(grants)
<1>1. grants \in Seq(ToSet(grants))
  BY DEF WellFormed
<1>2. \A n \in 1..Len(grants) : grants[n] \in ToSet(grants)
  BY <1>1
<1> QED
  BY <1>1, <1>2 DEF WellFormed, Fits

(* Before is a strict total order on the positions of a list. *)
LEMMA BeforeOrder ==
    ASSUME NEW grants, Fits(grants)
    PROVE  /\ DOMAIN grants = 1..Len(grants) /\ Len(grants) \in Nat
           /\ \A i \in DOMAIN grants : ~Before(grants, i, i)
           /\ \A i, j \in DOMAIN grants : i # j => Before(grants, i, j) \/ Before(grants, j, i)
           /\ \A i, j \in DOMAIN grants :
                  Before(grants, i, j) => ~Precedes(grants[j], grants[i])
           /\ \A i, j, k \in DOMAIN grants :
                  Before(grants, i, j) /\ Before(grants, j, k) => Before(grants, i, k)
<1>1. DOMAIN grants = 1..Len(grants) /\ Len(grants) \in Nat
  BY DEF Fits
<1>2. \A i \in DOMAIN grants : grants[i].pattern \in Patterns
  BY <1>1 DEF Fits
<1>3. \A g, h : Precedes(g, h) <=> Above(g.pattern, h.pattern)
  BY DEF Precedes, Above, Path
<1>4. \A i, j : Before(grants, i, j) <=>
          \/ Above(grants[i].pattern, grants[j].pattern)
          \/ ~Above(grants[j].pattern, grants[i].pattern) /\ i < j
  BY <1>3, Zenon DEF Before
<1>5. ASSUME NEW i \in DOMAIN grants PROVE ~Before(grants, i, i)
  BY <1>1, <1>2, <1>4, AboveOrder
<1>6. ASSUME NEW i \in DOMAIN grants, NEW j \in DOMAIN grants, i # j
      PROVE  Before(grants, i, j) \/ Before(grants, j, i)
  BY <1>1, <1>4, <1>6
<1>7. ASSUME NEW i \in DOMAIN grants, NEW j \in DOMAIN grants, Before(grants, i, j)
      PROVE  ~Precedes(grants[j], grants[i])
  BY <1>2, <1>3, <1>4, <1>7, AboveOrder
<1>8. ASSUME NEW i \in DOMAIN grants, NEW j \in DOMAIN grants, NEW k \in DOMAIN grants,
             Before(grants, i, j), Before(grants, j, k)
      PROVE  Before(grants, i, k)
  <2> DEFINE p == grants[i].pattern
             q == grants[j].pattern
             r == grants[k].pattern
  <2>1. p \in Patterns /\ q \in Patterns /\ r \in Patterns
    BY <1>2
  <2>2. Above(p, q) \/ (~Above(q, p) /\ i < j)
    BY <1>4, <1>8
  <2>3. Above(q, r) \/ (~Above(r, q) /\ j < k)
    BY <1>4, <1>8
  <2>4. SUFFICES Above(p, r) \/ (~Above(r, p) /\ i < k)
    BY <1>4
  <2> HIDE DEF p, q, r
  <2>5. /\ Above(p, q) => ~Above(q, p)
        /\ ~Above(q, p) /\ ~Above(r, q) => ~Above(r, p)
        /\ Above(p, q) /\ ~Above(r, q) => Above(p, r)
        /\ ~Above(q, p) /\ Above(q, r) => Above(p, r)
    BY <2>1, AboveOrder
  <2>6. Above(q, r) => ~Above(r, q)
    BY <2>1, AboveOrder
  <2>7. i < j /\ j < k => i < k
    BY <1>1
  <2> QED
    BY <2>2, <2>3, <2>5, <2>6, <2>7
<1> QED
  BY <1>1, <1>5, <1>6, <1>7, <1>8

(* A position has a rank of the list, and a later one a greater rank. *)
LEMMA RankGrows ==
    ASSUME NEW grants, Fits(grants)
    PROVE  /\ \A i \in DOMAIN grants : Rank(grants, i) \in 1..Len(grants)
           /\ \A i, j \in DOMAIN grants :
                  Before(grants, i, j) => Rank(grants, i) < Rank(grants, j)
<1> DEFINE D == DOMAIN grants
           N == Len(grants)
           A(i) == {j \in D : Before(grants, j, i)}
<1>1. D = 1..N /\ N \in Nat
  BY BeforeOrder
<1>2. IsFiniteSet(D) /\ Cardinality(D) = N
  BY <1>1, IntervalSize
<1>3. \A i : Rank(grants, i) = Cardinality(A(i)) + 1
  BY DEF Rank
<1>4. \A i \in D : i \notin A(i)
  BY BeforeOrder
<1>5. ASSUME NEW i \in D PROVE IsFiniteSet(A(i)) /\ Cardinality(A(i)) \in 0..(N - 1)
  <2>1. A(i) \in SUBSET D /\ A(i) # D
    BY <1>4
  <2> HIDE DEF A, D, N
  <2>2. IsFiniteSet(A(i)) /\ Cardinality(A(i)) <= N /\ Cardinality(A(i)) # N
    BY <1>2, <2>1, FS_Subset
  <2>3. Cardinality(A(i)) \in Nat
    BY <2>2, FS_CardinalityType
  <2> QED
    BY <1>1, <2>2, <2>3
<1>6. ASSUME NEW i \in D, NEW j \in D, Before(grants, i, j)
      PROVE  Cardinality(A(i)) < Cardinality(A(j))
  <2>1. A(i) \in SUBSET A(j)
    BY <1>6, BeforeOrder
  <2>2. i \in A(j)
    BY <1>6
  <2>3. A(i) # A(j)
    BY <1>4, <2>2
  <2> HIDE DEF A, D, N
  <2>4. Cardinality(A(i)) <= Cardinality(A(j)) /\ Cardinality(A(i)) # Cardinality(A(j))
    BY <1>5, <2>1, <2>3, FS_Subset
  <2> QED
    BY <1>1, <1>5, <2>4
<1> HIDE DEF A
<1> QED
  BY <1>1, <1>3, <1>5, <1>6

(* sorted(): every grant once, none after one it precedes. *)
LEMMA SortedSorts ==
    ASSUME NEW grants, Fits(grants)
    PROVE  /\ DOMAIN Sorted(grants) = 1..Len(grants)
           /\ \A n \in 1..Len(grants) : Sorted(grants)[n] \in ToSet(grants)
           /\ \A g \in ToSet(grants) : \E n \in 1..Len(grants) : Sorted(grants)[n] = g
           /\ \A m, n \in 1..Len(grants) :
                  m < n => ~Precedes(Sorted(grants)[n], Sorted(grants)[m])
<1> DEFINE D == DOMAIN grants
           N == Len(grants)
           at(n) == CHOOSE i \in D : Rank(grants, i) = n
           f == [i \in D |-> Rank(grants, i)]
<1>1. D = 1..N /\ N \in Nat
  BY BeforeOrder
<1>2. \A i \in D : Rank(grants, i) \in 1..N
  BY RankGrows
<1>3. \A i, j \in D : Rank(grants, i) = Rank(grants, j) => i = j
  BY <1>1, <1>2, BeforeOrder, RankGrows
<1>4. f \in Injection(D, 1..N)
  BY <1>2, <1>3 DEF Injection, IsInjective
<1>5. IsFiniteSet(1..N) /\ Cardinality(1..N) = N
  BY <1>1, IntervalSize
<1>6. f \in Surjection(D, 1..N)
  BY <1>1, <1>4, <1>5, FS_Injection
<1>7. \A n \in 1..N : \E i \in D : Rank(grants, i) = n
  BY <1>6 DEF Surjection
<1>8. \A n \in 1..N : at(n) \in D /\ Rank(grants, at(n)) = n
  BY <1>7
<1>9. \A i \in D : at(Rank(grants, i)) = i
  BY <1>2, <1>3, <1>8
<1>10. Sorted(grants) = [n \in D |-> grants[at(n)]]
  BY DEF Sorted
<1> HIDE DEF at, f
<1>11. DOMAIN Sorted(grants) = 1..N /\ \A n \in 1..N : Sorted(grants)[n] = grants[at(n)]
  BY <1>1, <1>10
<1>12. \A n \in 1..N : Sorted(grants)[n] \in ToSet(grants)
  BY <1>8, <1>11 DEF ToSet
<1>13. ASSUME NEW g \in ToSet(grants) PROVE \E n \in 1..N : Sorted(grants)[n] = g
  <2>1. PICK i \in D : g = grants[i]
    BY DEF ToSet
  <2>2. Rank(grants, i) \in 1..N /\ at(Rank(grants, i)) = i
    BY <1>2, <1>9
  <2> QED
    BY <1>11, <2>1, <2>2
<1>14. ASSUME NEW m \in 1..N, NEW n \in 1..N, m < n
       PROVE  ~Precedes(Sorted(grants)[n], Sorted(grants)[m])
  <2>1. at(m) \in D /\ at(n) \in D /\ Rank(grants, at(m)) = m /\ Rank(grants, at(n)) = n
    BY <1>8
  <2>2. ~Before(grants, at(n), at(m))
    BY <1>14, <2>1, RankGrows
  <2>3. at(m) # at(n)
    BY <1>14, <2>1
  <2>4. Before(grants, at(m), at(n))
    BY <2>1, <2>2, <2>3, BeforeOrder
  <2> QED
    BY <1>11, <2>1, <2>4, BeforeOrder
<1> QED
  BY <1>11, <1>12, <1>13, <1>14

-----------------------------------------------------------------------------
(* The loop *)

NoneVisited == [best |-> {}, caps |-> {}, broken |-> FALSE]
TurnsOf(policy, id, b, f) ==
    f = [n \in 0..Len(policy) |-> IF n = 0 THEN NoneVisited ELSE Visit(f[n - 1], policy[n], id, b)]
Turns(policy, id, b) == CHOOSE f : TurnsOf(policy, id, b, f)

(* What is as the loop's turns are is what the loop computes. *)
LEMMA LoopComputes ==
    ASSUME NEW policy, NEW id, NEW b, Len(policy) \in Nat,
           NEW h, h = [n \in 0..Len(policy) |-> h[n]], h[0] = NoneVisited,
           \A n \in 1..Len(policy) : h[n] = Visit(h[n - 1], policy[n], id, b)
    PROVE  capabilities(policy, id, b) = h[Len(policy)].caps
<1> DEFINE N == Len(policy)
           f == Turns(policy, id, b)
           S == {n \in 0..N : f[n] = h[n]}
<1>1. TurnsOf(policy, id, b, h)
  <2> DEFINE k == [n \in 0..N |-> IF n = 0 THEN NoneVisited ELSE Visit(h[n - 1], policy[n], id, b)]
  <2>1. \A n \in 0..N : h[n] = k[n]
    <3>1. ASSUME NEW n \in 0..N PROVE h[n] = k[n]
      <4>1. CASE n = 0
        BY <4>1
      <4>2. CASE n # 0
        <5>1. n \in 1..N
          BY <4>2
        <5> QED
          BY <4>2, <5>1
      <4> QED
        BY <4>1, <4>2
    <3> QED
      BY <3>1
  <2>2. h = k
    BY <2>1
  <2> QED
    BY <2>2 DEF TurnsOf
<1>2. TurnsOf(policy, id, b, f)
  BY <1>1 DEF Turns
<1>3. capabilities(policy, id, b) = f[N].caps
  BY DEF capabilities, Turns, TurnsOf, NoneVisited
<1> HIDE DEF f
<1>4. f[0] = NoneVisited
  BY <1>2 DEF TurnsOf
<1>5. \A n \in 1..N : f[n] = Visit(f[n - 1], policy[n], id, b)
  BY <1>2 DEF TurnsOf
<1>6. 0 \in S
  BY <1>4
<1>7. ASSUME NEW n \in 1..N, n - 1 \in S PROVE n \in S
  <2>1. f[n - 1] = h[n - 1]
    BY <1>7
  <2>2. f[n] = h[n]
    BY <1>5, <2>1
  <2> QED
    BY <2>2
<1>8. 0..N \subseteq S
  <2> HIDE DEF S
  <2> QED
    BY <1>6, <1>7, IntervalInduction
<1>9. f[N] = h[N]
  BY <1>8
<1> QED
  BY <1>3, <1>9

(* The pattern that decides about a board: the first that matches it, of   *)
(* the most specific ones.                                                 *)
Hit(policy, b, n) == Matches(policy[n].pattern, b)
Decides(policy, b, p) ==
    /\ p \in Patterns
    /\ \A n \in 1..Len(policy) : Hit(policy, b, n) =>
           policy[n].pattern = p \/ Above(p, policy[n].pattern)
    /\ \A n \in 1..Len(policy) :
           /\ Hit(policy, b, n)
           /\ \A m \in 1..(n - 1) : ~Hit(policy, b, m)
           => policy[n].pattern = p
    /\ (\E n \in 1..Len(policy) : Hit(policy, b, n)) =>
           \E n \in 1..Len(policy) : Hit(policy, b, n) /\ policy[n].pattern = p

(* A policy: grants of patterns, none after one that is less specific. *)
Ordered(policy) ==
    /\ Len(policy) \in Nat
    /\ \A n \in 1..Len(policy) : policy[n].pattern \in Patterns
    /\ \A m, n \in 1..Len(policy) : m < n => ~Above(policy[n].pattern, policy[m].pattern)

LEMMA SomePatternDecides ==
    ASSUME NEW policy, Ordered(policy), NEW b \in Boards
    PROVE  \E p : Decides(policy, b, p)
<1> DEFINE N == Len(policy)
           H == {n \in 1..N : Hit(policy, b, n)}
<1>1. N \in Nat /\ \A n \in 1..N : policy[n].pattern \in Patterns
  BY DEF Ordered
<1>2. CASE H = {}
  <2>1. [kind |-> "all", path |-> <<>>] \in Patterns
    BY DEF Patterns
  <2> QED
    BY <1>2, <2>1 DEF Decides
<1>3. CASE H # {}
  <2>1. H \subseteq Nat
    BY <1>1
  <2>2. PICK k \in H : \A n \in H : ~(n < k)
    BY <1>3, <2>1, LeastNumber
  <2> DEFINE p == policy[k].pattern
  <2>3. p \in Patterns /\ k \in 1..N /\ Hit(policy, b, k)
    BY <1>1, <2>2
  <2>4. ASSUME NEW n \in 1..N, Hit(policy, b, n)
        PROVE  policy[n].pattern = p \/ Above(p, policy[n].pattern)
    <3> DEFINE q == policy[n].pattern
    <3>1. n \in H /\ ~(n < k) /\ q \in Patterns
      BY <1>1, <2>2, <2>4
    <3>2. Matches(p, b) /\ Matches(q, b)
      BY <2>3, <2>4 DEF Hit
    <3>3. ~Above(q, p)
      <4>1. CASE n = k
        BY <2>3, <4>1, AboveOrder
      <4>2. CASE n # k
        <5>1. k < n
          BY <1>1, <2>3, <3>1, <4>2
        <5> QED
          BY <2>3, <5>1 DEF Ordered
      <4> QED
        BY <4>1, <4>2
    <3> HIDE DEF p, q
    <3>4. Above(p, q) \/ p = q
      BY <2>3, <3>1, <3>2, <3>3, SameBoard
    <3> QED
      BY <3>4 DEF q
  <2>5. ASSUME NEW n \in 1..N, Hit(policy, b, n), \A m \in 1..(n - 1) : ~Hit(policy, b, m)
        PROVE  policy[n].pattern = p
    <3>1. ~(n < k)
      BY <2>2, <2>5
    <3>2. ~(k < n)
      BY <1>1, <2>3, <2>5
    <3>3. n = k
      BY <1>1, <2>3, <3>1, <3>2
    <3> QED
      BY <3>3
  <2>6. \E n \in 1..N : Hit(policy, b, n) /\ policy[n].pattern = p
    BY <2>3
  <2>7. Decides(policy, b, p)
    BY <2>3, <2>4, <2>5, <2>6 DEF Decides
  <2> QED
    BY <2>7
<1> QED
  BY <1>2, <1>3

(* What the loop has after n turns. *)
Given(policy, id, b, p, n) ==
    {m \in 1..n : Hit(policy, b, m) /\ policy[m].pattern = p /\ GrantMatchesIdentity(policy[m], id)}
After(policy, id, b, p, n) ==
    [best   |-> IF \E m \in 1..n : Hit(policy, b, m) THEN {p} ELSE {},
     caps   |-> UNION {Roles[policy[m].role] : m \in Given(policy, id, b, p, n)},
     broken |-> \E m \in 1..n : Hit(policy, b, m) /\ policy[m].pattern # p]

(* EXCEPT on the loop's record, field by field. *)
LEMMA Updates ==
    ASSUME NEW acc, acc = [best |-> acc.best, caps |-> acc.caps, broken |-> acc.broken],
           NEW x, NEW y
    PROVE  /\ [acc EXCEPT !.broken = x] = [best |-> acc.best, caps |-> acc.caps, broken |-> x]
           /\ [acc EXCEPT !.best = x, !.caps = y]
                  = [best |-> x, caps |-> y, broken |-> acc.broken]
<1> DEFINE best == acc.best
           caps == acc.caps
           broken == acc.broken
<1>1. acc = [best |-> best, caps |-> caps, broken |-> broken]
  OBVIOUS
<1> HIDE DEF best, caps, broken
<1>2. [acc EXCEPT !.broken = x] = [best |-> best, caps |-> caps, broken |-> x]
  BY <1>1
<1>3. [acc EXCEPT !.best = x, !.caps = y] = [best |-> x, caps |-> y, broken |-> broken]
  <2>1. [acc EXCEPT !.best = x] = [best |-> x, caps |-> caps, broken |-> broken]
    BY <1>1
  <2>2. [[best |-> x, caps |-> caps, broken |-> broken] EXCEPT !.caps = y]
          = [best |-> x, caps |-> y, broken |-> broken]
    OBVIOUS
  <2>3. [acc EXCEPT !.best = x, !.caps = y] = [[acc EXCEPT !.best = x] EXCEPT !.caps = y]
    BY <1>1
  <2> QED
    BY <2>1, <2>2, <2>3
<1> QED
  BY <1>2, <1>3 DEF best, caps, broken

LEMMA TurnStep ==
    ASSUME NEW policy, Ordered(policy), NEW id, NEW b \in Boards,
           NEW p, Decides(policy, b, p), NEW n \in 1..Len(policy)
    PROVE  After(policy, id, b, p, n) = Visit(After(policy, id, b, p, n - 1), policy[n], id, b)
<1> DEFINE g == policy[n]
           hit(m) == Hit(policy, b, m)
           other(m) == policy[m].pattern # p
           acc == After(policy, id, b, p, n - 1)
           new == After(policy, id, b, p, n)
           gives == IF GrantMatchesIdentity(g, id) THEN Roles[g.role] ELSE {}
<1>1. n \in Nat /\ \A m : m \in 1..n <=> m \in 1..(n - 1) \/ m = n
  BY DEF Ordered
<1>2. 1..(n - 1) \subseteq 1..Len(policy) /\ \A m \in 1..(n - 1) : m < n
  BY DEF Ordered
<1>3. hit(n) /\ (\A m \in 1..(n - 1) : ~hit(m)) => ~other(n)
  BY DEF Decides
<1>4. ASSUME NEW m \in 1..(n - 1), hit(m), other(m) PROVE other(n)
  <2>1. m \in 1..Len(policy) /\ m < n
    BY <1>2
  <2>2. Above(p, policy[m].pattern)
    BY <1>4, <2>1 DEF Decides
  <2>3. ~Above(policy[n].pattern, policy[m].pattern)
    BY <2>1 DEF Ordered
  <2> QED
    BY <2>2, <2>3
<1>5. Path(g) = g.pattern /\ (Matches(Path(g), b) <=> hit(n))
  BY DEF Path, Hit
<1>6. Given(policy, id, b, p, n) =
        IF hit(n) /\ ~other(n) /\ GrantMatchesIdentity(g, id)
        THEN Given(policy, id, b, p, n - 1) \cup {n} ELSE Given(policy, id, b, p, n - 1)
  BY <1>1, Zenon DEF Given
<1>7. /\ acc.best = IF \E m \in 1..(n - 1) : hit(m) THEN {p} ELSE {}
      /\ acc.broken = \E m \in 1..(n - 1) : hit(m) /\ other(m)
      /\ acc = [best |-> acc.best, caps |-> acc.caps, broken |-> acc.broken]
  BY Zenon DEF After
<1>8. /\ new.best = IF \E m \in 1..n : hit(m) THEN {p} ELSE {}
      /\ new.broken = \E m \in 1..n : hit(m) /\ other(m)
      /\ new = [best |-> new.best, caps |-> new.caps, broken |-> new.broken]
  BY Zenon DEF After
<1>9. new.caps = IF hit(n) /\ ~other(n) THEN acc.caps \cup gives ELSE acc.caps
  <2>1. acc.caps = UNION {Roles[policy[m].role] : m \in Given(policy, id, b, p, n - 1)}
    BY Zenon DEF After
  <2>2. new.caps = UNION {Roles[policy[m].role] : m \in Given(policy, id, b, p, n)}
    BY Zenon DEF After
  <2> HIDE DEF acc, new, hit, other
  <2>3. CASE hit(n) /\ ~other(n) /\ GrantMatchesIdentity(g, id)
    BY <1>6, <2>1, <2>2, <2>3
  <2>4. CASE ~(hit(n) /\ ~other(n) /\ GrantMatchesIdentity(g, id))
    BY <1>6, <2>1, <2>2, <2>4
  <2> QED
    BY <2>3, <2>4
<1> HIDE DEF acc, new, gives
<1>10. CASE acc.broken \/ ~hit(n)
  <2>1. Visit(acc, g, id, b) = acc
    BY <1>5, <1>10, Zenon DEF Visit
  <2>2. acc.broken => other(n) /\ \E m \in 1..(n - 1) : hit(m)
    BY <1>4, <1>7, Zenon
  <2>3. new.caps = acc.caps
    BY <1>9, <1>10, <2>2, Zenon
  <2>4. new.best = acc.best
    BY <1>1, <1>7, <1>8, <1>10, <2>2, Zenon
  <2>5. new.broken = acc.broken
    BY <1>1, <1>7, <1>8, <1>10, <2>2, Zenon
  <2>6. new = acc
    BY <1>7, <1>8, <2>3, <2>4, <2>5, Zenon
  <2> QED
    BY <2>1, <2>6 DEF acc, new
<1>11. CASE ~acc.broken /\ hit(n) /\ other(n)
  <2>1. \E m \in 1..(n - 1) : hit(m)
    BY <1>3, <1>11, Zenon
  <2>2. acc.best = {p} /\ p # g.pattern
    BY <1>7, <1>11, <2>1, Zenon
  <2>3. Visit(acc, g, id, b) = [acc EXCEPT !.broken = TRUE]
    BY <1>5, <1>11, <2>2 DEF Visit
  <2>4. [acc EXCEPT !.broken = TRUE] = [best |-> acc.best, caps |-> acc.caps, broken |-> TRUE]
    BY <1>7, Updates, Zenon
  <2>5. new.best = acc.best
    BY <1>1, <1>7, <1>8, <2>1, Zenon
  <2>6. new.broken = TRUE
    BY <1>1, <1>8, <1>11, Zenon
  <2>7. new.caps = acc.caps
    BY <1>9, <1>11, Zenon
  <2>8. new = Visit(acc, g, id, b)
    BY <1>8, <2>3, <2>4, <2>5, <2>6, <2>7, Zenon
  <2> QED
    BY <2>8 DEF acc, new
<1>12. CASE ~acc.broken /\ hit(n) /\ ~other(n)
  <2>1. acc.best = {} \/ g.pattern \in acc.best
    BY <1>7, <1>12, Zenon
  <2>2. Visit(acc, g, id, b) =
          [acc EXCEPT !.best = {g.pattern}, !.caps = acc.caps \cup gives]
    BY <1>5, <1>12, <2>1 DEF Visit, gives
  <2>3. [acc EXCEPT !.best = {g.pattern}, !.caps = acc.caps \cup gives]
          = [best |-> {g.pattern}, caps |-> acc.caps \cup gives, broken |-> acc.broken]
    BY <1>7, Updates, Zenon
  <2>4. new.best = {p}
    BY <1>1, <1>8, <1>12, Zenon
  <2>5. new.broken = acc.broken
    BY <1>1, <1>7, <1>8, <1>12, Zenon
  <2>6. new.caps = acc.caps \cup gives
    BY <1>9, <1>12, Zenon
  <2>7. new = Visit(acc, g, id, b)
    BY <1>8, <1>12, <2>2, <2>3, <2>4, <2>5, <2>6, Zenon
  <2> QED
    BY <2>7 DEF acc, new
<1> QED
  BY <1>10, <1>11, <1>12

-----------------------------------------------------------------------------
(* The loop gives what is due *)

(* The grants of the deciding pattern are those no narrower one overrules. *)
LEMMA RulingDecides ==
    ASSUME NEW grants, WellFormed(grants), Apart(grants), NEW b \in Boards,
           NEW p \in Patterns,
           \A g \in ToSet(grants) : Matches(g.pattern, b) =>
               g.pattern = p \/ Above(p, g.pattern),
           (\E g \in ToSet(grants) : Matches(g.pattern, b)) =>
               \E g \in ToSet(grants) : Matches(g.pattern, b) /\ g.pattern = p
    PROVE  Ruling(grants, b) =
               {g \in ToSet(grants) : Matches(g.pattern, b) /\ g.pattern = p}
<1> DEFINE T == ToSet(grants)
<1>1. \A g \in T : g.pattern \in Patterns
  BY DEF WellFormed
<1>2. \A g : b \in Reach(g) <=> Matches(g.pattern, b)
  BY DEF Reach
<1>3. ASSUME NEW g \in T, Matches(g.pattern, b), g.pattern = p,
             NEW h \in T, Matches(h.pattern, b)
      PROVE  Reach(g) \subseteq Reach(h)
  <2>1. h.pattern = p \/ Above(p, h.pattern)
    BY <1>3
  <2>2. Above(p, h.pattern) => \A c \in Boards : Matches(p, c) => Matches(h.pattern, c)
    BY <1>1, <1>3, SameBoard
  <2> QED
    BY <1>3, <2>1, <2>2 DEF Reach
<1>4. ASSUME NEW g \in T, Matches(g.pattern, b), g.pattern = p
      PROVE  g \in Ruling(grants, b)
  <2>1. ASSUME NEW h \in T, b \in Reach(h) PROVE ~Narrower(h, g)
    <3>1. Reach(g) \subseteq Reach(h)
      BY <1>2, <1>3, <1>4, <2>1
    <3> QED
      BY <3>1 DEF Narrower
  <2> QED
    BY <1>2, <1>4, <2>1 DEF Ruling
<1>5. ASSUME NEW h \in Ruling(grants, b)
      PROVE  h \in T /\ Matches(h.pattern, b) /\ h.pattern = p
  <2>1. h \in T /\ Matches(h.pattern, b) /\ \A g \in T : b \in Reach(g) => ~Narrower(g, h)
    BY <1>2 DEF Ruling
  <2>2. PICK g \in T : Matches(g.pattern, b) /\ g.pattern = p
    BY <2>1
  <2>3. Reach(g) \subseteq Reach(h) /\ ~Narrower(g, h)
    BY <1>2, <1>3, <2>1, <2>2
  <2>4. Reach(g) = Reach(h)
    BY <2>3 DEF Narrower
  <2>5. g.pattern = h.pattern
    BY <2>1, <2>4 DEF Apart
  <2> QED
    BY <2>1, <2>2, <2>5
<1>6. \A g : g \in Ruling(grants, b) <=>
               g \in {h \in T : Matches(h.pattern, b) /\ h.pattern = p}
  BY <1>4, <1>5, Zenon
<1> QED
  BY <1>6, Zenon

LEMMA SortedIsOrdered ==
    ASSUME NEW grants, WellFormed(grants)
    PROVE  /\ Ordered(Sorted(grants)) /\ Len(Sorted(grants)) = Len(grants)
           /\ \A n \in 1..Len(grants) : Sorted(grants)[n] \in ToSet(grants)
           /\ \A g \in ToSet(grants) : \E n \in 1..Len(grants) : Sorted(grants)[n] = g
<1> DEFINE policy == Sorted(grants)
           N == Len(grants)
<1>1. Fits(grants)
  BY WellFormedFits
<1>2. N \in Nat
  BY <1>1, BeforeOrder
<1>3. /\ DOMAIN policy = 1..N
      /\ \A n \in 1..N : policy[n] \in ToSet(grants)
      /\ \A g \in ToSet(grants) : \E n \in 1..N : policy[n] = g
      /\ \A m, n \in 1..N : m < n => ~Precedes(policy[n], policy[m])
  BY <1>1, SortedSorts
<1>4. policy = [n \in 1..N |-> policy[n]]
  BY <1>3 DEF Sorted
<1> HIDE DEF policy, N
<1>5. policy \in Seq(ToSet(grants)) /\ Len(policy) = N
  BY <1>2, <1>3, <1>4
<1>6. \A n \in 1..N : policy[n].pattern \in Patterns
  BY <1>3 DEF WellFormed
<1>7. \A m, n \in 1..N : m < n => ~Above(policy[n].pattern, policy[m].pattern)
  BY <1>3 DEF Precedes, Above, Path
<1>8. Ordered(policy)
  BY <1>2, <1>5, <1>6, <1>7 DEF Ordered
<1> QED
  BY <1>3, <1>5, <1>8 DEF policy, N

(* access.py: for every well-formed list of grants, every identity and     *)
(* every board, the loop over the sorted list, with its early exit, unions *)
(* exactly the roles of the grants that no narrower grant overrules.       *)
THEOREM CapabilitiesAreDue ==
    ASSUME NEW grants, WellFormed(grants), Apart(grants), NEW id, NEW b \in Boards
    PROVE  capabilities(Sorted(grants), id, b) = Due(grants, id, b)
<1> DEFINE policy == Sorted(grants)
           N == Len(policy)
           T == ToSet(grants)
<1>1. Ordered(policy) /\ \A n \in 1..N : policy[n] \in T
  BY SortedIsOrdered
<1>2. \A g \in T : \E n \in 1..N : policy[n] = g
  BY SortedIsOrdered
<1> HIDE DEF policy
<1>3. PICK p : Decides(policy, b, p)
  BY <1>1, SomePatternDecides
<1> DEFINE h == [n \in 0..N |-> After(policy, id, b, p, n)]
<1>4. N \in Nat
  BY <1>1 DEF Ordered
<1>5. h[0] = NoneVisited
  <2>1. h[0] = After(policy, id, b, p, 0)
    BY <1>4
  <2>2. ~\E m : m \in 1..0
    OBVIOUS
  <2>3. After(policy, id, b, p, 0) = NoneVisited
    BY <2>2 DEF After, Given, NoneVisited
  <2> QED
    BY <2>1, <2>3
<1>6. ASSUME NEW n \in 1..N PROVE h[n] = Visit(h[n - 1], policy[n], id, b)
  <2>1. h[n] = After(policy, id, b, p, n) /\ h[n - 1] = After(policy, id, b, p, n - 1)
    BY <1>4
  <2>2. After(policy, id, b, p, n) = Visit(After(policy, id, b, p, n - 1), policy[n], id, b)
    BY <1>1, <1>3, TurnStep
  <2> QED
    BY <2>1, <2>2, Zenon
<1>7. h = [n \in 0..N |-> h[n]] /\ h[N] = After(policy, id, b, p, N)
  BY <1>4
<1> HIDE DEF h
<1>8. capabilities(policy, id, b) = After(policy, id, b, p, N).caps
  <2>1. capabilities(policy, id, b) = h[N].caps
    BY <1>4, <1>5, <1>6, <1>7, LoopComputes
  <2> QED
    BY <1>7, <2>1
<1>9. Ruling(grants, b) = {g \in T : Matches(g.pattern, b) /\ g.pattern = p}
  <2>1. \A g \in T : Matches(g.pattern, b) => g.pattern = p \/ Above(p, g.pattern)
    BY <1>2, <1>3, Zenon DEF Decides, Hit
  <2>2. (\E g \in T : Matches(g.pattern, b)) =>
            \E g \in T : Matches(g.pattern, b) /\ g.pattern = p
    BY <1>1, <1>2, <1>3, Zenon DEF Decides, Hit
  <2>3. p \in Patterns
    BY <1>3 DEF Decides
  <2> QED
    BY <2>1, <2>2, <2>3, RulingDecides
<1> DEFINE U == {g \in Ruling(grants, b) : GrantMatchesIdentity(g, id)}
           V == Given(policy, id, b, p, N)
<1>10. \A m \in V : policy[m] \in U
  BY <1>1, <1>9, Zenon DEF Given, Hit
<1>11. \A g \in U : \E m \in V : policy[m] = g
  BY <1>2, <1>9, Zenon DEF Given, Hit
<1> HIDE DEF U, V
<1>12. UNION {Roles[policy[m].role] : m \in V} = UNION {Roles[g.role] : g \in U}
  <2>1. {Roles[policy[m].role] : m \in V} \subseteq {Roles[g.role] : g \in U}
    BY <1>10, Zenon
  <2>2. {Roles[g.role] : g \in U} \subseteq {Roles[policy[m].role] : m \in V}
    BY <1>11, Zenon
  <2>3. {Roles[policy[m].role] : m \in V} = {Roles[g.role] : g \in U}
    BY <2>1, <2>2
  <2> QED
    BY <2>3
<1>13. After(policy, id, b, p, N).caps = UNION {Roles[policy[m].role] : m \in V}
  BY DEF After, V
<1>14. Due(grants, id, b) = UNION {Roles[g.role] : g \in U}
  BY DEF Due, U
<1> QED
  BY <1>8, <1>12, <1>13, <1>14 DEF policy

-----------------------------------------------------------------------------
(* That the boards tell patterns apart *)

LEMMA Continued ==
    ASSUME NEW s \in Seq(Segments), NEW x \in Segments
    PROVE  /\ Append(s, x) \in Seq(Segments) \ {<<>>}
           /\ IsPrefix(s, Append(s, x)) /\ s # Append(s, x)
<1> DEFINE t == Append(s, x)
<1>1. t \in Seq(Segments) /\ Len(t) = Len(s) + 1 /\ \A i \in 1..Len(s) : t[i] = s[i]
  OBVIOUS
<1> HIDE DEF t
<1>2. t # <<>> /\ t # s
  BY <1>1
<1>3. SubSeq(s, 1, Len(s)) \in Seq(Segments) /\ SubSeq(t, 1, Len(s)) \in Seq(Segments)
  BY <1>1
<1>4. Len(SubSeq(s, 1, Len(s))) = Len(s) /\ Len(SubSeq(t, 1, Len(s))) = Len(s)
  BY <1>1
<1>5. \A i \in 1..Len(s) : SubSeq(s, 1, Len(s))[i] = s[i] /\ SubSeq(t, 1, Len(s))[i] = t[i]
  BY <1>1
<1>6. SubSeq(s, 1, Len(s)) = SubSeq(t, 1, Len(s))
  BY <1>1, <1>3, <1>4, <1>5, SeqEqual
<1>7. IsPrefix(s, t)
  BY <1>1, <1>6 DEF IsPrefix
<1> QED
  BY <1>1, <1>2, <1>7 DEF t

(* A strict prefix of a path and a segment is a prefix of the path. *)
LEMMA PrefixOfContinued ==
    ASSUME NEW s \in Seq(Segments), NEW t \in Seq(Segments), NEW x \in Segments,
           IsPrefix(t, Append(s, x)), t # Append(s, x)
    PROVE  Len(t) <= Len(s) /\ \A i \in 1..Len(t) : t[i] = s[i]
<1> DEFINE u == Append(s, x)
<1>1. u \in Seq(Segments) /\ Len(u) = Len(s) + 1 /\ \A i \in 1..Len(s) : u[i] = s[i]
  OBVIOUS
<1> HIDE DEF u
<1>2. Len(t) <= Len(u) /\ \A i \in 1..Len(t) : t[i] = u[i]
  BY <1>1, PrefixElements DEF u
<1>3. Len(t) # Len(u)
  <2> SUFFICES ASSUME Len(t) = Len(u) PROVE t = u
    BY DEF u
  <2> QED
    BY <1>1, <1>2, SeqEqual
<1> QED
  BY <1>1, <1>2, <1>3

(* Where every path may be a board, two patterns that reach the same       *)
(* boards are one: the boards of access.py are all its strings, and the    *)
(* assumption that a configuration's patterns are told apart costs nothing. *)
THEOREM EveryBoardTellsApart ==
    ASSUME NEW grants, WellFormed(grants), Boards = Seq(Segments) \ {<<>>}, Segments # {}
    PROVE  Apart(grants)
<1> SUFFICES ASSUME NEW g \in ToSet(grants), NEW h \in ToSet(grants), Reach(g) = Reach(h)
             PROVE  g.pattern = h.pattern
  BY DEF Apart
<1>1. g.pattern \in Patterns /\ h.pattern \in Patterns
  BY DEF WellFormed
<1>2. \A c \in Boards : Matches(g.pattern, c) <=> Matches(h.pattern, c)
  BY DEF Reach
<1>3. PICK x : x \in Segments
  OBVIOUS
<1>4. ASSUME NEW p \in Patterns, NEW q \in Patterns,
             \A c \in Boards : Matches(p, c) <=> Matches(q, c)
      PROVE  /\ p.kind = q.kind => p.path = q.path
             /\ ~(p.kind = "all" /\ q.kind = "tree")
             /\ ~(p.kind = "all" /\ q.kind = "exact")
             /\ ~(p.kind = "tree" /\ q.kind = "exact")
  <2> DEFINE s == p.path
             t == q.path
  <2>1. s \in Seq(Segments) /\ t \in Seq(Segments)
    BY PatternKinds
  <2>2. /\ p.kind # "all" => s \in Boards
        /\ q.kind # "all" => t \in Boards
        /\ p.kind = "all" => s = <<>>
        /\ q.kind = "all" => t = <<>>
    BY DEF Patterns
  <2>3. Append(s, x) \in Boards /\ IsPrefix(s, Append(s, x)) /\ s # Append(s, x)
    BY <1>3, <2>1, Continued
  <2>4. Append(t, x) \in Boards /\ IsPrefix(t, Append(t, x)) /\ t # Append(t, x)
    BY <1>3, <2>1, Continued
  <2> HIDE DEF s, t
  <2>5. /\ p.kind = "all" => \A c \in Boards : Matches(p, c)
        /\ p.kind = "tree" => \A c \in Boards : Matches(p, c) <=> IsPrefix(s, c) /\ s # c
        /\ p.kind = "exact" => \A c \in Boards : Matches(p, c) <=> s = c
    BY MatchesKinds DEF s
  <2>6. /\ q.kind = "all" => \A c \in Boards : Matches(q, c)
        /\ q.kind = "tree" => \A c \in Boards : Matches(q, c) <=> IsPrefix(t, c) /\ t # c
        /\ q.kind = "exact" => \A c \in Boards : Matches(q, c) <=> t = c
    BY MatchesKinds DEF t
  <2>7. ~(p.kind = "all" /\ q.kind = "tree")
    BY <1>4, <2>2, <2>5, <2>6
  <2>8. ~(p.kind = "all" /\ q.kind = "exact")
    BY <1>4, <2>4, <2>5, <2>6
  <2>9. ASSUME p.kind = "tree", q.kind = "exact" PROVE FALSE
    <3>1. t = Append(s, x)
      BY <1>4, <2>3, <2>5, <2>6, <2>9
    <3>2. Append(t, x) # s /\ IsPrefix(s, Append(t, x))
      BY <2>1, <2>3, <2>4, <3>1, PrefixTransitive, <1>3, Continued
    <3> QED
      BY <1>4, <2>4, <2>5, <2>6, <2>9, <3>2
  <2>10. ASSUME p.kind = "tree", q.kind = "tree" PROVE s = t
    <3>1. IsPrefix(t, Append(s, x)) /\ t # Append(s, x)
      BY <1>4, <2>3, <2>5, <2>6, <2>10
    <3>2. IsPrefix(s, Append(t, x)) /\ s # Append(t, x)
      BY <1>4, <2>4, <2>5, <2>6, <2>10
    <3>3. Len(t) <= Len(s) /\ \A i \in 1..Len(t) : t[i] = s[i]
      BY <1>3, <2>1, <3>1, PrefixOfContinued
    <3>4. Len(s) <= Len(t)
      BY <1>3, <2>1, <3>2, PrefixOfContinued
    <3>5. Len(s) = Len(t)
      BY <2>1, <3>3, <3>4
    <3> QED
      BY <2>1, <3>3, <3>5, SeqEqual
  <2>11. p.kind = "exact" /\ q.kind = "exact" => s = t
    BY <1>4, <2>2, <2>5, <2>6
  <2>12. p.kind \in {"all", "tree", "exact"}
    BY PatternKinds
  <2>13. p.kind = q.kind => s = t
    BY <2>2, <2>10, <2>11, <2>12
  <2> QED
    BY <2>7, <2>8, <2>9, <2>13 DEF s, t
<1>5. g.pattern.kind = h.pattern.kind
  <2>1. g.pattern.kind \in {"all", "tree", "exact"} /\ h.pattern.kind \in {"all", "tree", "exact"}
    BY <1>1, PatternKinds
  <2> QED
    BY <1>1, <1>2, <1>4, <2>1
<1>6. g.pattern.path = h.pattern.path
  BY <1>1, <1>2, <1>4, <1>5
<1> QED
  BY <1>1, <1>5, <1>6, PatternKinds

=============================================================================
