---------------------------- MODULE CodecProofs ----------------------------
(***************************************************************************)
(* What TLAPS proves of the texts that name an entity: entityIdCodec       *)
(* decodes what it encodes, for every tuple of texts, the hash of a        *)
(* producer's resolver is the cluster's, for every text, the fast path of  *)
(* canonicalJsonString never shows, and canonical texts tell documents     *)
(* apart.  The definitions are recursive functions; that these exist, and  *)
(* what they compute, is proved by induction over sets of numbers, of      *)
(* sequences and of documents.                                             *)
(***************************************************************************)
EXTENDS IdentityCodecs, AddressResolver, CanonicalJson, SequenceTheorems, WellFoundedInduction, TLAPS

---------------------------------------------------------------------------
(* Induction over sets.                                                    *)

\* A set with zero and the successors of its numbers has every number.
LEMMA NumbersInSet ==
    ASSUME NEW T, 0 \in T, \A n \in Nat : n \in T => n + 1 \in T
    PROVE  Nat \subseteq T
  <1> SUFFICES ASSUME Nat \ T # {}
               PROVE  FALSE
    OBVIOUS
  <1>1. PICK x \in Nat \ T : \A y \in Nat \ T : <<y, x>> \notin OpToRel(<, Nat)
    BY NatLessThanWellFounded, WFMin, Zenon
  <1>2. \A y \in Nat \ T : ~(y < x)
    BY <1>1 DEF OpToRel
  <1>3. x - 1 \in Nat /\ x - 1 < x
    OBVIOUS
  <1>4. x - 1 \in T
    BY <1>2, <1>3
  <1> QED
    BY <1>3, <1>4

\* A set with the empty sequence and the extensions of its sequences by an
\* element has every sequence.
LEMMA SequencesInSet ==
    ASSUME NEW S, NEW T, <<>> \in T,
           \A s \in Seq(S), x \in S : s \in T => Append(s, x) \in T
    PROVE  Seq(S) \subseteq T
  <1> DEFINE N == {n \in Nat : \A s \in Seq(S) : Len(s) = n => s \in T}
  <1>1. 0 \in N
    BY EmptySeq
  <1>2. ASSUME NEW n \in Nat, n \in N
        PROVE  n + 1 \in N
    <2> SUFFICES ASSUME NEW s \in Seq(S), Len(s) = n + 1
                 PROVE  s \in T
      OBVIOUS
    <2>1. PICK front \in Seq(S), x \in S : s = Append(front, x)
      BY SequenceEmptyOrAppend
    <2>2. Len(front) = n
      BY <2>1
    <2> QED
      BY <1>2, <2>1, <2>2
  <1> HIDE DEF N
  <1>3. Nat \subseteq N
    BY <1>1, <1>2, NumbersInSet
  <1> QED
    BY <1>3 DEF N

\* A function on the first numbers is a sequence.
LEMMA IsSequence ==
    ASSUME NEW S, NEW n \in Nat, NEW s, s = [i \in 1 .. n |-> s[i]],
           \A i \in 1 .. n : s[i] \in S
    PROVE  s \in Seq(S) /\ Len(s) = n
  OBVIOUS

\* A sequence with one more element than another one extends it.
LEMMA IsExtension ==
    ASSUME NEW S, NEW s \in Seq(S), NEW x \in S, NEW t \in Seq(S), Len(t) = Len(s) + 1,
           t[Len(t)] = x, \A i \in 1 .. Len(s) : t[i] = s[i]
    PROVE  t = Append(s, x)
  <1>1. PICK n \in Nat : n = Len(t)
    OBVIOUS
  <1>2. \A i \in 1 .. n : i \in 1 .. Len(s) \/ i = n
    BY <1>1
  <1> DEFINE more == Append(s, x)
  <1>3. /\ more \in Seq(S) /\ Len(more) = n /\ more[n] = x
        /\ \A i \in 1 .. Len(s) : more[i] = s[i]
    BY <1>1, AppendProperties
  <1> HIDE DEF more
  <1>4. \A i \in 1 .. n : t[i] = more[i]
    BY <1>1, <1>2, <1>3
  <1>5. t = more
    BY <1>1, <1>3, <1>4, SeqEqual
  <1> QED
    BY <1>5 DEF more

\* Concatenation takes no brackets.
Groups(a, b, c) == (a \o b) \o c = a \o (b \o c)
LEMMA Regrouped ==
    ASSUME NEW S, NEW a \in Seq(S), NEW b \in Seq(S), NEW c \in Seq(S)
    PROVE  Groups(a, b, c)
  BY DEF Groups

\* The elements of a sequence are what its positions hold.
LEMMA InToSet ==
    ASSUME NEW S, NEW s \in Seq(S), NEW x
    PROVE  x \in ToSet(s) <=> \E i \in 1 .. Len(s) : s[i] = x
  <1>1. PICK dom : dom = 1 .. Len(s)
    OBVIOUS
  <1>2. DOMAIN s = dom
    BY <1>1
  <1>3. ToSet(s) = {s[i] : i \in dom}
    BY <1>2, Zenon DEF ToSet
  <1>4. x \in {s[i] : i \in dom} <=> \E i \in dom : s[i] = x
    OBVIOUS
  <1> QED
    BY <1>1, <1>3, <1>4, Zenon

---------------------------------------------------------------------------
(* FlattenSeq, from the community modules.                                 *)

\* The function that FlattenSeq goes by, for the first n sequences.
Flattened(g, seqs, i) == IF i = 1 THEN seqs[i] ELSE g[i - 1] \o seqs[i]
Flattens(g, seqs, n) ==
    /\ g = [i \in 1 .. n |-> g[i]]
    /\ \A i \in 1 .. n : g[i] = Flattened(g, seqs, i)

\* An item depends on the one before.
LEMMA FlattenedBefore ==
    ASSUME NEW seqs, NEW f, NEW g, NEW i, i # 1 => f[i - 1] = g[i - 1]
    PROVE  Flattened(f, seqs, i) = Flattened(g, seqs, i)
  BY DEF Flattened

\* The function exists.
LEMMA FlattensExists ==
    ASSUME NEW seqs, NEW n \in Nat
    PROVE  \E g : Flattens(g, seqs, n)
  <1> DEFINE T == {k \in Nat : \E g : Flattens(g, seqs, k)}
  <1>1. 0 \in T
    <2>1. Flattens([i \in 1 .. 0 |-> i], seqs, 0)
      BY DEF Flattens
    <2> QED
      BY <2>1
  <1>2. ASSUME NEW k \in Nat, k \in T
        PROVE  k + 1 \in T
    <2>1. PICK g : Flattens(g, seqs, k)
      BY <1>2
    <2>2. PICK h : h = [i \in 1 .. k + 1 |-> Flattened(g, seqs, i)]
      OBVIOUS
    <2>3. \A i \in 1 .. k : h[i] = g[i]
      BY <2>1, <2>2 DEF Flattens
    <2>4. \A i \in 1 .. k + 1 : i # 1 => i - 1 \in 1 .. k
      OBVIOUS
    <2>5. \A i \in 1 .. k + 1 : Flattened(h, seqs, i) = Flattened(g, seqs, i)
      BY <2>3, <2>4, FlattenedBefore
    <2>6. Flattens(h, seqs, k + 1)
      BY <2>2, <2>5 DEF Flattens
    <2> QED
      BY <2>6
  <1> HIDE DEF T
  <1>3. Nat \subseteq T
    BY <1>1, <1>2, NumbersInSet
  <1> QED
    BY <1>3 DEF T

\* Whatever goes by it ends in what FlattenSeq returns.
LEMMA FlattensUnique ==
    ASSUME NEW seqs, NEW n \in Nat \ {0}, Len(seqs) = n, NEW g, Flattens(g, seqs, n)
    PROVE  FlattenSeq(seqs) = g[n]
  <1>1. PICK f : Flattens(f, seqs, n) /\ FlattenSeq(seqs) = f[n]
    <2>1. PICK f : f = CHOOSE g0 : g0 = [i \in 1 .. n |-> Flattened(g0, seqs, i)]
      OBVIOUS
    <2>2. PICK h : Flattens(h, seqs, n)
      BY FlattensExists
    <2>3. h = [i \in 1 .. n |-> Flattened(h, seqs, i)]
      BY <2>2, Zenon DEF Flattens
    <2>4. f = [i \in 1 .. n |-> Flattened(f, seqs, i)]
      BY <2>1, <2>3, Zenon
    <2>5. Flattens(f, seqs, n)
      BY <2>4, Zenon DEF Flattens
    <2>6. FlattenSeq(seqs) = f[n]
      BY <2>1 DEF FlattenSeq, Flattened
    <2> QED
      BY <2>5, <2>6
  <1> DEFINE T == {k \in Nat : k \in 1 .. n => f[k] = g[k]}
  <1>2. 0 \in T
    OBVIOUS
  <1>3. ASSUME NEW k \in Nat, k \in T
        PROVE  k + 1 \in T
    <2> SUFFICES ASSUME k + 1 \in 1 .. n
                 PROVE  f[k + 1] = g[k + 1]
      OBVIOUS
    <2>1. k + 1 # 1 => f[k + 1 - 1] = g[k + 1 - 1]
      BY <1>3
    <2>2. Flattened(f, seqs, k + 1) = Flattened(g, seqs, k + 1)
      BY <2>1, FlattenedBefore
    <2> QED
      BY <1>1, <2>2 DEF Flattens
  <1> HIDE DEF T
  <1>4. Nat \subseteq T
    BY <1>2, <1>3, NumbersInSet
  <1> QED
    BY <1>1, <1>4 DEF T

\* FlattenSeq appends its sequences, one after the other.
LEMMA FlattenAppend ==
    ASSUME NEW S, NEW seqs \in Seq(Seq(S)), NEW s \in Seq(S)
    PROVE  FlattenSeq(Append(seqs, s)) = FlattenSeq(seqs) \o s
  <1>1. PICK n \in Nat, m \in Nat \ {0} : n = Len(seqs) /\ m = n + 1
    <2>1. Len(seqs) \in Nat /\ Len(seqs) + 1 \in Nat \ {0}
      OBVIOUS
    <2> QED
      BY <2>1
  <1> DEFINE all == Append(seqs, s)
  <1>2. Len(all) = m /\ all[m] = s /\ \A i \in 1 .. n : all[i] = seqs[i]
    BY <1>1
  <1> HIDE DEF all
  <1>3. PICK g : Flattens(g, all, m)
    BY FlattensExists
  <1>4. FlattenSeq(all) = g[m]
    BY <1>2, <1>3, FlattensUnique
  <1>5. CASE n = 0
    <2>1. FlattenSeq(seqs) = <<>>
      <3>1. seqs = <<>>
        BY <1>1, <1>5, EmptySeq
      <3> QED
        BY <3>1 DEF FlattenSeq
    <2>2. g[1] = s
      BY <1>1, <1>2, <1>3, <1>5 DEF Flattens, Flattened
    <2> QED
      BY <1>1, <1>4, <1>5, <2>1, <2>2, ConcatEmptySeq DEF all
  <1>6. CASE n # 0
    <2>1. PICK h : h = [i \in 1 .. n |-> g[i]]
      OBVIOUS
    <2>2. \A i \in 1 .. n : Flattened(h, seqs, i) = g[i]
      <3> SUFFICES ASSUME NEW i \in 1 .. n
                   PROVE  Flattened(h, seqs, i) = g[i]
        OBVIOUS
      <3>1. Flattened(h, seqs, i) = Flattened(g, all, i)
        <4>1. seqs[i] = all[i] /\ (i # 1 => h[i - 1] = g[i - 1])
          BY <1>2, <2>1
        <4> QED
          BY <4>1 DEF Flattened
      <3> QED
        BY <1>1, <1>3, <3>1 DEF Flattens
    <2>3. Flattens(h, seqs, n)
      BY <2>1, <2>2 DEF Flattens
    <2>4. FlattenSeq(seqs) = g[n]
      <3>1. n \in Nat \ {0} /\ h[n] = g[n]
        BY <1>6, <2>1
      <3> QED
        BY <1>1, <2>3, <3>1, FlattensUnique
    <2>5. g[m] = g[n] \o s
      <3>1. m \in 1 .. m /\ m # 1 /\ m - 1 = n
        BY <1>1, <1>6
      <3>2. g[m] = Flattened(g, all, m)
        BY <1>3, <3>1 DEF Flattens
      <3> QED
        BY <1>2, <3>1, <3>2 DEF Flattened
    <2> QED
      BY <1>4, <2>4, <2>5 DEF all
  <1> QED
    BY <1>5, <1>6

\* FlattenSeq returns a sequence of the elements of its sequences.
LEMMA FlattenType ==
    ASSUME NEW S, NEW seqs \in Seq(Seq(S))
    PROVE  FlattenSeq(seqs) \in Seq(S)
  <1> DEFINE T == {q \in Seq(Seq(S)) : FlattenSeq(q) \in Seq(S)}
  <1>1. <<>> \in T
    BY DEF FlattenSeq
  <1>2. ASSUME NEW q \in Seq(Seq(S)), NEW s \in Seq(S), q \in T
        PROVE  Append(q, s) \in T
    <2>1. FlattenSeq(q) \o s \in Seq(S)
      BY <1>2, ConcatProperties
    <2>2. Append(q, s) \in Seq(Seq(S))
      OBVIOUS
    <2> QED
      BY <2>1, <2>2, FlattenAppend
  <1> HIDE DEF T
  <1>3. Seq(Seq(S)) \subseteq T
    BY <1>1, <1>2, SequencesInSet
  <1> QED
    BY <1>3 DEF T

---------------------------------------------------------------------------
(* SplitParts, a fold from the left.                                       *)

\* The function that the fold goes by, for the sets of the first n positions.
SplitAt(g, text, s) ==
    IF s = {} THEN << <<>> >> ELSE Extend(g[s \ {Max(s)}], text[Max(s)])
Splits(g, text, n) ==
    /\ g = [s \in SUBSET (1 .. n) |-> g[s]]
    /\ \A s \in SUBSET (1 .. n) : g[s] = SplitAt(g, text, s)

\* The greatest of a set of positions with the last one.
LEMMA MaxOfPositions ==
    ASSUME NEW n \in Nat, NEW s \in SUBSET (1 .. n), n \in s
    PROVE  Max(s) = n
  <1>1. \A x \in s : x \in 1 .. n /\ x <= n
    OBVIOUS
  <1>2. \A x \in s : (\A y \in s : x >= y) => x = n
    BY <1>1
  <1>3. \A y \in s : n >= y
    BY <1>1
  <1> QED
    BY <1>2, <1>3, Zenon DEF Max

\* The function exists.
LEMMA SplitsExists ==
    ASSUME NEW text, NEW n \in Nat
    PROVE  \E g : Splits(g, text, n)
  <1> DEFINE T == {k \in Nat : \E g : Splits(g, text, k)}
  <1>1. 0 \in T
    <2>1. Splits([s \in SUBSET (1 .. 0) |-> << <<>> >>], text, 0)
      <3>1. 1 .. 0 = {}
        OBVIOUS
      <3> QED
        BY <3>1 DEF Splits, SplitAt
    <2> QED
      BY <2>1
  <1>2. ASSUME NEW k \in Nat, k \in T
        PROVE  k + 1 \in T
    <2>1. PICK g : Splits(g, text, k)
      BY <1>2
    <2>2. PICK m \in Nat : m = k + 1
      OBVIOUS
    <2>3. PICK h : h = [s \in SUBSET (1 .. m) |-> IF m \in s THEN SplitAt(g, text, s) ELSE g[s]]
      OBVIOUS
    <2>4. ASSUME NEW s \in SUBSET (1 .. m)
          PROVE  h[s] = SplitAt(h, text, s)
      <3>1. CASE m \in s
        <4>1. Max(s) = m
          BY <3>1, MaxOfPositions
        <4>2. s \ {m} \in SUBSET (1 .. k) /\ s \ {m} \in SUBSET (1 .. m) /\ m \notin s \ {m}
          BY <2>2
        <4>3. h[s \ {m}] = g[s \ {m}]
          BY <2>3, <4>2
        <4> QED
          BY <2>3, <3>1, <4>1, <4>3 DEF SplitAt
      <3>2. CASE m \notin s
        <4>1. s \in SUBSET (1 .. k) /\ (s \ {Max(s)}) \in SUBSET (1 .. k)
          <5>1. \A x \in s : x \in 1 .. k
            BY <2>2, <3>2
          <5> QED
            BY <5>1
        <4>2. (s \ {Max(s)}) \in SUBSET (1 .. m) /\ m \notin (s \ {Max(s)})
          BY <3>2
        <4>3. h[s \ {Max(s)}] = g[s \ {Max(s)}] /\ h[s] = g[s]
          BY <2>3, <3>2, <4>2
        <4>4. g[s] = SplitAt(g, text, s)
          BY <2>1, <4>1 DEF Splits
        <4> QED
          BY <4>3, <4>4 DEF SplitAt
      <3> QED
        BY <3>1, <3>2
    <2>5. Splits(h, text, m)
      BY <2>3, <2>4 DEF Splits
    <2> QED
      BY <2>2, <2>5
  <1> HIDE DEF T
  <1>3. Nat \subseteq T
    BY <1>1, <1>2, NumbersInSet
  <1> QED
    BY <1>3 DEF T

\* A run of the fold over a text, token by token.
SplitRun(q, text, n) ==
    q[0] = << <<>> >> /\ \A i \in 1 .. n : q[i] = Extend(q[i - 1], text[i])

\* SplitParts returns what a run ends with.
LEMMA SplitRuns ==
    ASSUME NEW S, NEW text \in Seq(S), NEW n \in Nat, n = Len(text)
    PROVE  \E q : SplitRun(q, text, n) /\ SplitParts(text) = q[n]
  <1>1. PICK f : f = CHOOSE g0 : g0 = [s \in SUBSET (1 .. n) |-> SplitAt(g0, text, s)]
    OBVIOUS
  <1>2. PICK h : Splits(h, text, n)
    BY SplitsExists
  <1>3. h = [s \in SUBSET (1 .. n) |-> SplitAt(h, text, s)]
    BY <1>2, Zenon DEF Splits
  <1>4. f = [s \in SUBSET (1 .. n) |-> SplitAt(f, text, s)]
    BY <1>1, <1>3, Zenon
  <1>5. SplitParts(text) = f[1 .. n]
    <2>1. DOMAIN text = 1 .. n
      OBVIOUS
    <2>2. SplitParts(text) =
            (CHOOSE g0 : g0 = [s \in SUBSET DOMAIN text |-> SplitAt(g0, text, s)])[DOMAIN text]
      BY Zenon DEF SplitParts, FoldLeft, MapThenFoldSet, SplitAt
    <2> QED
      BY <1>1, <2>1, <2>2, Zenon
  <1>6. PICK q : q = [i \in 0 .. n |-> f[1 .. i]]
    OBVIOUS
  <1>7. SplitRun(q, text, n)
    <2>1. q[0] = << <<>> >>
      <3>1. 1 .. 0 = {} /\ {} \in SUBSET (1 .. n) /\ q[0] = f[1 .. 0]
        BY <1>6
      <3> QED
        BY <1>4, <3>1 DEF SplitAt
    <2>2. ASSUME NEW i \in 1 .. n
          PROVE  q[i] = Extend(q[i - 1], text[i])
      <3>1. /\ 1 .. i \in SUBSET (1 .. n) /\ 1 .. i # {} /\ i \in 1 .. i
            /\ (1 .. i) \ {i} = 1 .. (i - 1)
            /\ q[i] = f[1 .. i] /\ q[i - 1] = f[1 .. (i - 1)]
        BY <1>6
      <3>2. Max(1 .. i) = i
        BY <3>1, MaxOfPositions
      <3>3. f[1 .. i] = SplitAt(f, text, 1 .. i)
        BY <1>4, <3>1, Zenon
      <3>4. SplitAt(f, text, 1 .. i) = Extend(f[1 .. (i - 1)], text[i])
        BY <3>1, <3>2, Zenon DEF SplitAt
      <3> QED
        BY <3>1, <3>3, <3>4, Zenon
    <2> QED
      BY <2>1, <2>2 DEF SplitRun
  <1> QED
    BY <1>5, <1>6, <1>7

\* Two runs over a text end with the same.
LEMMA SplitRunUnique ==
    ASSUME NEW text, NEW n \in Nat, NEW q, NEW r, SplitRun(q, text, n), SplitRun(r, text, n)
    PROVE  q[n] = r[n]
  <1> DEFINE T == {k \in Nat : k <= n => q[k] = r[k]}
  <1>1. 0 \in T
    BY DEF SplitRun
  <1>2. ASSUME NEW k \in Nat, k \in T
        PROVE  k + 1 \in T
    <2> SUFFICES ASSUME k + 1 <= n
                 PROVE  q[k + 1] = r[k + 1]
      OBVIOUS
    <2>1. k + 1 \in 1 .. n /\ (k + 1) - 1 = k /\ q[k] = r[k]
      BY <1>2
    <2> QED
      BY <2>1 DEF SplitRun
  <1> HIDE DEF T
  <1>3. Nat \subseteq T
    BY <1>1, <1>2, NumbersInSet
  <1> QED
    BY <1>3 DEF T

\* A text without tokens has one part; a token extends the parts.
LEMMA SplitAppend ==
    ASSUME NEW S, NEW text \in Seq(S), NEW x \in S
    PROVE  /\ SplitParts(<<>>) = << <<>> >>
           /\ SplitParts(Append(text, x)) = Extend(SplitParts(text), x)
  <1>1. SplitParts(<<>>) = << <<>> >>
    <2>1. <<>> \in Seq(S) /\ Len(<<>>) = 0
      BY EmptySeq
    <2> QED
      BY <2>1, SplitRuns DEF SplitRun
  <1>2. SplitParts(Append(text, x)) = Extend(SplitParts(text), x)
    <2>1. PICK n \in Nat, m \in Nat : n = Len(text) /\ m = n + 1
      <3>1. Len(text) \in Nat /\ Len(text) + 1 \in Nat
        OBVIOUS
      <3> QED
        BY <3>1
    <2> DEFINE all == Append(text, x)
    <2>2. /\ all \in Seq(S) /\ Len(all) = m /\ all[m] = x
          /\ \A i \in 1 .. n : all[i] = text[i]
      BY <2>1
    <2> HIDE DEF all
    <2>3. PICK q : SplitRun(q, all, m) /\ SplitParts(all) = q[m]
      BY <2>2, SplitRuns
    <2>4. SplitRun(q, text, n)
      BY <2>1, <2>2, <2>3 DEF SplitRun
    <2>5. PICK r : SplitRun(r, text, n) /\ SplitParts(text) = r[n]
      BY <2>1, SplitRuns
    <2>6. SplitParts(text) = q[n]
      BY <2>4, <2>5, SplitRunUnique
    <2>7. q[m] = Extend(q[n], x)
      <3>1. m \in 1 .. m /\ m - 1 = n
        BY <2>1
      <3> QED
        BY <2>2, <2>3, <3>1 DEF SplitRun
    <2> QED
      BY <2>3, <2>6, <2>7 DEF all
  <1> QED
    BY <1>1, <1>2

\* A token that is no colon extends the last part.
LEMMA ExtendLast ==
    ASSUME NEW S, NEW parts \in Seq(Seq(S)), NEW part \in Seq(S), NEW x \in S, x # Colon
    PROVE  Extend(Append(parts, part), x) = Append(parts, Append(part, x))
  <1> DEFINE all == Append(parts, part)
             more == Append(part, x)
             n == Len(parts) + 1
  <1>1. /\ all \in Seq(Seq(S)) /\ Len(all) = n /\ all[n] = part /\ more \in Seq(S)
        /\ DOMAIN all = 1 .. n
        /\ n \in 1 .. n /\ \A i \in 1 .. n : i # n => all[i] = parts[i]
    OBVIOUS
  <1>2. Extend(all, x) = [all EXCEPT ![n] = more]
    BY <1>1 DEF Extend
  <1>3. PICK right : right = Append(parts, more)
    OBVIOUS
  <1>4. /\ right \in Seq(Seq(S)) /\ Len(right) = n
        /\ \A i \in 1 .. n : right[i] = IF i = n THEN more ELSE parts[i]
    BY <1>1, <1>3, AppendProperties
  <1> HIDE DEF all, more, n
  <1>5. PICK left : left = [all EXCEPT ![n] = more]
    OBVIOUS
  <1>6. left \in Seq(Seq(S)) /\ Len(left) = n
    BY <1>1, <1>5, ExceptSeq
  <1>7. \A i \in 1 .. n : left[i] = IF i = n THEN more ELSE parts[i]
    BY <1>1, <1>5
  <1>8. left = right
    BY <1>6, <1>7, <1>4, SeqEqual
  <1> QED
    BY <1>2, <1>5, <1>3, <1>8 DEF all, more

\* Whatever a text is, what follows a colon and has none is its last part.
LEMMA SplitSegment ==
    ASSUME NEW S, Colon \in S, NEW text \in Seq(S), SplitParts(text) \in Seq(Seq(S)),
           NEW segment \in Seq(S), ~Has(segment, Colon)
    PROVE  SplitParts((text \o <<Colon>>) \o segment) = Append(SplitParts(text), segment)
  <1> DEFINE T == {s \in Seq(S) : ~Has(s, Colon) =>
                     SplitParts((text \o <<Colon>>) \o s) = Append(SplitParts(text), s)}
  <1>1. PICK left \in Seq(S) : left = text \o <<Colon>> /\ left = Append(text, Colon)
    BY AppendIsConcat, AppendProperties
  <1>2. <<>> \in T
    <2>1. left \o <<>> = left /\ <<>> \in Seq(S)
      BY ConcatEmptySeq, EmptySeq
    <2>2. SplitParts(left) = Append(SplitParts(text), <<>>)
      BY <1>1, SplitAppend DEF Extend
    <2> QED
      BY <1>1, <2>1, <2>2
  <1>3. ASSUME NEW s \in Seq(S), NEW x \in S, s \in T
        PROVE  Append(s, x) \in T
    <2> SUFFICES ASSUME ~Has(Append(s, x), Colon)
                 PROVE  SplitParts(left \o Append(s, x))
                          = Append(SplitParts(text), Append(s, x))
      BY <1>1, AppendProperties
    <2>1. ~Has(s, Colon) /\ x # Colon
      <3>1. /\ \A i \in DOMAIN s : i \in DOMAIN Append(s, x) /\ Append(s, x)[i] = s[i]
            /\ Len(s) + 1 \in DOMAIN Append(s, x) /\ Append(s, x)[Len(s) + 1] = x
        OBVIOUS
      <3> QED
        BY <3>1 DEF Has, ToSet
    <2>2. left \o s \in Seq(S) /\ left \o Append(s, x) = Append(left \o s, x)
      <3>1. PICK one \in Seq(S) : one = <<x>>
        <4>1. <<x>> \in Seq(S)
          OBVIOUS
        <4> QED
          BY <4>1
      <3>2. left \o Append(s, x) = left \o (s \o one)
        BY <3>1, AppendIsConcat
      <3>3. (left \o s) \o one = left \o (s \o one)
        BY ConcatAssociative
      <3>4. left \o s \in Seq(S)
        BY ConcatProperties
      <3>5. Append(left \o s, x) = (left \o s) \o one
        BY <3>1, <3>4, AppendIsConcat
      <3> QED
        BY <3>2, <3>3, <3>4, <3>5
    <2>3. SplitParts(Append(left \o s, x)) = Extend(SplitParts(left \o s), x)
      BY <2>2, SplitAppend
    <2>4. SplitParts(left \o s) = Append(SplitParts(text), s)
      BY <1>1, <1>3, <2>1
    <2> QED
      BY <2>1, <2>2, <2>3, <2>4, ExtendLast
  <1> HIDE DEF T
  <1>4. Seq(S) \subseteq T
    BY <1>2, <1>3, SequencesInSet
  <1> QED
    BY <1>4 DEF T

\* A text without colons is one part.
LEMMA SplitFirst ==
    ASSUME NEW S, NEW segment \in Seq(S), ~Has(segment, Colon)
    PROVE  SplitParts(segment) = <<segment>>
  <1> DEFINE T == {s \in Seq(S) : ~Has(s, Colon) => SplitParts(s) = <<s>>}
  <1>1. <<>> \in T
    <2>1. <<>> \in Seq(S)
      BY EmptySeq
    <2>2. ASSUME NEW x \in S
          PROVE  SplitParts(<<>>) = << <<>> >>
      BY <2>1, SplitAppend
    <2>3. CASE S = {}
      <3>1. SplitParts(<<>>) = << <<>> >>
        <4>1. Len(<<>>) = 0
          BY EmptySeq
        <4> QED
          BY <2>1, <4>1, SplitRuns DEF SplitRun
      <3> QED
        BY <2>1, <3>1
    <2> QED
      BY <2>1, <2>2, <2>3
  <1>2. ASSUME NEW s \in Seq(S), NEW x \in S, s \in T
        PROVE  Append(s, x) \in T
    <2> SUFFICES ASSUME ~Has(Append(s, x), Colon)
                 PROVE  SplitParts(Append(s, x)) = <<Append(s, x)>>
      BY AppendProperties
    <2>1. ~Has(s, Colon) /\ x # Colon
      <3>1. /\ \A i \in DOMAIN s : i \in DOMAIN Append(s, x) /\ Append(s, x)[i] = s[i]
            /\ Len(s) + 1 \in DOMAIN Append(s, x) /\ Append(s, x)[Len(s) + 1] = x
        OBVIOUS
      <3> QED
        BY <3>1 DEF Has, ToSet
    <2>2. SplitParts(Append(s, x)) = Extend(<<s>>, x)
      BY <1>2, <2>1, SplitAppend
    <2>3. <<s>> = Append(<<>>, s) /\ <<Append(s, x)>> = Append(<<>>, Append(s, x))
      OBVIOUS
    <2>4. Extend(Append(<<>>, s), x) = Append(<<>>, Append(s, x))
      <3>1. PICK none \in Seq(Seq(S)) : none = <<>>
        BY EmptySeq
      <3>2. Extend(Append(none, s), x) = Append(none, Append(s, x))
        BY <2>1, ExtendLast
      <3> QED
        BY <3>1, <3>2
    <2> QED
      BY <2>2, <2>3, <2>4
  <1> HIDE DEF T
  <1>3. Seq(S) \subseteq T
    BY <1>1, <1>2, SequencesInSet
  <1> QED
    BY <1>3 DEF T

---------------------------------------------------------------------------
(* Joining and splitting.                                                  *)

\* The parts that JoinParts flattens, each led by a colon.
Led(parts) == [i \in DOMAIN parts |-> <<Colon>> \o parts[i]]

\* They are sequences, and one more for each more part.
LEMMA LedAppend ==
    ASSUME NEW S, Colon \in S, NEW parts \in Seq(Seq(S)), NEW part \in Seq(S)
    PROVE  /\ Led(parts) \in Seq(Seq(S))
           /\ <<Colon>> \o part \in Seq(S)
           /\ Led(Append(parts, part)) = Append(Led(parts), <<Colon>> \o part)
  <1>1. <<Colon>> \in Seq(S)
    OBVIOUS
  <1>2. ASSUME NEW ps \in Seq(Seq(S))
        PROVE  /\ Led(ps) \in Seq(Seq(S)) /\ Len(Led(ps)) = Len(ps)
               /\ \A i \in 1 .. Len(ps) : Led(ps)[i] = <<Colon>> \o ps[i]
    <2>1. PICK n \in Nat : n = Len(ps) /\ DOMAIN ps = 1 .. n
      OBVIOUS
    <2>2. \A i \in 1 .. n : <<Colon>> \o ps[i] \in Seq(S)
      BY <1>1, <2>1, ConcatProperties
    <2>3. PICK led : led = [i \in 1 .. n |-> <<Colon>> \o ps[i]]
      OBVIOUS
    <2>4. \A i \in 1 .. n : led[i] \in Seq(S)
      BY <2>2, <2>3
    <2>5. led = [i \in 1 .. n |-> led[i]]
      BY <2>3
    <2>6. led \in Seq(Seq(S)) /\ Len(led) = n
      BY <2>4, <2>5, IsSequence
    <2>7. Led(ps) = led
      BY <2>1, <2>3 DEF Led
    <2> QED
      BY <2>1, <2>3, <2>6, <2>7
  <1>3. <<Colon>> \o part \in Seq(S)
    BY <1>1, ConcatProperties
  <1>4. /\ Append(parts, part) \in Seq(Seq(S))
        /\ Len(Append(parts, part)) = Len(parts) + 1
        /\ Append(parts, part)[Len(parts) + 1] = part
        /\ \A i \in 1 .. Len(parts) : Append(parts, part)[i] = parts[i]
    BY AppendProperties
  <1> DEFINE led == <<Colon>> \o part
             all == Append(parts, part)
             left == Led(all)
             right == Append(Led(parts), led)
             n == Len(parts) + 1
  <1>5. /\ left \in Seq(Seq(S)) /\ Len(left) = n /\ left[n] = led
        /\ \A i \in 1 .. Len(parts) : left[i] = <<Colon>> \o parts[i]
    <2>1. n \in 1 .. n /\ \A i \in 1 .. Len(parts) : i \in 1 .. n
      OBVIOUS
    <2>2. /\ left \in Seq(Seq(S)) /\ Len(left) = Len(all)
          /\ \A i \in 1 .. Len(all) : left[i] = <<Colon>> \o all[i]
      <3> HIDE DEF left
      <3>1. /\ Led(all) \in Seq(Seq(S)) /\ Len(Led(all)) = Len(all)
            /\ \A i \in 1 .. Len(all) : Led(all)[i] = <<Colon>> \o all[i]
        BY <1>2, <1>4
      <3> QED
        BY <3>1 DEF left
    <2> HIDE DEF left, all
    <2> QED
      BY <1>4, <2>1, <2>2 DEF all
  <1>6. /\ right \in Seq(Seq(S)) /\ Len(right) = n /\ right[n] = led
        /\ \A i \in 1 .. Len(parts) : right[i] = <<Colon>> \o parts[i]
    <2>1. PICK lp \in Seq(Seq(S)) :
              /\ lp = Led(parts) /\ Len(lp) = Len(parts)
              /\ \A i \in 1 .. Len(parts) : lp[i] = <<Colon>> \o parts[i]
      BY <1>2
    <2>2. /\ Append(lp, led) \in Seq(Seq(S)) /\ Len(Append(lp, led)) = n
          /\ Append(lp, led)[n] = led
          /\ \A i \in 1 .. Len(parts) : Append(lp, led)[i] = lp[i]
      BY <1>3, <2>1, AppendProperties
    <2> QED
      BY <2>1, <2>2
  <1>7. left = right
    <2>1. \A i \in 1 .. n : i \in 1 .. Len(parts) \/ i = n
      OBVIOUS
    <2> HIDE DEF left, right, led, all
    <2>2. \A i \in 1 .. n : left[i] = right[i]
      BY <1>5, <1>6, <2>1
    <2> QED
      BY <1>5, <1>6, <2>2, SeqEqual
  <1> QED
    BY <1>2, <1>3, <1>7

\* A text led by a token, and one that starts with such a text.
LEMMA TailOfLed ==
    ASSUME NEW S, NEW x \in S, NEW s \in Seq(S), NEW t \in Seq(S)
    PROVE  /\ Tail(<<x>> \o s) = s
           /\ t # <<>> => Tail(t) \in Seq(S) /\ Tail(t \o s) = Tail(t) \o s
           /\ t \o (<<x>> \o s) # <<>>
  <1>1. PICK one \in Seq(S) : one = <<x>> /\ Len(one) = 1
    <2>1. <<x>> \in Seq(S) /\ Len(<<x>>) = 1
      OBVIOUS
    <2> QED
      BY <2>1
  <1>2. PICK led \in Seq(S) : /\ led = one \o s /\ Len(led) = Len(s) + 1 /\ led # <<>>
                              /\ \A i \in 1 .. Len(s) : led[i + 1] = s[i]
    <2>1. /\ one \o s \in Seq(S) /\ Len(one \o s) = Len(s) + 1
          /\ \A i \in 1 .. Len(s) : (one \o s)[i + 1] = s[i]
      BY <1>1, ConcatProperties
    <2>2. one \o s # <<>>
      BY <2>1
    <2> QED
      BY <2>1, <2>2
  <1>3. Tail(led) = s
    BY <1>2, HeadTailProperties, SeqEqual
  <1>4. ASSUME t # <<>>
        PROVE  Tail(t) \in Seq(S) /\ Tail(t \o s) = Tail(t) \o s
    <2> DEFINE all == t \o s
               right == Tail(t) \o s
               n == Len(t) + Len(s)
    <2>1. /\ all \in Seq(S) /\ Len(all) = n
          /\ \A i \in 1 .. n : all[i] = IF i <= Len(t) THEN t[i] ELSE s[i - Len(t)]
      BY ConcatProperties
    <2>2. /\ Tail(t) \in Seq(S) /\ Len(Tail(t)) = Len(t) - 1
          /\ \A i \in 1 .. Len(Tail(t)) : Tail(t)[i] = t[i + 1]
      BY <1>4, HeadTailProperties
    <2>3. Len(t) \in Nat \ {0} /\ Len(s) \in Nat
      BY <1>4, EmptySeq
    <2>4. /\ right \in Seq(S) /\ Len(right) = n - 1
          /\ \A i \in 1 .. n - 1 :
                right[i] = IF i <= Len(t) - 1 THEN Tail(t)[i] ELSE s[i - (Len(t) - 1)]
      BY <2>2, <2>3, ConcatProperties
    <2> HIDE DEF all, right
    <2>5. all # <<>>
      BY <2>1, <2>3, EmptySeq
    <2>6. /\ Tail(all) \in Seq(S) /\ Len(Tail(all)) = n - 1
          /\ \A i \in 1 .. n - 1 : Tail(all)[i] = all[i + 1]
      BY <2>1, <2>3, <2>5, HeadTailProperties
    <2>7. ASSUME NEW i \in 1 .. n - 1
          PROVE  Tail(all)[i] = right[i]
      <3>1. Tail(all)[i] = IF i + 1 <= Len(t) THEN t[i + 1] ELSE s[(i + 1) - Len(t)]
        BY <2>1, <2>3, <2>6
      <3>2. i <= Len(t) - 1 => Tail(t)[i] = t[i + 1]
        BY <2>2, <2>3
      <3> QED
        <4>1. (i + 1) - Len(t) = i - (Len(t) - 1) /\ (i + 1 <= Len(t) <=> i <= Len(t) - 1)
          BY <2>3
        <4> QED
          BY <2>4, <3>1, <3>2, <4>1
    <2>8. Tail(all) = right
      BY <2>4, <2>6, <2>7, SeqEqual
    <2> QED
      BY <2>2, <2>8 DEF all, right
  <1>5. t \o led # <<>>
    BY <1>2, ConcatEqualIffEmpty
  <1> QED
    BY <1>1, <1>2, <1>3, <1>4, <1>5

\* JoinParts puts a colon before every part but the first.
LEMMA JoinAppend ==
    ASSUME NEW S, Colon \in S, NEW parts \in Seq(Seq(S)), NEW part \in Seq(S)
    PROVE  /\ JoinParts(Append(<<>>, part)) = part
           /\ parts # <<>> => /\ JoinParts(parts) \in Seq(S)
                              /\ JoinParts(Append(parts, part))
                                    = (JoinParts(parts) \o <<Colon>>) \o part
  <1>1. \A ps : JoinParts(ps) = Tail(FlattenSeq(Led(ps)))
    BY DEF JoinParts, Led
  <1>2. PICK led \in Seq(S) : led = <<Colon>> \o part
    BY LedAppend
  <1>3. JoinParts(Append(<<>>, part)) = part
    <2>1. PICK none \in Seq(Seq(S)) : none = <<>>
      BY EmptySeq
    <2>2. Led(Append(none, part)) = Append(Led(none), led)
      BY <1>2, LedAppend
    <2>3. Led(none) = <<>>
      BY <2>1 DEF Led
    <2>4. FlattenSeq(none) = <<>>
      BY <2>1 DEF FlattenSeq
    <2>5. FlattenSeq(Append(none, led)) = <<>> \o led
      BY <2>4, FlattenAppend
    <2>6. <<>> \o led = led
      BY ConcatEmptySeq
    <2>7. Tail(led) = part
      BY <1>2, TailOfLed
    <2> QED
      BY <1>1, <2>1, <2>2, <2>3, <2>5, <2>6, <2>7
  <1>4. ASSUME parts # <<>>
        PROVE  /\ JoinParts(parts) \in Seq(S)
               /\ JoinParts(Append(parts, part)) = (JoinParts(parts) \o <<Colon>>) \o part
    <2>1. PICK all \in Seq(S) : all = FlattenSeq(Led(parts))
      BY LedAppend, FlattenType
    <2>2. all # <<>>
      <3>1. PICK front \in Seq(Seq(S)), last \in Seq(S) : parts = Append(front, last)
        BY <1>4, SequenceEmptyOrAppend
      <3>2. Led(parts) = Append(Led(front), <<Colon>> \o last)
        BY <3>1, LedAppend
      <3>3. /\ Led(front) \in Seq(Seq(S)) /\ <<Colon>> \o last \in Seq(S)
            /\ FlattenSeq(Led(front)) \in Seq(S)
        BY LedAppend, FlattenType
      <3>4. all = FlattenSeq(Led(front)) \o (<<Colon>> \o last)
        BY <2>1, <3>2, <3>3, FlattenAppend
      <3> QED
        BY <3>3, <3>4, TailOfLed
    <2>3. FlattenSeq(Led(Append(parts, part))) = all \o led
      <3>1. PICK lp \in Seq(Seq(S)) : lp = Led(parts)
        BY LedAppend
      <3>2. Led(Append(parts, part)) = Append(lp, led)
        BY <1>2, <3>1, LedAppend
      <3>3. FlattenSeq(Append(lp, led)) = FlattenSeq(lp) \o led
        BY FlattenAppend
      <3> QED
        BY <2>1, <3>1, <3>2, <3>3
    <2>4. Tail(all \o led) = Tail(all) \o led /\ Tail(all) \in Seq(S)
      BY <2>2, TailOfLed
    <2>5. Tail(all) \o led = (Tail(all) \o <<Colon>>) \o part
      <3>1. <<Colon>> \in Seq(S)
        OBVIOUS
      <3>2. PICK rest \in Seq(S), colon \in Seq(S) : rest = Tail(all) /\ colon = <<Colon>>
        BY <2>4, <3>1
      <3>3. Groups(rest, colon, part)
        BY Regrouped
      <3> QED
        BY <1>2, <3>2, <3>3, Zenon DEF Groups
    <2> QED
      BY <1>1, <2>1, <2>3, <2>4, <2>5
  <1> QED
    BY <1>3, <1>4

\* Parts without colons are found again in their join.
LEMMA SplitJoin ==
    ASSUME NEW S, Colon \in S, NEW parts \in Seq(Seq(S)), parts # <<>>,
           \A i \in 1 .. Len(parts) : ~Has(parts[i], Colon)
    PROVE  SplitParts(JoinParts(parts)) = parts
  <1> DEFINE Plain(ps) == \A i \in 1 .. Len(ps) : ~Has(ps[i], Colon)
             T == {ps \in Seq(Seq(S)) :
                     ps # <<>> /\ Plain(ps) => SplitParts(JoinParts(ps)) = ps}
  <1>1. <<>> \in T
    BY EmptySeq
  <1>2. ASSUME NEW ps \in Seq(Seq(S)), NEW p \in Seq(S), ps \in T
        PROVE  Append(ps, p) \in T
    <2> SUFFICES ASSUME Plain(Append(ps, p))
                 PROVE  SplitParts(JoinParts(Append(ps, p))) = Append(ps, p)
      BY AppendProperties
    <2>1. Plain(ps) /\ ~Has(p, Colon)
      <3>1. /\ Len(Append(ps, p)) = Len(ps) + 1 /\ Append(ps, p)[Len(ps) + 1] = p
            /\ \A i \in 1 .. Len(ps) : Append(ps, p)[i] = ps[i]
        BY AppendProperties
      <3>2. /\ Len(ps) + 1 \in 1 .. Len(ps) + 1
            /\ \A i \in 1 .. Len(ps) : i \in 1 .. Len(ps) + 1
        OBVIOUS
      <3> QED
        BY <3>1, <3>2
    <2>2. CASE ps = <<>>
      <3>1. JoinParts(Append(ps, p)) = p
        BY <2>2, JoinAppend
      <3>2. SplitParts(p) = <<p>> /\ Append(<<>>, p) = <<p>>
        BY <2>1, SplitFirst
      <3> QED
        BY <2>2, <3>1, <3>2
    <2>3. CASE ps # <<>>
      <3>1. PICK text \in Seq(S) : text = JoinParts(ps)
        BY <2>3, JoinAppend
      <3>2. JoinParts(Append(ps, p)) = (text \o <<Colon>>) \o p
        BY <2>3, <3>1, JoinAppend
      <3>3. SplitParts(text) = ps
        BY <1>2, <2>1, <2>3, <3>1
      <3> QED
        BY <2>1, <3>2, <3>3, SplitSegment
    <2> QED
      BY <2>2, <2>3
  <1> HIDE DEF T
  <1>3. Seq(Seq(S)) \subseteq T
    BY <1>1, <1>2, SequencesInSet
  <1> QED
    BY <1>3 DEF T

---------------------------------------------------------------------------
(* One part.                                                               *)

\* What codecs give a meaning to are tokens of the texts.
Meaningful == {Colon, Percent, Nul, "3A", "25", "00"}

\* A token more is encoded after the others.
LEMMA EncodeAppend ==
    ASSUME NEW S, Meaningful \subseteq S, NEW part \in Seq(S), NEW x \in S
    PROVE  /\ EncodePart(<<>>) = <<>>
           /\ EncodePart(part) \in Seq(S)
           /\ EncodeToken(x) \in Seq(S)
           /\ EncodePart(Append(part, x)) = EncodePart(part) \o EncodeToken(x)
  <1> DEFINE Encoded(p) == [i \in DOMAIN p |-> EncodeToken(p[i])]
  <1>1. \A y \in S : EncodeToken(y) \in Seq(S)
    BY DEF EncodeToken, Meaningful
  <1>2. ASSUME NEW p \in Seq(S)
        PROVE  /\ Encoded(p) \in Seq(Seq(S)) /\ Len(Encoded(p)) = Len(p)
               /\ Encoded(p) = [i \in 1 .. Len(p) |-> EncodeToken(p[i])]
    <2>1. DOMAIN p = 1 .. Len(p) /\ Len(p) \in Nat /\ \A i \in 1 .. Len(p) : p[i] \in S
      OBVIOUS
    <2>2. PICK e : e = Encoded(p)
      OBVIOUS
    <2>3. /\ e = [i \in 1 .. Len(p) |-> e[i]]
          /\ \A i \in 1 .. Len(p) : e[i] \in Seq(S)
      BY <1>1, <2>1, <2>2
    <2>4. e \in Seq(Seq(S)) /\ Len(e) = Len(p)
      BY <2>1, <2>3, IsSequence
    <2> QED
      BY <2>1, <2>2, <2>4
  <1>3. \A p : EncodePart(p) = FlattenSeq(Encoded(p))
    BY DEF EncodePart
  <1>4. Encoded(Append(part, x)) = Append(Encoded(part), EncodeToken(x))
    <2>1. PICK n \in Nat : n = Len(part) + 1
      OBVIOUS
    <2>2. PICK all \in Seq(S) : all = Append(part, x)
      BY AppendProperties
    <2>3. Len(all) = n /\ all[n] = x /\ \A i \in 1 .. Len(part) : all[i] = part[i]
      BY <2>1, <2>2
    <2>4. PICK e \in Seq(Seq(S)) :
              e = Encoded(part) /\ Len(e) = Len(part)
                /\ e = [i \in 1 .. Len(part) |-> EncodeToken(part[i])]
      <3>1. /\ Encoded(part) \in Seq(Seq(S)) /\ Len(Encoded(part)) = Len(part)
            /\ Encoded(part) = [i \in 1 .. Len(part) |-> EncodeToken(part[i])]
        BY <1>2
      <3> QED
        BY <3>1
    <2>5. PICK f : f = Encoded(all)
      OBVIOUS
    <2>6. f = [i \in 1 .. n |-> EncodeToken(all[i])]
      BY <1>2, <2>3, <2>5
    <2>7. f \in Seq(Seq(S)) /\ Len(f) = n
      BY <1>2, <2>3, <2>5
    <2>8. f[n] = EncodeToken(x)
      <3>1. n \in 1 .. n
        BY <2>1
      <3> QED
        BY <2>3, <2>6, <3>1
    <2>9. \A i \in 1 .. Len(e) : f[i] = e[i]
      <3>1. \A i \in 1 .. Len(e) : i \in 1 .. n /\ i \in 1 .. Len(part)
        BY <2>1, <2>4
      <3> QED
        BY <2>3, <2>4, <2>6, <3>1
    <2>10. f = Append(e, EncodeToken(x))
      <3>1. PICK last \in Seq(S) : last = EncodeToken(x)
        BY <1>1
      <3>2. Len(f) = Len(e) + 1 /\ f[Len(f)] = last
        BY <2>1, <2>4, <2>7, <2>8, <3>1
      <3>3. f = Append(e, last)
        BY <2>7, <2>9, <3>2, IsExtension
      <3> QED
        BY <3>1, <3>3
    <2> QED
      BY <2>2, <2>4, <2>5, <2>10
  <1> HIDE DEF Encoded
  <1>5. EncodePart(Append(part, x)) = EncodePart(part) \o EncodeToken(x)
    <2>1. PICK e \in Seq(Seq(S)) : e = Encoded(part)
      BY <1>2
    <2>2. PICK last \in Seq(S) : last = EncodeToken(x)
      BY <1>1
    <2>3. FlattenSeq(Append(e, last)) = FlattenSeq(e) \o last
      BY FlattenAppend
    <2> QED
      BY <1>3, <1>4, <2>1, <2>2, <2>3
  <1>6. EncodePart(<<>>) = <<>>
    <2>1. Encoded(<<>>) = <<>>
      BY DEF Encoded
    <2> QED
      BY <1>3, <2>1 DEF FlattenSeq
  <1>7. EncodePart(part) \in Seq(S)
    <2>1. PICK e \in Seq(Seq(S)) : e = Encoded(part)
      BY <1>2
    <2> QED
      BY <1>3, <2>1, FlattenType
  <1> QED
    BY <1>1, <1>5, <1>6, <1>7

\* A token more is decoded after the others, in the light of the one before it.
LEMMA DecodeAppend ==
    ASSUME NEW S, Meaningful \subseteq S, NEW text \in Seq(S), NEW x \in S
    PROVE  /\ DecodePart(<<>>) = <<>>
           /\ DecodePart(text) \in Seq(S)
           /\ DecodePart(Append(text, x)) = DecodePart(text) \o
                CASE x = Percent -> <<>>
                  [] x # Percent /\ text # <<>> /\ text[Len(text)] = Percent ->
                        <<Unescape(x)>>
                  [] OTHER -> <<x>>
  <1> DEFINE Decoded(t) == [i \in DOMAIN t |-> DecodeToken(t, i)]
  <1>1. \A t \in Seq(S) : \A i \in 1 .. Len(t) : DecodeToken(t, i) \in Seq(S)
    <2> SUFFICES ASSUME NEW t \in Seq(S), NEW i \in 1 .. Len(t)
                 PROVE  DecodeToken(t, i) \in Seq(S)
      OBVIOUS
    <2>1. t[i] \in S /\ Unescape(t[i]) \in S
      BY DEF Meaningful, Unescape
    <2>2. <<>> \in Seq(S) /\ <<Unescape(t[i])>> \in Seq(S) /\ <<t[i]>> \in Seq(S)
      BY <2>1
    <2> QED
      BY <2>2 DEF DecodeToken
  <1>2. ASSUME NEW t \in Seq(S)
        PROVE  /\ Decoded(t) \in Seq(Seq(S)) /\ Len(Decoded(t)) = Len(t)
               /\ Decoded(t) = [i \in 1 .. Len(t) |-> DecodeToken(t, i)]
    <2>1. DOMAIN t = 1 .. Len(t) /\ Len(t) \in Nat
      OBVIOUS
    <2>2. PICK d : d = Decoded(t)
      OBVIOUS
    <2>3. /\ d = [i \in 1 .. Len(t) |-> d[i]]
          /\ \A i \in 1 .. Len(t) : d[i] \in Seq(S)
      BY <1>1, <2>1, <2>2
    <2>4. d \in Seq(Seq(S)) /\ Len(d) = Len(t)
      BY <2>1, <2>3, IsSequence
    <2> QED
      BY <2>1, <2>2, <2>4
  <1>3. \A t : DecodePart(t) = FlattenSeq(Decoded(t))
    BY DEF DecodePart
  <1>4. PICK n \in Nat, all \in Seq(S) :
            /\ n = Len(text) + 1 /\ all = Append(text, x)
            /\ Len(all) = n /\ all[n] = x /\ \A i \in 1 .. Len(text) : all[i] = text[i]
    <2>1. /\ Len(text) + 1 \in Nat /\ Append(text, x) \in Seq(S)
          /\ Len(Append(text, x)) = Len(text) + 1 /\ Append(text, x)[Len(text) + 1] = x
          /\ \A i \in 1 .. Len(text) : Append(text, x)[i] = text[i]
      BY AppendProperties
    <2> QED
      BY <2>1
  <1>5. PICK last \in Seq(S) : last = DecodeToken(all, n)
    <2>1. n \in 1 .. Len(all)
      BY <1>4
    <2> QED
      BY <1>1, <2>1
  <1>6. Decoded(all) = Append(Decoded(text), last)
    <2>1. PICK d \in Seq(Seq(S)) :
              d = Decoded(text) /\ Len(d) = Len(text)
                /\ d = [i \in 1 .. Len(text) |-> DecodeToken(text, i)]
      <3>1. /\ Decoded(text) \in Seq(Seq(S)) /\ Len(Decoded(text)) = Len(text)
            /\ Decoded(text) = [i \in 1 .. Len(text) |-> DecodeToken(text, i)]
        BY <1>2
      <3> QED
        BY <3>1
    <2>2. PICK f : f = Decoded(all)
      OBVIOUS
    <2>3. f = [i \in 1 .. n |-> DecodeToken(all, i)]
      BY <1>2, <1>4, <2>2
    <2>4. f \in Seq(Seq(S)) /\ Len(f) = n
      BY <1>2, <1>4, <2>2
    <2>5. f[n] = last
      <3>1. n \in 1 .. n
        BY <1>4
      <3> QED
        BY <1>5, <2>3, <3>1
    <2>6. ASSUME NEW i \in 1 .. Len(d)
          PROVE  f[i] = d[i]
      <3>1. i \in 1 .. n /\ i \in 1 .. Len(text) /\ (i > 1 => i - 1 \in 1 .. Len(text))
        BY <1>4, <2>1
      <3>2. all[i] = text[i] /\ (i > 1 => all[i - 1] = text[i - 1])
        BY <1>4, <3>1
      <3>3. DecodeToken(all, i) = DecodeToken(text, i)
        BY <3>2 DEF DecodeToken
      <3> QED
        BY <2>1, <2>3, <3>1, <3>3
    <2>7. Len(f) = Len(d) + 1 /\ f[Len(f)] = last
      BY <1>4, <2>1, <2>4, <2>5
    <2>8. f = Append(d, last)
      BY <2>4, <2>6, <2>7, IsExtension
    <2> QED
      BY <2>1, <2>2, <2>8
  <1>7. last = CASE x = Percent -> <<>>
                 [] x # Percent /\ text # <<>> /\ text[Len(text)] = Percent ->
                       <<Unescape(x)>>
                 [] OTHER -> <<x>>
    <2>1. n > 1 <=> text # <<>>
      BY <1>4, EmptySeq
    <2>2. n > 1 => all[n - 1] = text[Len(text)]
      <3>1. n > 1 => n - 1 = Len(text) /\ Len(text) \in 1 .. Len(text)
        BY <1>4
      <3> QED
        BY <1>4, <3>1
    <2> QED
      BY <1>4, <1>5, <2>1, <2>2 DEF DecodeToken
  <1> HIDE DEF Decoded
  <1>8. DecodePart(all) = DecodePart(text) \o last
    <2>1. PICK d \in Seq(Seq(S)) : d = Decoded(text)
      BY <1>2
    <2>2. FlattenSeq(Append(d, last)) = FlattenSeq(d) \o last
      BY FlattenAppend
    <2> QED
      BY <1>3, <1>6, <2>1, <2>2
  <1>9. DecodePart(<<>>) = <<>>
    <2>1. Decoded(<<>>) = <<>>
      BY DEF Decoded
    <2> QED
      BY <1>3, <2>1 DEF FlattenSeq
  <1>10. DecodePart(text) \in Seq(S)
    <2>1. PICK d \in Seq(Seq(S)) : d = Decoded(text)
      BY <1>2
    <2> QED
      BY <1>3, <2>1, FlattenType
  <1> QED
    BY <1>4, <1>7, <1>8, <1>9, <1>10

\* An encoded part has no colon and does not end with a percent sign, so that
\* what follows is not taken for an escape; and it decodes to the part.
LEMMA PartDecodes ==
    ASSUME NEW S, Meaningful \subseteq S, NEW part \in Seq(S)
    PROVE  DecodePart(EncodePart(part)) = part /\ ~Has(EncodePart(part), Colon)
  <1> DEFINE Safe(u) == /\ ~Has(u, Colon)
                        /\ u # <<>> => u[Len(u)] # Percent
             T == {p \in Seq(S) : DecodePart(EncodePart(p)) = p /\ Safe(EncodePart(p))}
  <1>1. /\ Colon \notin {Percent, "3A", "25", "00"} /\ Percent \notin {"3A", "25", "00"}
        /\ Unescape("3A") = Colon /\ Unescape("25") = Percent /\ Unescape("00") = Nul
    BY DEF Colon, Percent, Unescape
  <1>2. Colon \in S /\ Percent \in S /\ "3A" \in S /\ "25" \in S /\ "00" \in S
    BY DEF Meaningful
  <1>3. \A u \in Seq(S), y \in S : /\ Append(u, y) \in Seq(S) /\ Append(u, y) # <<>>
                                   /\ Append(u, y)[Len(Append(u, y))] = y
    BY AppendProperties
  <1>4. \A u \in Seq(S), y \in S : ~Has(u, Colon) /\ y # Colon => ~Has(Append(u, y), Colon)
    <2> SUFFICES ASSUME NEW u \in Seq(S), NEW y \in S, ~Has(u, Colon), y # Colon
                 PROVE  ~Has(Append(u, y), Colon)
      OBVIOUS
    <2>1. /\ DOMAIN Append(u, y) = 1 .. Len(u) + 1 /\ Append(u, y)[Len(u) + 1] = y
          /\ \A i \in 1 .. Len(u) : Append(u, y)[i] = u[i] /\ i \in DOMAIN u
          /\ \A i \in 1 .. Len(u) + 1 : i \in 1 .. Len(u) \/ i = Len(u) + 1
      OBVIOUS
    <2> QED
      BY <2>1 DEF Has, ToSet
  <1>5. <<>> \in T
    <2>1. <<>> \in Seq(S) /\ ~Has(<<>>, Colon)
      BY EmptySeq DEF Has, ToSet
    <2>2. EncodePart(<<>>) = <<>> /\ DecodePart(<<>>) = <<>>
      BY <1>2, <2>1, EncodeAppend, DecodeAppend
    <2> QED
      BY <2>1, <2>2
  <1>6. ASSUME NEW p \in Seq(S), NEW x \in S, p \in T
        PROVE  Append(p, x) \in T
    <2>1. PICK u \in Seq(S) :
              u = EncodePart(p) /\ DecodePart(u) = p /\ Safe(u)
      BY <1>6, EncodeAppend
    <2>2. EncodePart(Append(p, x)) = u \o EncodeToken(x)
      BY <2>1, EncodeAppend
    <2>3. Append(p, x) = p \o <<x>> /\ Append(p, x) \in Seq(S) /\ p \o <<>> = p
      BY AppendIsConcat, ConcatEmptySeq, <1>3
    <2>4. CASE x \in {Colon, Percent, Nul}
      <3>1. PICK code \in {"3A", "25", "00"} : /\ code \in S /\ Unescape(code) = x
                                              /\ EncodeToken(x) = <<Percent, code>>
        <4>1. CASE x = Colon
          BY <1>1, <1>2, <4>1 DEF EncodeToken
        <4>2. CASE x = Percent
          BY <1>1, <1>2, <4>2 DEF EncodeToken
        <4>3. CASE x = Nul
          BY <1>1, <1>2, <4>3 DEF EncodeToken, Nul, Colon, Percent
        <4> QED
          BY <2>4, <4>1, <4>2, <4>3
      <3>2. PICK u1 \in Seq(S) : u1 = Append(u, Percent)
        BY <1>2, <1>3
      <3>3. PICK u2 \in Seq(S) : u2 = Append(u1, code)
        BY <1>3, <3>1
      <3>4. u \o EncodeToken(x) = u2
        <4>1. <<Percent, code>> = <<Percent>> \o <<code>>
          OBVIOUS
        <4>2. <<Percent>> \in Seq(S) /\ <<code>> \in Seq(S)
          BY <1>2
        <4>3. u \o (<<Percent>> \o <<code>>) = (u \o <<Percent>>) \o <<code>>
          BY <4>2, ConcatAssociative
        <4>4. u1 = u \o <<Percent>> /\ u2 = u1 \o <<code>>
          BY <1>2, <3>2, <3>3, AppendIsConcat
        <4> QED
          BY <3>1, <4>1, <4>3, <4>4
      <3>5. DecodePart(u1) = p
        <4>1. DecodePart(u1) = DecodePart(u) \o <<>>
          BY <1>2, <3>2, DecodeAppend
        <4> QED
          BY <2>1, <2>3, <4>1
      <3>6. DecodePart(u2) = p \o <<x>>
        <4>1. u1 # <<>> /\ u1[Len(u1)] = Percent /\ code # Percent
          BY <1>1, <1>2, <1>3, <3>1, <3>2
        <4>2. DecodePart(u2) = DecodePart(u1) \o <<Unescape(code)>>
          BY <3>1, <3>3, <4>1, DecodeAppend
        <4> QED
          BY <1>1, <2>4, <3>1, <3>5, <4>2
      <3>7. Safe(u2)
        <4>1. ~Has(u1, Colon)
          BY <1>1, <1>2, <1>4, <2>1, <3>2
        <4>2. code # Colon /\ code # Percent
          BY <1>1, <3>1
        <4> QED
          BY <1>3, <1>4, <3>3, <4>1, <4>2
      <3> QED
        BY <2>2, <2>3, <3>4, <3>6, <3>7
    <2>5. CASE x \notin {Colon, Percent, Nul}
      <3>1. PICK u1 \in Seq(S) : u1 = Append(u, x)
        BY <1>3
      <3>2. u \o EncodeToken(x) = u1
        BY <2>5, <3>1, AppendIsConcat DEF EncodeToken
      <3>3. DecodePart(u1) = p \o <<x>>
        BY <2>1, <2>5, <3>1, DecodeAppend
      <3>4. Safe(u1)
        BY <1>3, <1>4, <2>1, <2>5, <3>1
      <3> QED
        BY <2>2, <2>3, <3>2, <3>3, <3>4
    <2> QED
      BY <2>4, <2>5
  <1> HIDE DEF T
  <1>7. Seq(S) \subseteq T
    BY <1>5, <1>6, SequencesInSet
  <1> QED
    BY <1>7 DEF T

\* An encoded part has no NUL.
LEMMA PartHasNoNul ==
    ASSUME NEW S, Meaningful \subseteq S, NEW part \in Seq(S)
    PROVE  EncodePart(part) \in Seq(S \ {Nul})
  <1>1. PICK R : R = S \ {Nul}
    OBVIOUS
  <1>2. \A token \in S : EncodeToken(token) \in Seq(R)
    <2> SUFFICES ASSUME NEW token \in S
                 PROVE  EncodeToken(token) \in Seq(R)
      OBVIOUS
    <2>1. /\ Percent \in R /\ "3A" \in R /\ "25" \in R /\ "00" \in R
          /\ token # Nul => token \in R
      BY <1>1 DEF Meaningful, Nul, Percent
    <2> QED
      BY <2>1 DEF EncodeToken
  <1>3. PICK n \in Nat : DOMAIN part = 1 .. n /\ \A i \in 1 .. n : part[i] \in S
    OBVIOUS
  <1>4. PICK encoded : encoded = [i \in 1 .. n |-> EncodeToken(part[i])]
    OBVIOUS
  <1>5. /\ encoded = [i \in 1 .. n |-> encoded[i]]
        /\ \A i \in 1 .. n : encoded[i] \in Seq(R)
    BY <1>2, <1>3, <1>4
  <1>6. encoded \in Seq(Seq(R))
    BY <1>5, IsSequence
  <1>7. EncodePart(part) = FlattenSeq(encoded)
    BY <1>3, <1>4 DEF EncodePart
  <1> QED
    BY <1>1, <1>6, <1>7, FlattenType

\* entityIdCodec decodes what it encodes, for every tuple of texts: the parts
\* come back one by one, whatever separators and percent signs are in them.  And
\* the entity id has no NUL, so that an ExecId has it as its first segment.
THEOREM EntityIdRoundTrip ==
    ASSUME NEW S, Meaningful \subseteq S, NEW parts \in Seq(Seq(S)), parts # <<>>
    PROVE  /\ EncodeEntityId(parts) \in Seq(S \ {Nul})
           /\ DecodeEntityId(EncodeEntityId(parts)) = parts
  <1>1. PICK n \in Nat : n = Len(parts) /\ DOMAIN parts = 1 .. n /\ n # 0
    BY EmptySeq
  <1>2. PICK encoded : encoded = [i \in 1 .. n |-> EncodePart(parts[i])]
    OBVIOUS
  <1>3. \A i \in 1 .. n : /\ parts[i] \in Seq(S) /\ encoded[i] = EncodePart(parts[i])
                          /\ encoded[i] \in Seq(S)
                          /\ DecodePart(encoded[i]) = parts[i] /\ ~Has(encoded[i], Colon)
    <2> SUFFICES ASSUME NEW i \in 1 .. n
                 PROVE  /\ parts[i] \in Seq(S) /\ EncodePart(parts[i]) \in Seq(S)
                        /\ DecodePart(EncodePart(parts[i])) = parts[i]
                        /\ ~Has(EncodePart(parts[i]), Colon)
      BY <1>2
    <2>1. parts[i] \in Seq(S) /\ Colon \in S
      BY <1>1 DEF Meaningful
    <2> QED
      BY <2>1, EncodeAppend, PartDecodes
  <1>4. encoded \in Seq(Seq(S)) /\ Len(encoded) = n /\ encoded # <<>>
    <2>1. encoded = [i \in 1 .. n |-> encoded[i]]
      BY <1>2
    <2>2. encoded \in Seq(Seq(S)) /\ Len(encoded) = n
      BY <1>3, <2>1, IsSequence
    <2> QED
      BY <1>1, <2>2, EmptySeq
  <1>5. EncodeEntityId(parts) = JoinParts(encoded)
    BY <1>1, <1>2 DEF EncodeEntityId
  <1>6. JoinParts(encoded) \in Seq(S \ {Nul})
    <2>1. PICK R : R = S \ {Nul} /\ Colon \in R /\ <<>> \in Seq(R)
      BY EmptySeq DEF Meaningful, Nul, Colon
    <2>2. \A i \in 1 .. n : encoded[i] \in Seq(R)
      BY <1>3, <2>1, PartHasNoNul
    <2>3. encoded = [i \in 1 .. n |-> encoded[i]]
      BY <1>2
    <2>4. encoded \in Seq(Seq(R))
      BY <2>2, <2>3, IsSequence
    <2> QED
      BY <1>4, <2>1, <2>4, JoinAppend
  <1>7. SplitParts(JoinParts(encoded)) = encoded
    <2>1. Colon \in S
      BY DEF Meaningful
    <2> QED
      BY <1>3, <1>4, <2>1, SplitJoin
  <1>8. DecodeEntityId(JoinParts(encoded)) = [i \in DOMAIN encoded |-> DecodePart(encoded[i])]
    BY <1>7 DEF DecodeEntityId
  <1>9. [i \in DOMAIN encoded |-> DecodePart(encoded[i])] = parts
    <2>1. DOMAIN encoded = 1 .. n /\ parts = [i \in 1 .. n |-> parts[i]]
      BY <1>1, <1>2
    <2> QED
      BY <1>3, <2>1
  <1> QED
    BY <1>5, <1>6, <1>8, <1>9

---------------------------------------------------------------------------
(* The hash, a fold from the right, and the cluster's.                     *)

\* The function that the fold goes by, for the sets of positions from m on.
HashAt(g, text, s) ==
    IF s = {} THEN Seed ELSE Round(charCode[text[Min(s)]], g[s \ {Min(s)}])
HashFold(g, text, m, n) ==
    /\ g = [s \in SUBSET (m .. n) |-> g[s]]
    /\ \A s \in SUBSET (m .. n) : g[s] = HashAt(g, text, s)

\* The first of a set of positions is the least.
LEMMA MinOfPositions ==
    ASSUME NEW s, s \subseteq Int, NEW m \in s, \A x \in s : m <= x
    PROVE  Min(s) = m
  <1>1. \A x \in s : (\A y \in s : x <= y) => x = m
    OBVIOUS
  <1> QED
    BY <1>1, Zenon DEF Min

\* The function exists.
LEMMA HashFoldExists ==
    ASSUME NEW text, NEW n \in Nat
    PROVE  \E g : HashFold(g, text, 1, n)
  <1> DEFINE T == {k \in Nat : \E g : HashFold(g, text, n + 1 - k, n)}
  <1>1. 0 \in T
    <2>1. PICK m \in Int : m = n + 1 - 0
      OBVIOUS
    <2>2. m .. n = {}
      BY <2>1
    <2>3. HashFold([s \in SUBSET (m .. n) |-> Seed], text, m, n)
      BY <2>2 DEF HashFold, HashAt
    <2> QED
      BY <2>1, <2>3
  <1>2. ASSUME NEW k \in Nat, k \in T
        PROVE  k + 1 \in T
    <2>1. PICK g : HashFold(g, text, n + 1 - k, n)
      BY <1>2
    <2>2. PICK m \in Int, l \in Int : m = n + 1 - (k + 1) /\ l = n + 1 - k /\ l = m + 1
      OBVIOUS
    <2>3. PICK h : h = [s \in SUBSET (m .. n) |-> IF m \in s THEN HashAt(g, text, s) ELSE g[s]]
      OBVIOUS
    <2>4. ASSUME NEW s \in SUBSET (m .. n)
          PROVE  h[s] = HashAt(h, text, s)
      <3>1. CASE m \in s
        <4>1. Min(s) = m
          <5>1. s \subseteq Int /\ \A x \in s : m <= x
            BY <2>2
          <5> QED
            BY <3>1, <5>1, MinOfPositions
        <4>2. s \ {m} \in SUBSET (m .. n) /\ m \notin s \ {m}
          BY <2>2
        <4>3. h[s \ {m}] = g[s \ {m}]
          BY <2>3, <4>2
        <4> QED
          BY <2>3, <3>1, <4>1, <4>3 DEF HashAt
      <3>2. CASE m \notin s
        <4>1. s \in SUBSET (l .. n)
          <5>1. \A x \in s : x \in l .. n
            BY <2>2, <3>2
          <5> QED
            BY <5>1
        <4>2. (s \ {Min(s)}) \in SUBSET (m .. n) /\ m \notin (s \ {Min(s)})
          BY <3>2
        <4>3. h[s \ {Min(s)}] = g[s \ {Min(s)}] /\ h[s] = g[s]
          BY <2>3, <3>2, <4>2
        <4>4. g[s] = HashAt(g, text, s)
          BY <2>1, <2>2, <4>1 DEF HashFold
        <4> QED
          BY <4>3, <4>4 DEF HashAt
      <3> QED
        BY <3>1, <3>2
    <2>5. HashFold(h, text, m, n)
      BY <2>3, <2>4 DEF HashFold
    <2> QED
      BY <2>2, <2>5
  <1> HIDE DEF T
  <1>3. n \in T
    BY <1>1, <1>2, NumbersInSet
  <1>4. n + 1 - n = 1
    OBVIOUS
  <1> QED
    BY <1>3, <1>4 DEF T

\* A run of rounds from the last token to the first.
HashStep(q, text, n, i) ==
    IF i > n THEN Seed ELSE Round(charCode[text[i]], q[i + 1])
HashRun(q, text, n) == q = [i \in 1 .. n + 1 |-> HashStep(q, text, n, i)]

\* Two runs start with the same hash: they agree from the last position to the
\* first.
LEMMA HashRunUnique ==
    ASSUME NEW text, NEW n \in Nat, NEW q, NEW r, HashRun(q, text, n), HashRun(r, text, n)
    PROVE  q[1] = r[1]
  <1>1. \A i \in 1 .. n + 1 : /\ q[i] = HashStep(q, text, n, i)
                              /\ r[i] = HashStep(r, text, n, i)
    <2>1. q = [i \in 1 .. n + 1 |-> HashStep(q, text, n, i)]
      BY Zenon DEF HashRun
    <2>2. r = [i \in 1 .. n + 1 |-> HashStep(r, text, n, i)]
      BY Zenon DEF HashRun
    <2> QED
      BY <2>1, <2>2, Zenon
  <1> DEFINE T == {k \in Nat : k <= n => q[n + 1 - k] = r[n + 1 - k]}
  <1>2. 0 \in T
    <2>1. n + 1 - 0 \in 1 .. n + 1 /\ n + 1 - 0 > n
      OBVIOUS
    <2> QED
      BY <1>1, <2>1 DEF HashStep
  <1>3. ASSUME NEW k \in Nat, k \in T
        PROVE  k + 1 \in T
    <2> SUFFICES ASSUME k + 1 <= n
                 PROVE  q[n + 1 - (k + 1)] = r[n + 1 - (k + 1)]
      OBVIOUS
    <2>1. PICK i \in 1 .. n + 1 : i = n + 1 - (k + 1) /\ i + 1 = n + 1 - k /\ ~(i > n)
      OBVIOUS
    <2>2. q[i + 1] = r[i + 1]
      BY <1>3, <2>1
    <2>3. q[i] = r[i]
      BY <1>1, <2>1, <2>2 DEF HashStep
    <2> QED
      BY <2>1, <2>3
  <1> HIDE DEF T
  <1>4. n \in T
    BY <1>2, <1>3, NumbersInSet
  <1>5. n + 1 - n = 1
    OBVIOUS
  <1> QED
    BY <1>4, <1>5 DEF T

\* The loop of hashString computes the cluster's hash, for every text.
THEOREM HashesAgree ==
    ASSUME NEW S, NEW text \in Seq(S)
    PROVE  hashString(text) = Signed(hashOptimize(clusterHash(text)))
  <1>1. PICK n \in Nat : n = Len(text) /\ DOMAIN text = 1 .. n
    OBVIOUS
  <1>2. PICK f : f = CHOOSE g0 : g0 = [s \in SUBSET (1 .. n) |-> HashAt(g0, text, s)]
    OBVIOUS
  <1>3. f = [s \in SUBSET (1 .. n) |-> HashAt(f, text, s)]
    <2>1. PICK h : HashFold(h, text, 1, n)
      BY HashFoldExists
    <2>2. h = [s \in SUBSET (1 .. n) |-> HashAt(h, text, s)]
      BY <2>1, Zenon DEF HashFold
    <2> QED
      BY <1>2, <2>2, Zenon
  <1>4. hashString(text) = Signed(hashOptimize(f[1 .. n]))
    <2>1. hashString(text) = Signed(hashOptimize(
            (CHOOSE g0 : g0 = [s \in SUBSET DOMAIN text |-> HashAt(g0, text, s)])[DOMAIN text]))
      BY Zenon DEF hashString, FoldRight, MapThenFoldSet, HashAt
    <2> QED
      BY <1>1, <1>2, <2>1, Zenon
  <1>5. PICK q : q = [i \in 1 .. n + 1 |-> f[i .. n]]
    OBVIOUS
  <1>6. HashRun(q, text, n)
    <2>1. ASSUME NEW i \in 1 .. n + 1
          PROVE  q[i] = HashStep(q, text, n, i)
      <3>1. q[i] = f[i .. n] /\ i .. n \in SUBSET (1 .. n)
        BY <1>5
      <3>2. CASE i > n
        <4>1. i .. n = {}
          BY <3>2
        <4> QED
          BY <1>3, <3>1, <3>2, <4>1 DEF HashAt, HashStep
      <3>3. CASE ~(i > n)
        <4>1. /\ i \in i .. n /\ i .. n # {} /\ i + 1 \in 1 .. n + 1
              /\ (i .. n) \ {i} = (i + 1) .. n
          <5>1. i \in Int /\ i <= n
            BY <3>3
          <5>2. i \in i .. n /\ i + 1 \in 1 .. n + 1
            BY <5>1
          <5>3. \A x : x \in (i .. n) \ {i} <=> x \in (i + 1) .. n
            BY <5>1
          <5> QED
            BY <5>2, <5>3
        <4>2. Min(i .. n) = i
          <5>1. (i .. n) \subseteq Int /\ \A x \in i .. n : i <= x
            OBVIOUS
          <5> QED
            BY <4>1, <5>1, MinOfPositions
        <4>3. q[i + 1] = f[(i + 1) .. n]
          BY <1>5, <4>1
        <4>4. f[i .. n] = HashAt(f, text, i .. n)
          BY <1>3, <3>1, Zenon
        <4>5. HashAt(f, text, i .. n) = Round(charCode[text[i]], f[(i + 1) .. n])
          BY <4>1, <4>2, Zenon DEF HashAt
        <4>6. HashStep(q, text, n, i) = Round(charCode[text[i]], q[i + 1])
          BY <3>3, Zenon DEF HashStep
        <4> QED
          BY <3>1, <4>3, <4>4, <4>5, <4>6, Zenon
      <3> QED
        BY <3>2, <3>3
    <2> QED
      BY <1>5, <2>1 DEF HashRun
  <1>7. PICK hash : hash = CHOOSE g0 : g0 = [i \in 1 .. n + 1 |-> HashStep(g0, text, n, i)]
    OBVIOUS
  <1>8. HashRun(hash, text, n)
    <2>1. q = [i \in 1 .. n + 1 |-> HashStep(q, text, n, i)]
      BY <1>6, Zenon DEF HashRun
    <2> QED
      BY <1>7, <2>1, Zenon DEF HashRun
  <1>9. clusterHash(text) = hash[1]
    <2>1. clusterHash(text) =
            (CHOOSE g0 : g0 = [i \in 1 .. Len(text) + 1 |-> HashStep(g0, text, Len(text), i)])[1]
      BY Zenon DEF clusterHash, HashStep
    <2> QED
      BY <1>1, <1>7, <2>1, Zenon
  <1>10. q[1] = f[1 .. n] /\ q[1] = hash[1]
    <2>1. 1 \in 1 .. n + 1
      OBVIOUS
    <2> QED
      BY <1>5, <1>6, <1>8, <2>1, HashRunUnique
  <1> QED
    BY <1>4, <1>9, <1>10

\* Whichever host resolves an entity, its address is the same: what a producer
\* stores is in the shard that a consumer reads.
THEOREM ResolversAgree ==
    ASSUME NEW S, NEW entityId \in Seq(S), NEW entityType,
           NEW left \in Resolvers, NEW right \in Resolvers
    PROVE  resolveEntity(left, entityType, entityId) = resolveEntity(right, entityType, entityId)
  <1>1. \A group : computeShardId(entityId, group) = getShardId(entityId, group)
    BY HashesAgree DEF computeShardId, getShardId
  <1> QED
    BY <1>1 DEF resolveEntity, shardIdBy

---------------------------------------------------------------------------
(* Canonical JSON: which keys, in which order.                             *)

\* FlattenSeq returns the elements of its sequences, and no others.
LEMMA FlattenElements ==
    ASSUME NEW S, NEW seqs \in Seq(Seq(S)), NEW x
    PROVE  x \in ToSet(FlattenSeq(seqs)) <=> \E i \in DOMAIN seqs : x \in ToSet(seqs[i])
  <1> DEFINE T == {q \in Seq(Seq(S)) : x \in ToSet(FlattenSeq(q))
                                          <=> \E i \in DOMAIN q : x \in ToSet(q[i])}
  <1>1. <<>> \in T
    <2>1. FlattenSeq(<<>>) = <<>>
      BY DEF FlattenSeq
    <2> QED
      BY <2>1 DEF ToSet
  <1>2. ASSUME NEW q \in Seq(Seq(S)), NEW s \in Seq(S), q \in T
        PROVE  Append(q, s) \in T
    <2>1. PICK front \in Seq(S) : front = FlattenSeq(q)
      BY FlattenType
    <2>2. x \in ToSet(front \o s) <=> x \in ToSet(front) \/ x \in ToSet(s)
      <3>1. /\ front \o s \in Seq(S) /\ Len(front \o s) = Len(front) + Len(s)
            /\ \A i \in 1 .. Len(front) : (front \o s)[i] = front[i]
            /\ \A i \in 1 .. Len(s) : (front \o s)[Len(front) + i] = s[i]
        BY ConcatProperties
      <3>2. ASSUME NEW i \in 1 .. Len(front) + Len(s)
            PROVE  i \in 1 .. Len(front) \/ \E j \in 1 .. Len(s) : i = Len(front) + j
        <4>1. i \in 1 .. Len(front) \/ i - Len(front) \in 1 .. Len(s)
          OBVIOUS
        <4>2. i = Len(front) + (i - Len(front))
          OBVIOUS
        <4> QED
          BY <4>1, <4>2
      <3>3. \A j \in 1 .. Len(s) : Len(front) + j \in 1 .. Len(front) + Len(s)
        OBVIOUS
      <3>4. \A i \in 1 .. Len(front) : i \in 1 .. Len(front) + Len(s)
        OBVIOUS
      <3>5. x \in ToSet(front \o s) <=> \E i \in 1 .. Len(front) + Len(s) : (front \o s)[i] = x
        <4>1. PICK all \in Seq(S) : all = front \o s
          BY <3>1
        <4>2. x \in ToSet(all) <=> \E i \in 1 .. Len(all) : all[i] = x
          BY InToSet
        <4> QED
          BY <3>1, <4>1, <4>2, Zenon
      <3>6. x \in ToSet(front) <=> \E i \in 1 .. Len(front) : front[i] = x
        BY InToSet
      <3>7. x \in ToSet(s) <=> \E i \in 1 .. Len(s) : s[i] = x
        BY InToSet
      <3> QED
        BY <3>1, <3>2, <3>3, <3>4, <3>5, <3>6, <3>7
    <2>3. FlattenSeq(Append(q, s)) = front \o s
      BY <2>1, FlattenAppend
    <2> DEFINE all == Append(q, s)
    <2>6. PICK n \in Nat : n = Len(q) + 1 /\ n # 0
      OBVIOUS
    <2>4. /\ all \in Seq(Seq(S)) /\ DOMAIN all = 1 .. n /\ DOMAIN q = 1 .. n - 1
          /\ all[n] = s /\ \A i \in 1 .. n - 1 : all[i] = q[i]
      <3>1. /\ all \in Seq(Seq(S)) /\ Len(all) = n
            /\ all[n] = s /\ \A i \in 1 .. Len(q) : all[i] = q[i]
        BY <2>6, AppendProperties
      <3>2. Len(q) = n - 1
        BY <2>6
      <3> HIDE DEF all
      <3>3. DOMAIN q = 1 .. n - 1 /\ DOMAIN all = 1 .. n
        BY <3>1, <3>2
      <3> QED
        BY <3>1, <3>2, <3>3
    <2> HIDE DEF all
    <2>5. (\E i \in DOMAIN all : x \in ToSet(all[i]))
            <=> x \in ToSet(s) \/ \E i \in DOMAIN q : x \in ToSet(q[i])
      <3>1. \A i \in 1 .. n : i \in 1 .. n - 1 \/ i = n
        OBVIOUS
      <3>2. n \in 1 .. n /\ 1 .. n - 1 \subseteq 1 .. n
        BY <2>6
      <3> QED
        BY <2>4, <3>1, <3>2
    <2> QED
      BY <1>2, <2>1, <2>2, <2>3, <2>4, <2>5 DEF all
  <1> HIDE DEF T
  <1>3. Seq(Seq(S)) \subseteq T
    BY <1>1, <1>2, SequencesInSet
  <1> QED
    BY <1>3 DEF T

\* What is listed are the keys that are in the order.
LEMMA ListedKeys ==
    ASSUME NEW K, NEW order \in Seq(K), NEW keys
    PROVE  /\ Listed(order, keys) \in Seq(keys)
           /\ \A k : k \in ToSet(Listed(order, keys)) <=> k \in keys /\ k \in ToSet(order)
  <1>1. PICK n \in Nat : n = Len(order) /\ DOMAIN order = 1 .. n
    OBVIOUS
  <1>2. PICK single : single = [i \in 1 .. n |-> IF order[i] \in keys THEN <<order[i]>> ELSE <<>>]
    OBVIOUS
  <1>3. Listed(order, keys) = FlattenSeq(single)
    BY <1>1, <1>2 DEF Listed
  <1>4. \A i \in 1 .. n : single[i] \in Seq(keys)
    BY <1>2
  <1>5. single \in Seq(Seq(keys)) /\ DOMAIN single = 1 .. n
    <2>1. single = [i \in 1 .. n |-> single[i]]
      BY <1>2
    <2> QED
      BY <1>4, <2>1, IsSequence
  <1>6. \A i \in 1 .. n : \A k : k \in ToSet(single[i]) <=> k \in keys /\ k = order[i]
    <2> SUFFICES ASSUME NEW i \in 1 .. n, NEW k
                 PROVE  k \in ToSet(single[i]) <=> k \in keys /\ k = order[i]
      OBVIOUS
    <2>1. CASE order[i] \in keys
      <3>1. PICK one \in Seq(keys) : one = <<order[i]>>
        <4>1. <<order[i]>> \in Seq(keys)
          BY <2>1
        <4> QED
          BY <4>1, Zenon
      <3>2. Len(one) = 1 /\ one[1] = order[i]
        BY <3>1
      <3>3. single[i] = one
        BY <1>2, <2>1, <3>1
      <3>4. k \in ToSet(one) <=> \E j \in 1 .. Len(one) : one[j] = k
        BY InToSet
      <3>5. k \in ToSet(one) <=> k = order[i]
        BY <3>2, <3>4
      <3> QED
        BY <2>1, <3>3, <3>5
    <2>2. CASE order[i] \notin keys
      <3>1. single[i] = <<>> /\ DOMAIN <<>> = {}
        BY <1>2, <2>2
      <3> QED
        BY <2>2, <3>1 DEF ToSet
    <2> QED
      BY <2>1, <2>2
  <1>7. \A k : k \in ToSet(order) <=> \E i \in 1 .. n : order[i] = k
    BY <1>1, InToSet
  <1>8. PICK listed : listed = FlattenSeq(single)
    OBVIOUS
  <1>9. listed \in Seq(keys)
    BY <1>5, <1>8, FlattenType
  <1>10. \A k : k \in ToSet(listed) <=> \E i \in 1 .. n : k \in ToSet(single[i])
    BY <1>5, <1>8, FlattenElements
  <1>11. \A k : k \in ToSet(listed) <=> k \in keys /\ k \in ToSet(order)
    <2> SUFFICES ASSUME NEW k
                 PROVE  k \in ToSet(listed) <=> k \in keys /\ k \in ToSet(order)
      OBVIOUS
    <2>1. \A i \in 1 .. n : k \in ToSet(single[i]) <=> k \in keys /\ order[i] = k
      BY <1>6, Zenon
    <2>2. k \in ToSet(listed) <=> \E i \in 1 .. n : k \in keys /\ order[i] = k
      BY <1>10, <2>1, Zenon
    <2> QED
      BY <1>7, <2>2, Zenon
  <1> QED
    BY <1>3, <1>8, <1>9, <1>11, Zenon

\* An object's keys are listed, all of them and in either order.
LEMMA SortedKeys ==
    ASSUME NEW keys, keys \subseteq ToSet(KeyOrder)
    PROVE  /\ Sorted(keys) \in Seq(keys) /\ RuntimeKeys(keys) \in Seq(keys)
           /\ ToSet(Sorted(keys)) = keys
  <1>1. Sorted(keys) \in Seq(keys) /\ ToSet(Sorted(keys)) = keys
    <2>1. PICK K, sorted : K = ToSet(KeyOrder) /\ sorted = Listed(KeyOrder, keys)
      OBVIOUS
    <2>2. KeyOrder \in Seq(K)
      BY <2>1, KeyAssumption
    <2>3. /\ sorted \in Seq(keys)
          /\ \A k : k \in ToSet(sorted) <=> k \in keys /\ k \in K
      BY <2>1, <2>2, ListedKeys
    <2>4. ToSet(sorted) = keys
      BY <2>1, <2>3
    <2> QED
      BY <2>1, <2>3, <2>4, Zenon DEF Sorted
  <1>2. Listed(IndexOrder, keys) \in Seq(keys)
    BY KeyAssumption, ListedKeys
  <1>3. Sorted(keys \ ToSet(IndexOrder)) \in Seq(keys)
    <2>1. Sorted(keys \ ToSet(IndexOrder)) \in Seq(keys \ ToSet(IndexOrder))
      BY KeyAssumption, ListedKeys DEF Sorted
    <2> QED
      BY <2>1, SeqMonotonic
  <1> QED
    BY <1>1, <1>2, <1>3, ConcatProperties DEF RuntimeKeys

---------------------------------------------------------------------------
(* Canonical JSON: the encoders are functions on the documents.            *)

\* A set with every document whose parts it has is a set of all documents.
LEMMA DocumentsInSet ==
    ASSUME NEW D, \A value \in Documents : Parts(value) \cap Documents \subseteq D => value \in D
    PROVE  Documents \subseteq D
  <1> DEFINE N == {n \in Nat : \A value \in Documents : Nesting[value] < n => value \in D}
  <1>1. \A value \in Documents : Nesting[value] \in Nat
    BY DocumentsAssumption
  <1>2. 0 \in N
    BY <1>1
  <1>3. ASSUME NEW n \in Nat, n \in N
        PROVE  n + 1 \in N
    <2> SUFFICES ASSUME NEW value \in Documents, Nesting[value] < n + 1
                 PROVE  value \in D
      OBVIOUS
    <2>1. \A part \in Parts(value) \cap Documents : Nesting[part] < n
      BY <1>1, DocumentsAssumption
    <2> QED
      BY <1>3, <2>1
  <1> HIDE DEF N
  <1>4. Nat \subseteq N
    BY <1>2, <1>3, NumbersInSet
  <1>5. \A value \in Documents : \E n \in Nat : Nesting[value] < n
    <2> SUFFICES ASSUME NEW value \in Documents
                 PROVE  \E n \in Nat : Nesting[value] < n
      OBVIOUS
    <2>1. Nesting[value] + 1 \in Nat /\ Nesting[value] < Nesting[value] + 1
      BY <1>1
    <2> QED
      BY <2>1
  <1> QED
    BY <1>4, <1>5 DEF N

\* The parts of a document, by its kind.
LEMMA DocumentParts ==
    ASSUME NEW value \in Documents
    PROVE  /\ value.kind \in {"leaf", "array", "object"}
           /\ value.kind = "leaf" =>
                value = Leaf(value.token) /\ value.token \notin Brackets
           /\ value.kind = "array" =>
                /\ value = Array(value.items) /\ value.items \in Seq(Documents)
                /\ \A i \in DOMAIN value.items : value.items[i] \in Parts(value)
           /\ value.kind = "object" =>
                /\ value = Object(value.entries) /\ DOMAIN value.entries \subseteq ToSet(KeyOrder)
                /\ value.entries \in [DOMAIN value.entries -> Documents]
                /\ \A k \in DOMAIN value.entries : value.entries[k] \in Parts(value)
           /\ Parts(value) \subseteq Documents
  <1>1. IsJson(value)
    BY DocumentsAssumption
  <1>2. CASE value.kind = "leaf"
    BY <1>1, <1>2 DEF IsJson, Parts
  <1>3. CASE value.kind = "array"
    <2>1. value = Array(value.items) /\ value.items \in Seq(Documents)
      BY <1>1, <1>3 DEF IsJson
    <2>2. \A part : part \in Parts(value) <=> \E i \in DOMAIN value.items : part = value.items[i]
      BY <1>3 DEF Parts, ToSet
    <2>3. \A i \in DOMAIN value.items : value.items[i] \in Documents
      BY <2>1
    <2> QED
      BY <1>3, <2>1, <2>2, <2>3
  <1>4. CASE value.kind = "object"
    BY <1>1, <1>4 DEF IsJson, Parts
  <1> QED
    BY <1>1, <1>2, <1>3, <1>4 DEF IsJson

\* The function an encoder goes by.
ItemTexts(g, value) == [i \in DOMAIN value.items |-> g[value.items[i]]]
EntryTexts(g, value, keys) == [i \in DOMAIN keys |-> <<keys[i]>> \o g[value.entries[keys[i]]]]
IsText(g, exact) == g = [value \in Documents |-> Text(g, value, exact)]

\* The keys are those of the object.
LEMMA KeysOfObject ==
    ASSUME NEW value \in Documents, value.kind = "object", NEW exact
    PROVE  KeysOf(value, exact) \in Seq(DOMAIN value.entries)
  BY DocumentParts, SortedKeys DEF KeysOf

\* The text of a document depends on those of its parts.
LEMMA TextOfParts ==
    ASSUME NEW value \in Documents, NEW exact, NEW f, NEW g,
           \A part \in Parts(value) : f[part] = g[part]
    PROVE  Text(f, value, exact) = Text(g, value, exact)
  <1>1. CASE value.kind = "leaf"
    BY <1>1 DEF Text
  <1>2. CASE value.kind = "array"
    <2>1. ItemTexts(f, value) = ItemTexts(g, value)
      BY <1>2, DocumentParts DEF ItemTexts
    <2> QED
      BY <1>2, <2>1 DEF Text, ItemTexts
  <1>3. CASE value.kind = "object"
    <2>1. PICK keys \in Seq(DOMAIN value.entries) : keys = KeysOf(value, exact)
      BY <1>3, KeysOfObject
    <2>2. \A i \in DOMAIN keys : value.entries[keys[i]] \in Parts(value)
      BY <1>3, <2>1, DocumentParts
    <2>3. EntryTexts(f, value, keys) = EntryTexts(g, value, keys)
      BY <2>2 DEF EntryTexts
    <2> QED
      BY <1>3, <2>1, <2>3 DEF Text, EntryTexts
  <1> QED
    BY <1>1, <1>2, <1>3, DocumentParts

\* An encoder up to a nesting.
TextsUpTo(g, exact, n) ==
    \A value \in Documents : Nesting[value] < n => g[value] = Text(g, value, exact)

\* Encoders agree on what both are for.
LEMMA TextsAgree ==
    ASSUME NEW exact, NEW m \in Nat, NEW n \in Nat, NEW f, NEW g,
           TextsUpTo(f, exact, m), TextsUpTo(g, exact, n),
           NEW value \in Documents, Nesting[value] < m, Nesting[value] < n
    PROVE  f[value] = g[value]
  <1> DEFINE D == {v \in Documents : Nesting[v] < m /\ Nesting[v] < n => f[v] = g[v]}
  <1>1. ASSUME NEW v \in Documents, Parts(v) \cap Documents \subseteq D
        PROVE  v \in D
    <2> SUFFICES ASSUME Nesting[v] < m, Nesting[v] < n
                 PROVE  f[v] = g[v]
      OBVIOUS
    <2>1. \A part \in Parts(v) : part \in Documents /\ Nesting[part] < Nesting[v]
                                   /\ Nesting[part] \in Nat
      BY DocumentParts, DocumentsAssumption
    <2>2. Nesting[v] \in Nat
      BY DocumentsAssumption
    <2>3. \A part \in Parts(v) : f[part] = g[part]
      BY <1>1, <2>1, <2>2
    <2>4. Text(f, v, exact) = Text(g, v, exact)
      BY <2>3, TextOfParts
    <2> QED
      BY <2>4 DEF TextsUpTo
  <1> HIDE DEF D
  <1>2. Documents \subseteq D
    BY <1>1, DocumentsInSet
  <1> QED
    BY <1>2 DEF D

\* There is an encoder up to every nesting...
LEMMA TextsUpToExist ==
    ASSUME NEW exact, NEW m \in Nat
    PROVE  \E g : TextsUpTo(g, exact, m)
  <1> DEFINE N == {n \in Nat : \E g : TextsUpTo(g, exact, n)}
  <1>1. \A value \in Documents : Nesting[value] \in Nat
    BY DocumentsAssumption
  <1>2. 0 \in N
    <2>1. TextsUpTo(Nesting, exact, 0)
      BY <1>1 DEF TextsUpTo
    <2> QED
      BY <2>1
  <1>3. ASSUME NEW n \in Nat, n \in N
        PROVE  n + 1 \in N
    <2>1. PICK g : TextsUpTo(g, exact, n)
      BY <1>3
    <2>2. PICK h : h = [value \in Documents |-> Text(g, value, exact)]
      OBVIOUS
    <2>3. ASSUME NEW value \in Documents, Nesting[value] < n + 1
          PROVE  h[value] = Text(h, value, exact)
      <3>1. \A part \in Parts(value) : part \in Documents /\ Nesting[part] < n
        BY <1>1, <2>3, DocumentParts, DocumentsAssumption
      <3>2. \A part \in Parts(value) : h[part] = g[part]
        BY <2>1, <2>2, <3>1 DEF TextsUpTo
      <3>3. Text(h, value, exact) = Text(g, value, exact)
        BY <3>2, TextOfParts
      <3> QED
        BY <2>2, <3>3
    <2>4. TextsUpTo(h, exact, n + 1)
      BY <2>3 DEF TextsUpTo
    <2> QED
      BY <2>4
  <1> HIDE DEF N
  <1>4. Nat \subseteq N
    BY <1>2, <1>3, NumbersInSet
  <1> QED
    BY <1>4 DEF N

\* ...and one for all documents.
LEMMA TextExists ==
    ASSUME NEW exact
    PROVE  \E g : IsText(g, exact)
  <1>1. \A value \in Documents : Nesting[value] \in Nat /\ Nesting[value] + 1 \in Nat
                                   /\ Nesting[value] < Nesting[value] + 1
    BY DocumentsAssumption
  <1> DEFINE up(value) == CHOOSE g : TextsUpTo(g, exact, Nesting[value] + 1)
  <1>2. \A value \in Documents : TextsUpTo(up(value), exact, Nesting[value] + 1)
    BY <1>1, TextsUpToExist
  <1> HIDE DEF up
  <1>3. PICK h : h = [value \in Documents |-> up(value)[value]]
    OBVIOUS
  <1>4. ASSUME NEW value \in Documents
        PROVE  h[value] = Text(h, value, exact)
    <2>1. \A part \in Parts(value) : part \in Documents /\ Nesting[part] < Nesting[value]
      BY DocumentParts, DocumentsAssumption
    <2>2. ASSUME NEW part \in Parts(value)
          PROVE  h[part] = up(value)[part]
      <3>1. Nesting[part] < Nesting[value] + 1
        BY <1>1, <2>1
      <3>2. up(part)[part] = up(value)[part]
        BY <1>1, <1>2, <2>1, <3>1, TextsAgree
      <3> QED
        BY <1>3, <2>1, <3>2
    <2>3. Text(h, value, exact) = Text(up(value), value, exact)
      BY <2>2, TextOfParts
    <2>4. up(value)[value] = Text(up(value), value, exact)
      BY <1>1, <1>2 DEF TextsUpTo
    <2> QED
      BY <1>3, <2>3, <2>4
  <1> QED
    BY <1>3, <1>4 DEF IsText

\* Encode is such a function.
LEMMA EncodeIsText ==
    ASSUME NEW exact
    PROVE  \E g : IsText(g, exact) /\ \A value : Encode(value, exact) = g[value]
  <1>1. PICK g : g = CHOOSE g0 : g0 = [value \in Documents |-> Text(g0, value, exact)]
    OBVIOUS
  <1>2. IsText(g, exact)
    <2>1. PICK h : IsText(h, exact)
      BY TextExists
    <2>2. h = [value \in Documents |-> Text(h, value, exact)]
      BY <2>1, Zenon DEF IsText
    <2> QED
      BY <1>1, <2>2, Zenon DEF IsText
  <1>3. \A value : Encode(value, exact) =
            (CHOOSE g0 : g0 = [v \in Documents |-> Text(g0, v, exact)])[value]
    BY Zenon DEF Encode
  <1> QED
    BY <1>1, <1>2, <1>3, Zenon

---------------------------------------------------------------------------
(* Canonical JSON: the fast path.                                          *)

\* An object that JavaScript lists in another order.
Reorders(value) ==
    value.kind = "object" /\ RuntimeKeys(DOMAIN value.entries) # Sorted(DOMAIN value.entries)

\* The function exactEncodingRequired goes by exists: it tells the least set with
\* every object that is listed in another order and whatever contains one.
LEMMA RequiredExists ==
    \E g : g = [value \in Documents |-> (\E part \in Parts(value) : g[part]) \/ Reorders(value)]
  <1> DEFINE Step(D, value) == (\E part \in Parts(value) : part \in D) \/ Reorders(value)
             Closed(D) == \A value \in Documents : Step(D, value) => value \in D
  <1>1. PICK B : B = {v \in Documents : \A D \in SUBSET Documents : Closed(D) => v \in D}
    OBVIOUS
  <1>2. \A D \in SUBSET Documents : Closed(D) => B \subseteq D
    BY <1>1, Zenon
  <1>3. ASSUME NEW value \in Documents, Step(B, value)
        PROVE  value \in B
    <2>1. ASSUME NEW D \in SUBSET Documents, Closed(D)
          PROVE  value \in D
      <3>1. B \subseteq D
        BY <1>2, <2>1
      <3>2. Step(D, value)
        BY <1>3, <3>1
      <3> QED
        BY <2>1, <3>2
    <2> QED
      BY <1>1, <2>1
  <1>4. ASSUME NEW value \in B
        PROVE  Step(B, value)
    <2>1. PICK D : D = {v \in Documents : Step(B, v)}
      OBVIOUS
    <2>2. D \subseteq B
      BY <1>3, <2>1, Zenon
    <2>3. ASSUME NEW v \in Documents, Step(D, v)
          PROVE  v \in D
      BY <2>1, <2>2, <2>3
    <2>4. B \subseteq D
      <3>1. D \in SUBSET Documents
        BY <2>1
      <3> QED
        BY <1>2, <2>3, <3>1
    <2> QED
      BY <2>1, <2>4
  <1>5. PICK g : g = [value \in Documents |-> value \in B]
    OBVIOUS
  <1>6. \A value \in Documents : (value \in B) = ((\E part \in Parts(value) : g[part]) \/ Reorders(value))
    <2> SUFFICES ASSUME NEW value \in Documents
                 PROVE  value \in B <=> (\E part \in Parts(value) : g[part]) \/ Reorders(value)
      BY DEF Reorders
    <2>1. B \subseteq Documents
      BY <1>1
    <2>2. \A part \in Parts(value) : g[part] <=> part \in B
      BY <1>5, DocumentParts, Zenon
    <2>3. value \in B <=> Step(B, value)
      BY <1>3, <1>4, Zenon
    <2> QED
      BY <2>2, <2>3, Zenon
  <1> HIDE DEF Step, Closed
  <1>7. g = [value \in Documents |-> (\E part \in Parts(value) : g[part]) \/ Reorders(value)]
    BY <1>5, <1>6, Zenon
  <1> QED
    BY <1>7, Zenon

\* A document that does not require the exact encoder has no object, at any
\* depth, that is listed in another order.
LEMMA RequiredOfParts ==
    \E g : /\ \A value : exactEncodingRequired(value) = g[value]
           /\ \A value \in Documents :
                 ~g[value] => ~Reorders(value) /\ \A part \in Parts(value) : ~g[part]
  <1>1. PICK g : g = CHOOSE g0 :
            g0 = [value \in Documents |-> (\E part \in Parts(value) : g0[part]) \/ Reorders(value)]
    OBVIOUS
  <1>2. g = [value \in Documents |-> (\E part \in Parts(value) : g[part]) \/ Reorders(value)]
    BY <1>1, RequiredExists, Zenon
  <1>3. \A value : exactEncodingRequired(value) = g[value]
    <2> SUFFICES ASSUME NEW value
                 PROVE  exactEncodingRequired(value) = g[value]
      OBVIOUS
    <2>1. exactEncodingRequired(value) = (CHOOSE g0 :
            g0 = [v \in Documents |-> (\E part \in Parts(v) : g0[part]) \/ Reorders(v)])[value]
      BY Zenon DEF exactEncodingRequired, Reorders
    <2> QED
      BY <1>1, <2>1, Zenon
  <1>4. \A value \in Documents :
            g[value] = ((\E part \in Parts(value) : g[part]) \/ Reorders(value))
    BY <1>2, Zenon
  <1> QED
    BY <1>3, <1>4, Zenon

\* The fast path never shows: canonicalJsonString gives every document the text
\* that the recursive encoder gives it.
THEOREM FastPathIsExact ==
    ASSUME NEW json \in Documents
    PROVE  canonicalJsonString(json) = canonicalJsonStringExact(json)
  <1>1. PICK required : /\ \A value : exactEncodingRequired(value) = required[value]
                        /\ \A value \in Documents : ~required[value] =>
                              ~Reorders(value) /\ \A part \in Parts(value) : ~required[part]
    BY RequiredOfParts
  <1>2. PICK native : IsText(native, FALSE) /\ \A value : Encode(value, FALSE) = native[value]
    BY EncodeIsText
  <1>3. PICK exact : IsText(exact, TRUE) /\ \A value : Encode(value, TRUE) = exact[value]
    BY EncodeIsText
  <1> DEFINE D == {value \in Documents : ~required[value] => native[value] = exact[value]}
  <1>4. ASSUME NEW value \in Documents, Parts(value) \cap Documents \subseteq D
        PROVE  value \in D
    <2> SUFFICES ASSUME ~required[value]
                 PROVE  native[value] = exact[value]
      OBVIOUS
    <2>1. ~Reorders(value) /\ \A part \in Parts(value) : ~required[part]
      BY <1>1
    <2>2. \A part \in Parts(value) : native[part] = exact[part]
      BY <1>4, <2>1, DocumentParts
    <2>3. Text(native, value, FALSE) = Text(exact, value, FALSE)
      BY <2>2, TextOfParts
    <2>4. Text(exact, value, FALSE) = Text(exact, value, TRUE)
      BY <2>1, DocumentParts DEF Text, KeysOf, Reorders
    <2> QED
      BY <1>2, <1>3, <2>3, <2>4 DEF IsText
  <1> HIDE DEF D
  <1>5. json \in D
    BY <1>4, DocumentsInSet
  <1>6. ~exactEncodingRequired(json) => nativeJsonString(json) = canonicalJsonStringExact(json)
    BY <1>1, <1>2, <1>3, <1>5 DEF D, nativeJsonString, canonicalJsonStringExact
  <1> QED
    BY <1>6 DEF canonicalJsonString

---------------------------------------------------------------------------
(* Canonical JSON: texts tell documents apart.                             *)

\* FlattenSeq puts its first sequence first.
LEMMA FlattenFirst ==
    ASSUME NEW S, NEW seqs \in Seq(Seq(S)), seqs # <<>>
    PROVE  FlattenSeq(seqs) = seqs[1] \o FlattenSeq(Tail(seqs))
  <1> DEFINE T == {q \in Seq(Seq(S)) : q # <<>> => FlattenSeq(q) = q[1] \o FlattenSeq(Tail(q))}
  <1>1. <<>> \in T
    OBVIOUS
  <1>2. ASSUME NEW q \in Seq(Seq(S)), NEW s \in Seq(S), q \in T
        PROVE  Append(q, s) \in T
    <2> HIDE DEF T
    <2>1. Append(q, s) \in Seq(Seq(S)) /\ FlattenSeq(Append(q, s)) = FlattenSeq(q) \o s
      BY FlattenAppend, AppendProperties
    <2>2. FlattenSeq(Append(q, s)) = Append(q, s)[1] \o FlattenSeq(Tail(Append(q, s)))
      <3>1. CASE q = <<>>
        <4>1. FlattenSeq(<<>>) = <<>>
          BY DEF FlattenSeq
        <4>2. Append(q, s)[1] = s /\ Tail(Append(q, s)) = <<>>
          BY <3>1, HeadTailAppend
        <4> QED
          BY <2>1, <3>1, <4>1, <4>2, ConcatEmptySeq
      <3>2. CASE q # <<>>
        <4>1. q[1] \in Seq(S) /\ Tail(q) \in Seq(Seq(S)) /\ Len(q) \in Nat \ {0}
          BY <3>2, EmptySeq, HeadTailProperties
        <4>2. Append(q, s)[1] = q[1] /\ Tail(Append(q, s)) = Append(Tail(q), s)
          <5>1. 1 \in 1 .. Len(q)
            BY <4>1
          <5> QED
            BY <3>2, <5>1, HeadTailAppend, AppendProperties
        <4>3. FlattenSeq(Tail(Append(q, s))) = FlattenSeq(Tail(q)) \o s
          BY <4>1, <4>2, FlattenAppend
        <4>4. FlattenSeq(q) = q[1] \o FlattenSeq(Tail(q))
          BY <1>2, <3>2 DEF T
        <4>5. PICK rest \in Seq(S) : rest = FlattenSeq(Tail(q))
          BY <4>1, FlattenType
        <4>6. (q[1] \o rest) \o s = q[1] \o (rest \o s)
          <5>1. PICK first \in Seq(S) : first = q[1]
            BY <4>1
          <5>2. (first \o rest) \o s = first \o (rest \o s)
            OBVIOUS
          <5> QED
            BY <5>1, <5>2
        <4> QED
          BY <2>1, <4>2, <4>3, <4>4, <4>5, <4>6
      <3> QED
        BY <3>1, <3>2
    <2> QED
      BY <2>1, <2>2 DEF T
  <1> HIDE DEF T
  <1>3. Seq(Seq(S)) \subseteq T
    BY <1>1, <1>2, SequencesInSet
  <1> QED
    BY <1>3 DEF T

\* A sequence that is not empty starts what it is the first part of.
LEMMA FirstOfConcat ==
    ASSUME NEW S, NEW s \in Seq(S), NEW t \in Seq(S), s # <<>>
    PROVE  (s \o t)[1] = s[1]
  <1>1. Len(s) \in Nat \ {0}
    BY EmptySeq
  <1>2. 1 \in 1 .. Len(s) + Len(t) /\ 1 <= Len(s)
    BY <1>1
  <1> QED
    BY <1>2, ConcatProperties

\* Two sequences with the same first element and the same rest.
LEMMA FirstAndRest ==
    ASSUME NEW S, NEW s \in Seq(S), NEW t \in Seq(S), s # <<>>, t # <<>>,
           s[1] = t[1], Tail(s) = Tail(t)
    PROVE  s = t
  <1>1. /\ Len(Tail(s)) = Len(s) - 1 /\ Len(Tail(t)) = Len(t) - 1
        /\ \A i \in 1 .. Len(Tail(s)) : Tail(s)[i] = s[i + 1]
        /\ \A i \in 1 .. Len(Tail(t)) : Tail(t)[i] = t[i + 1]
    BY HeadTailProperties
  <1>2. PICK n \in Nat : n = Len(s) /\ n = Len(t)
    <2>1. Len(s) - 1 = Len(t) - 1
      BY <1>1, Zenon
    <2>2. Len(s) \in Nat /\ Len(t) \in Nat
      OBVIOUS
    <2> QED
      BY <2>1, <2>2
  <1>3. ASSUME NEW i \in 1 .. n, i # 1
        PROVE  s[i] = t[i]
    <2>1. PICK j \in 1 .. n - 1 : i = j + 1
      <3>1. i - 1 \in 1 .. n - 1 /\ i = (i - 1) + 1
        BY <1>3
      <3> QED
        BY <3>1
    <2> QED
      BY <1>1, <1>2, <2>1
  <1>4. \A i \in 1 .. n : s[i] = t[i]
    BY <1>3
  <1> QED
    BY <1>2, <1>4, SeqEqual

\* What follows a list follows its items, the first before the others.
ItemFirst(S, items, end) ==
    /\ FlattenSeq(Tail(items)) \in Seq(S)
    /\ FlattenSeq(items) \o end = items[1] \o (FlattenSeq(Tail(items)) \o end)
    /\ FlattenSeq(Tail(items)) \o end \in Seq(S)
    /\ (FlattenSeq(items) \o end)[1] = items[1][1]

\* It is so for every list that is not empty.
LEMMA FirstItem ==
    ASSUME NEW S, NEW items \in Seq(Seq(S)), items # <<>>, items[1] # <<>>, NEW end \in Seq(S)
    PROVE  ItemFirst(S, items, end)
  <1>1. PICK rest \in Seq(S) : rest = FlattenSeq(Tail(items))
    BY HeadTailProperties, FlattenType
  <1>2. PICK first \in Seq(S) : first = items[1] /\ first # <<>>
    <2>1. 1 \in 1 .. Len(items)
      BY EmptySeq
    <2> QED
      BY <2>1
  <1>3. FlattenSeq(items) = first \o rest
    BY <1>1, <1>2, FlattenFirst
  <1>4. (first \o rest) \o end = first \o (rest \o end)
    OBVIOUS
  <1>5. rest \o end \in Seq(S)
    OBVIOUS
  <1>6. (first \o (rest \o end))[1] = first[1]
    BY <1>2, <1>5, FirstOfConcat
  <1> QED
    BY <1>1, <1>2, <1>3, <1>4, <1>5, <1>6 DEF ItemFirst

\* Two texts, with what follows them, are the same.
SameText(x, a, y, b) == x \o a = y \o b

\* The texts of one set are told from those of another, whatever follows them.
ToldApart(S, A, B) ==
    \A x \in A, y \in B : \A a, b \in Seq(S) : SameText(x, a, y, b) => x = y /\ a = b

\* Items of two lists can be told apart, and from the token that closes a list.
Items(S, close, A, B) ==
    /\ close \in S /\ A \subseteq Seq(S) /\ B \subseteq Seq(S)
    /\ \A x \in A \cup B : x # <<>> /\ x[1] # close
    /\ ToldApart(S, A, B)

\* Two lists, with what follows them, have the same text.
SameLists(p, q, close, a, b) ==
    FlattenSeq(p) \o (<<close>> \o a) = FlattenSeq(q) \o (<<close>> \o b)

\* What one list and what follows it are is told by their text.
ListsToldApart(S, close, A, B) ==
    \A xs \in Seq(A), ys \in Seq(B), s, t \in Seq(S) :
       SameLists(xs, ys, close, s, t) => xs = ys /\ s = t

\* A list is told from another by its text, when its items are told from the
\* other's, and none starts with the token that closes the list.
LEMMA ListsTell ==
    ASSUME NEW S, NEW close, NEW A, NEW B, Items(S, close, A, B)
    PROVE  ListsToldApart(S, close, A, B)
  <1> close \in S /\ A \subseteq Seq(S) /\ B \subseteq Seq(S)
    BY DEF Items
  <1>a. (\A x \in A \cup B : x # <<>> /\ x[1] # close) /\ ToldApart(S, A, B)
    BY DEF Items
  <1> DEFINE N == {n \in Nat : \A p \in Seq(A), q \in Seq(B), a, b \in Seq(S) :
                      Len(p) = n /\ SameLists(p, q, close, a, b) => p = q /\ a = b}
  <1> HIDE DEF N
  <1>1. /\ FlattenSeq(<<>>) = <<>>
        /\ \A a \in Seq(S) : /\ <<close>> \o a \in Seq(S) /\ (<<close>> \o a)[1] = close
                             /\ <<>> \o (<<close>> \o a) = <<close>> \o a
                             /\ <<close>> \o a # <<>>
    <2>1. FlattenSeq(<<>>) = <<>>
      BY DEF FlattenSeq
    <2>2. ASSUME NEW a \in Seq(S)
          PROVE  /\ <<close>> \o a \in Seq(S) /\ (<<close>> \o a)[1] = close
                 /\ <<>> \o (<<close>> \o a) = <<close>> \o a
                 /\ <<close>> \o a # <<>>
      <3>1. <<close>> \in Seq(S) /\ <<close>> # <<>> /\ <<close>>[1] = close
        OBVIOUS
      <3>2. <<close>> \o a \in Seq(S) /\ (<<close>> \o a)[1] = close /\ <<close>> \o a # <<>>
        BY <3>1, FirstOfConcat, ConcatProperties, ConcatEqualIffEmpty
      <3> QED
        BY <3>2, ConcatEmptySeq
    <2> QED
      BY <2>1, <2>2
  <1>2. /\ Seq(A) \subseteq Seq(Seq(S)) /\ Seq(B) \subseteq Seq(Seq(S))
    BY SeqMonotonic
  <1>3. ASSUME NEW p \in Seq(A) \cup Seq(B), p # <<>>, NEW a \in Seq(S)
        PROVE  /\ p[1] \in A \cup B /\ p[1] \in Seq(S) /\ FlattenSeq(Tail(p)) \in Seq(S)
               /\ FlattenSeq(p) \o (<<close>> \o a) = p[1] \o (FlattenSeq(Tail(p)) \o (<<close>> \o a))
               /\ FlattenSeq(Tail(p)) \o (<<close>> \o a) \in Seq(S)
               /\ (FlattenSeq(p) \o (<<close>> \o a))[1] # close
    <2>1. p \in Seq(Seq(S)) /\ Len(p) \in Nat \ {0}
      BY <1>2, <1>3, EmptySeq
    <2>2. p[1] \in A \cup B
      BY <1>3, <2>1
    <2>3. p[1] \in Seq(S) /\ p[1] # <<>> /\ p[1][1] # close
      BY <1>a, <2>2
    <2>4. PICK end \in Seq(S) : end = <<close>> \o a
      BY <1>1
    <2>5. /\ FlattenSeq(Tail(p)) \in Seq(S)
          /\ FlattenSeq(p) \o (<<close>> \o a) = p[1] \o (FlattenSeq(Tail(p)) \o (<<close>> \o a))
          /\ FlattenSeq(Tail(p)) \o (<<close>> \o a) \in Seq(S)
          /\ (FlattenSeq(p) \o (<<close>> \o a))[1] = p[1][1]
      <3>1. /\ FlattenSeq(Tail(p)) \in Seq(S)
            /\ FlattenSeq(p) \o end = p[1] \o (FlattenSeq(Tail(p)) \o end)
            /\ FlattenSeq(Tail(p)) \o end \in Seq(S)
            /\ (FlattenSeq(p) \o end)[1] = p[1][1]
        <4>1. ItemFirst(S, p, end)
          BY <1>3, <2>1, <2>3, FirstItem
        <4> QED
          BY <4>1 DEF ItemFirst
      <3> QED
        BY <2>4, <3>1
    <2> QED
      BY <2>2, <2>3, <2>5
  <1>4. 0 \in N
    <2> SUFFICES ASSUME NEW p \in Seq(A), NEW q \in Seq(B), NEW a \in Seq(S), NEW b \in Seq(S),
                        Len(p) = 0, SameLists(p, q, close, a, b)
                 PROVE  p = q /\ a = b
      BY DEF N
    <2>1. p = <<>>
      BY EmptySeq
    <2>2. q = <<>>
      <3>1. (FlattenSeq(q) \o (<<close>> \o b))[1] = close
        <4>1. FlattenSeq(q) \o (<<close>> \o b) = <<close>> \o a
          BY <1>1, <2>1, Zenon DEF SameLists
        <4> QED
          BY <1>1, <4>1
      <3> QED
        BY <1>3, <3>1
    <2>3. <<close>> \o a = <<close>> \o b
      BY <1>1, <2>1, <2>2 DEF SameLists
    <2>4. <<close>> \in Seq(S)
      OBVIOUS
    <2> QED
      BY <2>1, <2>2, <2>3, <2>4, ConcatSimplifications
  <1>5. ASSUME NEW n \in Nat, n \in N
        PROVE  n + 1 \in N
    <2> SUFFICES ASSUME NEW p \in Seq(A), NEW q \in Seq(B), NEW a \in Seq(S), NEW b \in Seq(S),
                        Len(p) = n + 1, SameLists(p, q, close, a, b)
                 PROVE  p = q /\ a = b
      BY DEF N
    <2>1. p # <<>>
      BY EmptySeq
    <2>2. q # <<>>
      <3>1. (FlattenSeq(q) \o (<<close>> \o b))[1] # close
        <4>1. FlattenSeq(q) \o (<<close>> \o b) = FlattenSeq(p) \o (<<close>> \o a)
          BY Zenon DEF SameLists
        <4>2. (FlattenSeq(p) \o (<<close>> \o a))[1] # close
          BY <1>3, <2>1
        <4> QED
          BY <4>1, <4>2, Zenon
      <3> QED
        BY <1>1, <3>1
    <2>3. p[1] \in A /\ q[1] \in B /\ Tail(p) \in Seq(A) /\ Tail(q) \in Seq(B) /\ Len(Tail(p)) = n
      BY <2>1, <2>2, HeadTailProperties
    <2>4. p[1] \o (FlattenSeq(Tail(p)) \o (<<close>> \o a))
            = q[1] \o (FlattenSeq(Tail(q)) \o (<<close>> \o b))
      BY <1>3, <2>1, <2>2 DEF SameLists
    <2>5. p[1] = q[1] /\ SameLists(Tail(p), Tail(q), close, a, b)
      <3>1. /\ FlattenSeq(Tail(p)) \o (<<close>> \o a) \in Seq(S)
            /\ FlattenSeq(Tail(q)) \o (<<close>> \o b) \in Seq(S)
        BY <1>3, <2>1, <2>2
      <3>2. /\ p[1] = q[1]
            /\ FlattenSeq(Tail(p)) \o (<<close>> \o a) = FlattenSeq(Tail(q)) \o (<<close>> \o b)
        <4>1. PICK u \in Seq(S), v \in Seq(S) :
                 /\ u = FlattenSeq(Tail(p)) \o (<<close>> \o a)
                 /\ v = FlattenSeq(Tail(q)) \o (<<close>> \o b)
          BY <3>1
        <4>2. PICK x \in A, y \in B : x = p[1] /\ y = q[1]
          BY <2>3
        <4>3. x \o u = y \o v
          BY <2>4, <4>1, <4>2
        <4>4. x = y /\ u = v
          <5>1. SameText(x, u, y, v)
            BY <4>3, Zenon DEF SameText
          <5> QED
            BY <1>a, <5>1, Zenon DEF ToldApart
        <4> QED
          BY <4>1, <4>2, <4>4
      <3> QED
        BY <3>2, Zenon DEF SameLists
    <2>6. Tail(p) = Tail(q) /\ a = b
      BY <1>5, <2>3, <2>5 DEF N
    <2> QED
      BY <1>2, <2>1, <2>2, <2>5, <2>6, FirstAndRest
  <1>6. Nat \subseteq N
    BY <1>4, <1>5, NumbersInSet
  <1>7. \A xs \in Seq(A) : Len(xs) \in Nat
    OBVIOUS
  <1> QED
    BY <1>6, <1>7, Zenon DEF N, ListsToldApart

\* A token, a text and a token, and what follows.
IsWrapped(S, whole, open, body, close) ==
    /\ whole \in Seq(S) /\ whole # <<>> /\ whole[1] = open
    /\ \A s \in Seq(S) : /\ whole \o s = <<open>> \o (body \o (<<close>> \o s))
                         /\ body \o (<<close>> \o s) \in Seq(S)

\* A text in brackets is a text, and starts with the bracket.
LEMMA Wrapped ==
    ASSUME NEW S, NEW open \in S, NEW close \in S, NEW body \in Seq(S)
    PROVE  IsWrapped(S, <<open>> \o body \o <<close>>, open, body, close)
  <1>1. <<open>> \in Seq(S) /\ <<close>> \in Seq(S)
    OBVIOUS
  <1>2. PICK o \in Seq(S), c \in Seq(S) : o = <<open>> /\ c = <<close>>
    BY <1>1
  <1>3. o[1] = open /\ o # <<>>
    BY <1>2
  <1>4. PICK start \in Seq(S) : start = o \o body
    BY ConcatProperties
  <1>5. start # <<>> /\ start[1] = open
    BY <1>3, <1>4, FirstOfConcat, ConcatEqualIffEmpty
  <1>6. PICK whole \in Seq(S) : whole = start \o c
    BY ConcatProperties
  <1>7. whole # <<>> /\ whole[1] = open
    BY <1>5, <1>6, FirstOfConcat, ConcatEqualIffEmpty
  <1>8. ASSUME NEW s \in Seq(S)
        PROVE  whole \o s = o \o (body \o (c \o s)) /\ body \o (c \o s) \in Seq(S)
    <2>1. PICK end \in Seq(S) : end = c \o s
      BY ConcatProperties
    <2>2. whole \o s = start \o end
      <3>1. Groups(start, c, s)
        BY Regrouped
      <3> QED
        BY <1>6, <2>1, <3>1, Zenon DEF Groups
    <2>3. start \o end = o \o (body \o end)
      <3>1. Groups(o, body, end)
        BY Regrouped
      <3> QED
        BY <1>4, <3>1, Zenon DEF Groups
    <2>4. body \o end \in Seq(S)
      BY ConcatProperties
    <2> QED
      BY <2>1, <2>2, <2>3, <2>4
  <1>9. whole = <<open>> \o body \o <<close>>
    BY <1>2, <1>4, <1>6
  <1>10. \A s \in Seq(S) : /\ whole \o s = <<open>> \o (body \o (<<close>> \o s))
                          /\ body \o (<<close>> \o s) \in Seq(S)
    BY <1>2, <1>8, Zenon
  <1>11. IsWrapped(S, whole, open, body, close)
    BY <1>7, <1>10, Zenon DEF IsWrapped
  <1> QED
    BY <1>9, <1>11, Zenon

\* Two texts that start alike: their first tokens are the same.
LEMMA SameFirst ==
    ASSUME NEW S, NEW s \in Seq(S), NEW t \in Seq(S), NEW a \in Seq(S), NEW b \in Seq(S),
           s # <<>>, t # <<>>, s \o a = t \o b
    PROVE  s[1] = t[1]
  <1>1. (s \o a)[1] = s[1] /\ (t \o b)[1] = t[1]
    BY FirstOfConcat
  <1> QED
    BY <1>1

\* Two texts with a token before both: what follows it is the same.
LEMMA SameRest ==
    ASSUME NEW S, NEW x \in S, NEW a \in Seq(S), NEW b \in Seq(S), <<x>> \o a = <<x>> \o b
    PROVE  a = b
  <1>1. <<x>> \in Seq(S)
    OBVIOUS
  <1> QED
    BY <1>1, ConcatSimplifications

\* The tokens of the texts of documents.
JsonTokens ==
    Brackets \cup ToSet(KeyOrder) \cup {value.token : value \in {v \in Documents : v.kind = "leaf"}}

\* How a text starts says which kind of document it is the text of.
Shaped(g, value) ==
    /\ g[value] \in Seq(JsonTokens) /\ g[value] # <<>>
    /\ value.kind = "leaf" => g[value] = <<value.token>> /\ g[value][1] \notin Brackets
    /\ value.kind = "array" =>
          /\ ItemTexts(g, value) \in Seq({g[part] : part \in Parts(value)})
          /\ FlattenSeq(ItemTexts(g, value)) \in Seq(JsonTokens)
          /\ IsWrapped(JsonTokens, g[value], "[", FlattenSeq(ItemTexts(g, value)), "]")
    /\ value.kind = "object" =>
          LET keys == Sorted(DOMAIN value.entries)
          IN /\ EntryTexts(g, value, keys)
                  \in Seq({<<k>> \o g[value.entries[k]] : k \in DOMAIN value.entries})
             /\ FlattenSeq(EntryTexts(g, value, keys)) \in Seq(JsonTokens)
             /\ IsWrapped(JsonTokens, g[value], "{", FlattenSeq(EntryTexts(g, value, keys)), "}")

\* Every document has a text of that shape.
LEMMA TextShaped ==
    ASSUME NEW g, IsText(g, TRUE), NEW value \in Documents
    PROVE  Shaped(g, value)
  <1> DEFINE D == {v \in Documents : Shaped(g, v)}
  <1>1. ASSUME NEW v \in Documents, \A part \in Parts(v) : g[part] \in Seq(JsonTokens)
        PROVE  Shaped(g, v)
    <2>1. g[v] = Text(g, v, TRUE)
      BY DEF IsText
    <2>2. {"[", "]", "{", "}"} \subseteq JsonTokens
      BY DEF JsonTokens, Brackets
    <2>3. CASE v.kind = "leaf"
      <3>1. v.token \in JsonTokens /\ v.token \notin Brackets
        BY <2>3, DocumentParts DEF JsonTokens
      <3>2. g[v] = <<v.token>>
        BY <2>1, <2>3 DEF Text
      <3> QED
        BY <2>3, <3>1, <3>2 DEF Shaped
    <2>4. CASE v.kind = "array"
      <3> DEFINE items == ItemTexts(g, v)
      <3>1. PICK n \in Nat : DOMAIN v.items = 1 .. n
        BY <2>4, DocumentParts
      <3>2. items = [i \in 1 .. n |-> items[i]]
        BY <3>1 DEF ItemTexts
      <3>3. \A i \in 1 .. n : items[i] = g[v.items[i]] /\ v.items[i] \in Parts(v)
        BY <2>4, <3>1, DocumentParts DEF ItemTexts
      <3> HIDE DEF items
      <3>4. items \in Seq({g[part] : part \in Parts(v)})
        BY <3>2, <3>3, IsSequence
      <3>5. items \in Seq(Seq(JsonTokens))
        BY <1>1, <3>2, <3>3, IsSequence
      <3>6. FlattenSeq(items) \in Seq(JsonTokens)
        BY <3>5, FlattenType
      <3>7. g[v] = <<"[">> \o FlattenSeq(items) \o <<"]">>
        BY <2>1, <2>4 DEF Text, items, ItemTexts
      <3>8. IsWrapped(JsonTokens, g[v], "[", FlattenSeq(items), "]")
        <4>1. "[" \in JsonTokens /\ "]" \in JsonTokens
          BY <2>2
        <4>2. IsWrapped(JsonTokens, <<"[">> \o FlattenSeq(items) \o <<"]">>, "[",
                        FlattenSeq(items), "]")
          BY <3>6, <4>1, Wrapped
        <4> QED
          BY <3>7, <4>2
      <3>9. g[v] \in Seq(JsonTokens) /\ g[v] # <<>>
        BY <3>8 DEF IsWrapped
      <3> QED
        BY <2>4, <3>4, <3>6, <3>8, <3>9 DEF Shaped, items
    <2>5. CASE v.kind = "object"
      <3>1. PICK keys : keys = Sorted(DOMAIN v.entries) /\ keys \in Seq(DOMAIN v.entries)
        BY <2>5, DocumentParts, SortedKeys
      <3> DEFINE entries == EntryTexts(g, v, keys)
      <3>2. PICK n \in Nat : DOMAIN keys = 1 .. n
        BY <3>1
      <3>3. entries = [i \in 1 .. n |-> entries[i]]
        BY <3>2 DEF EntryTexts
      <3>4. \A i \in 1 .. n : /\ entries[i] = <<keys[i]>> \o g[v.entries[keys[i]]]
                              /\ keys[i] \in DOMAIN v.entries
        BY <3>1, <3>2 DEF EntryTexts
      <3> HIDE DEF entries
      <3>5. \A k \in DOMAIN v.entries : <<k>> \o g[v.entries[k]] \in Seq(JsonTokens)
        <4> SUFFICES ASSUME NEW k \in DOMAIN v.entries
                     PROVE  <<k>> \o g[v.entries[k]] \in Seq(JsonTokens)
          OBVIOUS
        <4>1. k \in JsonTokens /\ g[v.entries[k]] \in Seq(JsonTokens)
          BY <1>1, <2>5, DocumentParts DEF JsonTokens
        <4>2. <<k>> \in Seq(JsonTokens)
          BY <4>1
        <4> QED
          BY <4>1, <4>2, ConcatProperties
      <3>6. entries \in Seq({<<k>> \o g[v.entries[k]] : k \in DOMAIN v.entries})
        BY <3>3, <3>4, IsSequence
      <3>7. entries \in Seq(Seq(JsonTokens))
        <4>1. \A i \in 1 .. n : entries[i] \in Seq(JsonTokens)
          BY <3>4, <3>5
        <4> QED
          BY <3>3, <4>1, IsSequence
      <3>8. FlattenSeq(entries) \in Seq(JsonTokens)
        BY <3>7, FlattenType
      <3>9. g[v] = <<"{">> \o FlattenSeq(entries) \o <<"}">>
        BY <2>1, <2>5, <3>1 DEF Text, entries, EntryTexts, KeysOf
      <3>10. IsWrapped(JsonTokens, g[v], "{", FlattenSeq(entries), "}")
        <4>1. "{" \in JsonTokens /\ "}" \in JsonTokens
          BY <2>2
        <4>2. IsWrapped(JsonTokens, <<"{">> \o FlattenSeq(entries) \o <<"}">>, "{",
                        FlattenSeq(entries), "}")
          BY <3>8, <4>1, Wrapped
        <4> QED
          BY <3>9, <4>2
      <3>11. g[v] \in Seq(JsonTokens) /\ g[v] # <<>>
        BY <3>10 DEF IsWrapped
      <3> QED
        BY <2>5, <3>1, <3>6, <3>8, <3>10, <3>11 DEF Shaped, entries
    <2> QED
      BY <2>3, <2>4, <2>5, DocumentParts
  <1>2. ASSUME NEW v \in Documents, Parts(v) \cap Documents \subseteq D
        PROVE  v \in D
    <2>1. \A part \in Parts(v) : g[part] \in Seq(JsonTokens)
      BY <1>2, DocumentParts DEF Shaped
    <2> QED
      BY <1>1, <2>1
  <1> HIDE DEF D
  <1>3. value \in D
    BY <1>2, DocumentsInSet
  <1> QED
    BY <1>3 DEF D

\* The text of one document is told from that of every document, whatever follows.
Told(g, value) ==
    \A w \in Documents : \A s, t \in Seq(JsonTokens) :
       SameText(g[value], s, g[w], t) => value = w /\ s = t

\* Two texts that start with one token are those of documents of one kind, and of
\* the same leaf.
LEMMA KindsTold ==
    ASSUME NEW g, IsText(g, TRUE), NEW v \in Documents, NEW w \in Documents,
           NEW s \in Seq(JsonTokens), NEW t \in Seq(JsonTokens), SameText(g[v], s, g[w], t)
    PROVE  v.kind = w.kind /\ (v.kind = "leaf" => v = w /\ s = t)
  <1>1. Shaped(g, v) /\ Shaped(g, w)
    BY TextShaped
  <1>2. /\ v.kind = "leaf" \/ v.kind = "array" \/ v.kind = "object"
        /\ w.kind = "leaf" \/ w.kind = "array" \/ w.kind = "object"
        /\ v.kind = "leaf" => v = Leaf(v.token)
        /\ w.kind = "leaf" => w = Leaf(w.token)
    BY DocumentsAssumption DEF IsJson
  <1>3. g[v] \in Seq(JsonTokens) /\ g[v] # <<>> /\ g[w] \in Seq(JsonTokens) /\ g[w] # <<>>
    BY <1>1, Zenon DEF Shaped
  <1>4. g[v][1] = g[w][1]
    <2>1. PICK a \in Seq(JsonTokens), b \in Seq(JsonTokens) :
             a = g[v] /\ b = g[w] /\ a # <<>> /\ b # <<>>
      BY <1>3, Zenon
    <2>2. a \o s = b \o t
      BY <2>1, Zenon DEF SameText
    <2>3. a[1] = b[1]
      BY <2>1, <2>2, SameFirst
    <2> QED
      BY <2>1, <2>3, Zenon
  <1>5. /\ v.kind = "leaf" => g[v][1] \notin Brackets
        /\ v.kind = "array" => g[v][1] = "["
        /\ v.kind = "object" => g[v][1] = "{"
        /\ w.kind = "leaf" => g[w][1] \notin Brackets
        /\ w.kind = "array" => g[w][1] = "["
        /\ w.kind = "object" => g[w][1] = "{"
    BY <1>1 DEF Shaped, IsWrapped
  <1>6. v.kind = w.kind
    BY <1>2, <1>4, <1>5 DEF Brackets
  <1>7. ASSUME v.kind = "leaf"
        PROVE  v = w /\ s = t
    <2>1. g[v] = <<v.token>> /\ g[w] = <<w.token>>
      BY <1>1, <1>6, <1>7 DEF Shaped
    <2>2. v.token = w.token
      BY <1>4, <2>1
    <2>3. v = w
      BY <1>2, <1>6, <1>7, <2>2
    <2>4. s = t
      <3>1. g[v] \o s = g[v] \o t
        BY <2>3, Zenon DEF SameText
      <3> QED
        BY <1>3, <3>1, ConcatSimplifications
    <2> QED
      BY <2>3, <2>4
  <1> QED
    BY <1>6, <1>7

\* What two bracketed texts hold, with what follows, is the same when they are.
LEMMA Unwrapped ==
    ASSUME NEW S, NEW x, NEW y, NEW open \in S, NEW close \in S, NEW p, NEW q,
           IsWrapped(S, x, open, FlattenSeq(p), close), IsWrapped(S, y, open, FlattenSeq(q), close),
           NEW s \in Seq(S), NEW t \in Seq(S), SameText(x, s, y, t)
    PROVE  SameLists(p, q, close, s, t)
  <1>1. PICK a \in Seq(S), b \in Seq(S) : /\ a = FlattenSeq(p) \o (<<close>> \o s)
                                          /\ b = FlattenSeq(q) \o (<<close>> \o t)
    BY Zenon DEF IsWrapped
  <1>2. <<open>> \o a = <<open>> \o b
    BY <1>1, Zenon DEF IsWrapped, SameText
  <1>3. a = b
    BY <1>2, SameRest
  <1> QED
    BY <1>1, <1>3, Zenon DEF SameLists

\* Arrays are told apart when their items are.
LEMMA ArraysTold ==
    ASSUME NEW g, IsText(g, TRUE), NEW v \in Documents, NEW w \in Documents,
           v.kind = "array", w.kind = "array", \A part \in Parts(v) : Told(g, part),
           NEW s \in Seq(JsonTokens), NEW t \in Seq(JsonTokens), SameText(g[v], s, g[w], t)
    PROVE  v = w /\ s = t
  <1> DEFINE A == {g[part] : part \in Parts(v)}
             B == {g[part] : part \in Parts(w)}
  <1>1. PICK p \in Seq(A) : /\ p = ItemTexts(g, v)
                            /\ IsWrapped(JsonTokens, g[v], "[", FlattenSeq(p), "]")
    <2>1. Shaped(g, v)
      BY TextShaped
    <2> QED
      BY <2>1 DEF Shaped
  <1>2. PICK q \in Seq(B) : /\ q = ItemTexts(g, w)
                            /\ IsWrapped(JsonTokens, g[w], "[", FlattenSeq(q), "]")
    <2>1. Shaped(g, w)
      BY TextShaped
    <2> QED
      BY <2>1 DEF Shaped
  <1>3. "[" \in JsonTokens /\ "]" \in JsonTokens /\ "[" # "]"
    BY DEF JsonTokens, Brackets
  <1>4. SameLists(p, q, "]", s, t)
    BY <1>1, <1>2, <1>3, Unwrapped
  <1>5. Parts(v) \subseteq Documents /\ Parts(w) \subseteq Documents
    BY DocumentParts
  <1>6. \A part \in Parts(v) \cup Parts(w) :
           g[part] \in Seq(JsonTokens) /\ g[part] # <<>> /\ g[part][1] # "]"
    <2> SUFFICES ASSUME NEW part \in Documents
                 PROVE  g[part] \in Seq(JsonTokens) /\ g[part] # <<>> /\ g[part][1] # "]"
      BY <1>5
    <2>1. Shaped(g, part)
      BY TextShaped
    <2>2. part.kind = "leaf" \/ part.kind = "array" \/ part.kind = "object"
      BY DocumentsAssumption DEF IsJson
    <2> QED
      BY <2>1, <2>2 DEF Shaped, IsWrapped, Brackets
  <1>7. ToldApart(JsonTokens, A, B)
    <2> SUFFICES ASSUME NEW x \in A, NEW y \in B,
                        NEW c \in Seq(JsonTokens), NEW d \in Seq(JsonTokens), SameText(x, c, y, d)
                 PROVE  x = y /\ c = d
      BY Zenon DEF ToldApart
    <2>1. PICK a \in Parts(v), b \in Parts(w) : x = g[a] /\ y = g[b]
      OBVIOUS
    <2>2. Told(g, a) /\ b \in Documents
      BY <1>5
    <2>3. a = b /\ c = d
      BY <2>1, <2>2, Zenon DEF Told
    <2> QED
      BY <2>1, <2>3
  <1>8. A \in SUBSET Seq(JsonTokens) /\ B \in SUBSET Seq(JsonTokens)
    BY <1>6
  <1>9. \A x \in A \cup B : x # <<>> /\ x[1] # "]"
    BY <1>6
  <1> HIDE DEF A, B
  <1>11. p = q /\ s = t
    <2>1. Items(JsonTokens, "]", A, B)
      BY <1>3, <1>7, <1>8, <1>9, Zenon DEF Items
    <2>2. ListsToldApart(JsonTokens, "]", A, B)
      BY <2>1, ListsTell, Zenon
    <2> QED
      BY <1>4, <2>2, Zenon DEF ListsToldApart
  <1>13. DOMAIN v.items = DOMAIN w.items
    BY <1>1, <1>2, <1>11 DEF ItemTexts
  <1>14. \A i \in DOMAIN v.items : v.items[i] = w.items[i]
    <2> SUFFICES ASSUME NEW i \in DOMAIN v.items
                 PROVE  v.items[i] = w.items[i]
      OBVIOUS
    <2>1. v.items[i] \in Parts(v) /\ w.items[i] \in Parts(w)
      BY <1>13, DocumentParts
    <2>2. g[v.items[i]] = g[w.items[i]]
      <3>1. p[i] = g[v.items[i]] /\ q[i] = g[w.items[i]]
        BY <1>1, <1>2, <1>13 DEF ItemTexts
      <3> QED
        BY <1>11, <3>1
    <2>3. Told(g, v.items[i]) /\ w.items[i] \in Documents
      BY <1>5, <2>1
    <2>4. SameText(g[v.items[i]], s, g[w.items[i]], s)
      BY <2>2, Zenon DEF SameText
    <2> QED
      BY <2>3, <2>4, Zenon DEF Told
  <1>15. v.items = w.items
    <2>2. v.items \in Seq(Documents) /\ w.items \in Seq(Documents)
      BY DocumentsAssumption DEF IsJson
    <2> QED
      BY <2>2, <1>13, <1>14
  <1>16. v = Array(v.items) /\ w = Array(w.items)
    BY DocumentsAssumption DEF IsJson
  <1> QED
    BY <1>11, <1>15, <1>16

\* A key and the text of what it holds: a text that the key starts.
IsEntry(S, whole, k, text) ==
    /\ whole \in Seq(S) /\ whole # <<>> /\ whole[1] = k
    /\ \A c \in Seq(S) : whole \o c = <<k>> \o (text \o c) /\ text \o c \in Seq(S)

\* It is so for every key and text.
LEMMA EntryText ==
    ASSUME NEW S, NEW k \in S, NEW text \in Seq(S)
    PROVE  IsEntry(S, <<k>> \o text, k, text)
  <1>1. <<k>> \in Seq(S)
    OBVIOUS
  <1>2. PICK key \in Seq(S) : key = <<k>>
    BY <1>1
  <1>3. key[1] = k /\ key # <<>>
    BY <1>2
  <1>4. key \o text \in Seq(S) /\ key \o text # <<>> /\ (key \o text)[1] = k
    BY <1>3, FirstOfConcat, ConcatProperties, ConcatEqualIffEmpty
  <1>5. \A c \in Seq(S) : (key \o text) \o c = key \o (text \o c) /\ text \o c \in Seq(S)
    <2>1. ASSUME NEW c \in Seq(S)
          PROVE  Groups(key, text, c) /\ text \o c \in Seq(S)
      BY Regrouped, ConcatProperties
    <2> QED
      BY <2>1, Zenon DEF Groups
  <1>6. PICK whole : whole = key \o text
    OBVIOUS
  <1>7. /\ whole \in Seq(S) /\ whole # <<>> /\ whole[1] = k
        /\ \A c \in Seq(S) : whole \o c = <<k>> \o (text \o c) /\ text \o c \in Seq(S)
    BY <1>2, <1>4, <1>5, <1>6
  <1>8. IsEntry(S, whole, k, text)
    BY <1>7, Zenon DEF IsEntry
  <1> QED
    BY <1>2, <1>6, <1>8, Zenon

\* Two entries with the same text have the same key, and values with the same text.
LEMMA SameEntry ==
    ASSUME NEW S, NEW k \in S, NEW l \in S, NEW text \in Seq(S), NEW other \in Seq(S),
           NEW c \in Seq(S), NEW d \in Seq(S),
           SameText(<<k>> \o text, c, <<l>> \o other, d)
    PROVE  k = l /\ SameText(text, c, other, d)
  <1>1. PICK x, y : /\ x = <<k>> \o text /\ IsEntry(S, x, k, text)
                    /\ y = <<l>> \o other /\ IsEntry(S, y, l, other)
    BY EntryText, Zenon
  <1>2. /\ x \in Seq(S) /\ x # <<>> /\ x[1] = k
        /\ y \in Seq(S) /\ y # <<>> /\ y[1] = l
    BY <1>1, Zenon DEF IsEntry
  <1>3. x \o c = y \o d
    BY <1>1, Zenon DEF SameText
  <1>4. k = l
    BY <1>2, <1>3, SameFirst
  <1>5. PICK a \in Seq(S), b \in Seq(S) :
           /\ a = text \o c /\ b = other \o d
           /\ x \o c = <<k>> \o a /\ y \o d = <<l>> \o b
    <2>1. x \o c = <<k>> \o (text \o c) /\ text \o c \in Seq(S)
      BY <1>1, Zenon DEF IsEntry
    <2>2. y \o d = <<l>> \o (other \o d) /\ other \o d \in Seq(S)
      BY <1>1, Zenon DEF IsEntry
    <2> QED
      BY <2>1, <2>2, Zenon
  <1>6. <<k>> \o a = <<k>> \o b
    BY <1>3, <1>4, <1>5, Zenon
  <1>7. a = b
    BY <1>6, SameRest, Zenon
  <1> QED
    BY <1>4, <1>5, <1>7, Zenon DEF SameText

\* Objects are told apart when what they hold is.
LEMMA ObjectsTold ==
    ASSUME NEW g, IsText(g, TRUE), NEW v \in Documents, NEW w \in Documents,
           v.kind = "object", w.kind = "object", \A part \in Parts(v) : Told(g, part),
           NEW s \in Seq(JsonTokens), NEW t \in Seq(JsonTokens), SameText(g[v], s, g[w], t)
    PROVE  v = w /\ s = t
  <1> DEFINE A == {<<k>> \o g[v.entries[k]] : k \in DOMAIN v.entries}
             B == {<<k>> \o g[w.entries[k]] : k \in DOMAIN w.entries}
  <1>1. PICK keys : /\ keys = Sorted(DOMAIN v.entries) /\ keys \in Seq(DOMAIN v.entries)
                    /\ ToSet(keys) = DOMAIN v.entries
    BY DocumentParts, SortedKeys
  <1>2. PICK others : /\ others = Sorted(DOMAIN w.entries) /\ others \in Seq(DOMAIN w.entries)
                      /\ ToSet(others) = DOMAIN w.entries
    BY DocumentParts, SortedKeys
  <1>3. PICK p \in Seq(A) : /\ p = EntryTexts(g, v, keys)
                            /\ IsWrapped(JsonTokens, g[v], "{", FlattenSeq(p), "}")
    <2>1. Shaped(g, v)
      BY TextShaped
    <2> QED
      BY <1>1, <2>1 DEF Shaped
  <1>4. PICK q \in Seq(B) : /\ q = EntryTexts(g, w, others)
                            /\ IsWrapped(JsonTokens, g[w], "{", FlattenSeq(q), "}")
    <2>1. Shaped(g, w)
      BY TextShaped
    <2> QED
      BY <1>2, <2>1 DEF Shaped
  <1>5. "{" \in JsonTokens /\ "}" \in JsonTokens /\ "{" # "}"
    BY DEF JsonTokens, Brackets
  <1>6. SameLists(p, q, "}", s, t)
    BY <1>3, <1>4, <1>5, Unwrapped
  <1>7. /\ \A k \in DOMAIN v.entries : k \in JsonTokens /\ k # "}" /\ v.entries[k] \in Parts(v)
        /\ \A k \in DOMAIN w.entries : k \in JsonTokens /\ k # "}" /\ w.entries[k] \in Parts(w)
    BY DocumentParts, KeyAssumption DEF JsonTokens
  <1>8. Parts(v) \subseteq Documents /\ Parts(w) \subseteq Documents
    BY DocumentParts
  <1>9. \A part \in Parts(v) \cup Parts(w) : g[part] \in Seq(JsonTokens)
    BY <1>8, TextShaped DEF Shaped
  <1>10. \A x \in A \cup B : x \in Seq(JsonTokens) /\ x # <<>> /\ x[1] # "}"
    <2>1. \A k \in JsonTokens : \A text \in Seq(JsonTokens) : k # "}" =>
             /\ <<k>> \o text \in Seq(JsonTokens) /\ <<k>> \o text # <<>>
             /\ (<<k>> \o text)[1] # "}"
      <3> SUFFICES ASSUME NEW k \in JsonTokens, NEW text \in Seq(JsonTokens), k # "}"
                   PROVE  /\ <<k>> \o text \in Seq(JsonTokens) /\ <<k>> \o text # <<>>
                          /\ (<<k>> \o text)[1] # "}"
        BY Zenon
      <3>1. IsEntry(JsonTokens, <<k>> \o text, k, text)
        BY EntryText, Zenon
      <3> QED
        BY <3>1, Zenon DEF IsEntry
    <2> QED
      BY <1>7, <1>9, <2>1
  <1>11. ToldApart(JsonTokens, A, B)
    <2> SUFFICES ASSUME NEW x \in A, NEW y \in B,
                        NEW c \in Seq(JsonTokens), NEW d \in Seq(JsonTokens), SameText(x, c, y, d)
                 PROVE  x = y /\ c = d
      BY Zenon DEF ToldApart
    <2>1. PICK k \in DOMAIN v.entries, l \in DOMAIN w.entries :
             x = <<k>> \o g[v.entries[k]] /\ y = <<l>> \o g[w.entries[l]]
      OBVIOUS
    <2>2. PICK a \in Parts(v), b \in Parts(w) : a = v.entries[k] /\ b = w.entries[l]
      BY <1>7
    <2>3. k = l /\ SameText(g[a], c, g[b], d)
      <3>1. SameText(<<k>> \o g[a], c, <<l>> \o g[b], d)
        BY <2>1, <2>2
      <3>2. k \in JsonTokens /\ l \in JsonTokens /\ g[a] \in Seq(JsonTokens) /\ g[b] \in Seq(JsonTokens)
        BY <1>7, <1>9
      <3> QED
        BY <3>1, <3>2, SameEntry, Zenon
    <2>4. Told(g, a) /\ b \in Documents
      BY <1>8
    <2>5. a = b /\ c = d
      BY <2>3, <2>4, Zenon DEF Told
    <2> QED
      BY <2>1, <2>2, <2>3, <2>5
  <1>12. A \in SUBSET Seq(JsonTokens) /\ B \in SUBSET Seq(JsonTokens)
    BY <1>10
  <1>13. \A x \in A \cup B : x # <<>> /\ x[1] # "}"
    BY <1>10
  <1> HIDE DEF A, B
  <1>14. p = q /\ s = t
    <2>1. Items(JsonTokens, "}", A, B)
      BY <1>5, <1>11, <1>12, <1>13, Zenon DEF Items
    <2>2. ListsToldApart(JsonTokens, "}", A, B)
      BY <2>1, ListsTell, Zenon
    <2> QED
      BY <1>6, <2>2, Zenon DEF ListsToldApart
  <1>15. DOMAIN keys = DOMAIN others
    BY <1>3, <1>4, <1>14 DEF EntryTexts
  <1>16. \A i \in DOMAIN keys : keys[i] = others[i] /\ v.entries[keys[i]] = w.entries[keys[i]]
    <2> SUFFICES ASSUME NEW i \in DOMAIN keys
                 PROVE  keys[i] = others[i] /\ v.entries[keys[i]] = w.entries[keys[i]]
      OBVIOUS
    <2>1. PICK k \in DOMAIN v.entries, l \in DOMAIN w.entries : k = keys[i] /\ l = others[i]
      BY <1>1, <1>2, <1>15
    <2>2. PICK a \in Parts(v), b \in Parts(w) : a = v.entries[k] /\ b = w.entries[l]
      BY <1>7
    <2>3. p[i] = <<k>> \o g[a] /\ q[i] = <<l>> \o g[b]
      BY <1>3, <1>4, <1>15, <2>1, <2>2 DEF EntryTexts
    <2>4. SameText(<<k>> \o g[a], s, <<l>> \o g[b], s)
      <3>1. <<k>> \o g[a] = <<l>> \o g[b]
        BY <1>14, <2>3
      <3> QED
        BY <3>1, Zenon DEF SameText
    <2>5. k = l /\ SameText(g[a], s, g[b], s)
      <3>1. k \in JsonTokens /\ l \in JsonTokens /\ g[a] \in Seq(JsonTokens) /\ g[b] \in Seq(JsonTokens)
        BY <1>7, <1>9
      <3> QED
        BY <2>4, <3>1, SameEntry, Zenon
    <2>6. a = b
      <3>1. Told(g, a) /\ b \in Documents
        BY <1>8
      <3> QED
        BY <2>5, <3>1, Zenon DEF Told
    <2> QED
      BY <2>1, <2>2, <2>5, <2>6
  <1>17. DOMAIN v.entries = DOMAIN w.entries
    <2>1. /\ DOMAIN v.entries = {keys[i] : i \in DOMAIN keys}
          /\ DOMAIN w.entries = {others[i] : i \in DOMAIN others}
      BY <1>1, <1>2, Zenon DEF ToSet
    <2>2. \A k : (\E i \in DOMAIN keys : k = keys[i]) <=> (\E i \in DOMAIN others : k = others[i])
      BY <1>15, <1>16, Zenon
    <2>3. PICK K, L : K = DOMAIN v.entries /\ L = DOMAIN w.entries
      OBVIOUS
    <2>4. \A k : k \in K <=> \E i \in DOMAIN keys : k = keys[i]
      <3>1. K = {keys[i] : i \in DOMAIN keys}
        BY <2>1, <2>3, Zenon
      <3> QED
        BY <3>1
    <2>5. \A k : k \in L <=> \E i \in DOMAIN others : k = others[i]
      <3>1. L = {others[i] : i \in DOMAIN others}
        BY <2>1, <2>3, Zenon
      <3> QED
        BY <3>1
    <2>6. \A k : k \in K <=> k \in L
      BY <2>2, <2>4, <2>5, Zenon
    <2>7. K = L
      BY <2>6
    <2> QED
      BY <2>3, <2>7
  <1>18. \A k \in DOMAIN v.entries : v.entries[k] = w.entries[k]
    BY <1>1, <1>16 DEF ToSet
  <1>19. v.entries = w.entries
    BY <1>17, <1>18, DocumentParts
  <1>20. v = Object(v.entries) /\ w = Object(w.entries)
    BY DocumentParts
  <1> QED
    BY <1>14, <1>19, <1>20

\* The text of every document tells it from every other, and where it ends.
LEMMA TextsTold ==
    ASSUME NEW g, IsText(g, TRUE), NEW value \in Documents
    PROVE  Told(g, value)
  <1> DEFINE D == {v \in Documents : Told(g, v)}
  <1>1. ASSUME NEW v \in Documents, Parts(v) \cap Documents \subseteq D
        PROVE  Told(g, v)
    <2>1. \A part \in Parts(v) : Told(g, part)
      BY <1>1, DocumentParts
    <2> HIDE DEF D
    <2> SUFFICES ASSUME NEW w \in Documents, NEW s \in Seq(JsonTokens), NEW t \in Seq(JsonTokens),
                        SameText(g[v], s, g[w], t)
                 PROVE  v = w /\ s = t
      BY Zenon DEF Told
    <2>2. v.kind = w.kind /\ (v.kind = "leaf" => v = w /\ s = t)
      BY KindsTold
    <2>3. v.kind \in {"leaf", "array", "object"}
      BY DocumentParts
    <2>4. CASE v.kind = "leaf"
      BY <2>2, <2>4
    <2>5. CASE v.kind = "array"
      BY <2>1, <2>2, <2>5, ArraysTold
    <2>6. CASE v.kind = "object"
      BY <2>1, <2>2, <2>6, ObjectsTold
    <2> QED
      BY <2>3, <2>4, <2>5, <2>6
  <1>2. ASSUME NEW v \in Documents, Parts(v) \cap Documents \subseteq D
        PROVE  v \in D
    BY <1>1, <1>2
  <1> HIDE DEF D
  <1>3. value \in D
    BY <1>2, DocumentsInSet
  <1> QED
    BY <1>3 DEF D

\* The text of a document is made of tokens.
LEMMA CanonicalTexts ==
    ASSUME NEW json \in Documents
    PROVE  canonicalJsonString(json) \in Seq(JsonTokens)
  <1>1. PICK exact : IsText(exact, TRUE) /\ \A value : Encode(value, TRUE) = exact[value]
    BY EncodeIsText
  <1>2. exact[json] \in Seq(JsonTokens)
    BY <1>1, TextShaped DEF Shaped
  <1> QED
    BY <1>1, <1>2, FastPathIsExact DEF canonicalJsonStringExact

\* Two documents with one canonical text are one document: canonicalJsonString
\* loses nothing that a payload's primary key could need.
THEOREM CanonicalTextsTell ==
    ASSUME NEW json \in Documents, NEW other \in Documents,
           canonicalJsonString(json) = canonicalJsonString(other)
    PROVE  json = other
  <1>1. PICK exact : IsText(exact, TRUE) /\ \A value : Encode(value, TRUE) = exact[value]
    BY EncodeIsText
  <1>2. exact[json] = exact[other]
    BY <1>1, FastPathIsExact DEF canonicalJsonStringExact
  <1>3. Told(exact, json)
    BY <1>1, TextsTold
  <1>4. SameText(exact[json], <<>>, exact[other], <<>>)
    BY <1>2, Zenon DEF SameText
  <1>5. <<>> \in Seq(JsonTokens)
    OBVIOUS
  <1> QED
    BY <1>3, <1>4, <1>5, Zenon DEF Told
=============================================================================
