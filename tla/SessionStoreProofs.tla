-------------------------- MODULE SessionStoreProofs --------------------------
(***************************************************************************)
(* Proofs about SessionStore for every number of requests, sessions and    *)
(* streams, all limits and all delays that satisfy the assumptions.        *)
(*                                                                         *)
(* BytesOf is defined by recursion.  What it computes is proved from the   *)
(* least-number principle for sets of naturals: a least counterexample     *)
(* would have a predecessor that is one too.                               *)
(***************************************************************************)
EXTENDS SessionStore, FiniteSetTheorems, SequenceTheorems, TLAPS

-----------------------------------------------------------------------------
(* Sums of wire bytes *)

\* Every nonempty set of naturals has a least element.
LEMMA LeastNatural ==
    ASSUME NEW T, T \subseteq Nat, T # {}
    PROVE  \E m \in T : \A n \in T : m <= n
<1> DEFINE R == {p \in Nat \X Nat : p[1] < p[2]}
<1>1. IsWellFoundedOn(R, Nat)
  <2>1. R = OpToRel(<, Nat)
    BY DEF OpToRel
  <2> QED BY <2>1, NatLessThanWellFounded
<1>2. PICK m \in T : \A n \in T : <<n, m>> \notin R
  <2> HIDE DEF R
  <2> QED BY <1>1, WFMin
<1>3. \A n \in T : ~(n < m)
  BY <1>2
<1> QED BY <1>3

\* Lengths and sizes are natural numbers.
LEMMA SizesNatural ==
    ASSUME NEW z \in Seq(Stream)
    PROVE  Len(z) \in Nat /\ \A i \in 1..Len(z) : z[i] \in Stream /\ z[i].bytes \in Nat
<1>1. Len(z) \in Nat
  BY LenProperties
<1>2. ASSUME NEW i \in 1..Len(z) PROVE z[i] \in Stream /\ z[i].bytes \in Nat
  <2>1. z[i] \in Stream
    BY ElementOfSeq
  <2> QED BY <2>1 DEF Stream
<1> QED BY <1>1, <1>2

\* f[n] is the size of the first n streams.
IsSum(f, streams) ==
    f = [n \in 0..Len(streams) |-> IF n = 0 THEN 0 ELSE f[n - 1] + streams[n].bytes]

Sizes(streams) == CHOOSE f : IsSum(f, streams)

\* The recursion in BytesOf has a solution in the naturals.
LEMMA SumExists ==
    ASSUME NEW z \in Seq(Stream)
    PROVE  \E f \in [0..Len(z) -> Nat] : IsSum(f, z)
<1> DEFINE Partial(n, g) == /\ g \in [0..n -> Nat] /\ g[0] = 0
                            /\ \A i \in 1..n : g[i] = g[i - 1] + z[i].bytes
<1> DEFINE Bad == {n \in 0..Len(z) : ~\E g : Partial(n, g)}
<1>0. Len(z) \in Nat /\ \A i \in 1..Len(z) : z[i].bytes \in Nat
  BY SizesNatural
<1>1. Bad = {}
  <2> SUFFICES ASSUME Bad # {} PROVE FALSE
    OBVIOUS
  <2>1. PICK m \in Bad : \A n \in Bad : m <= n
    <3>1. Bad \subseteq Nat
      BY <1>0
    <3> HIDE DEF Bad
    <3> QED BY <3>1, LeastNatural
  <2>2. m \in 0..Len(z)
    OBVIOUS
  <2>3. CASE m = 0
    <3>1. Partial(0, [i \in 0..0 |-> 0])
      OBVIOUS
    <3> QED BY <2>1, <2>3, <3>1
  <2>4. CASE m # 0
    <3>1. m - 1 \in 0..Len(z) /\ m - 1 \notin Bad
      BY <1>0, <2>1, <2>2, <2>4
    <3>2. PICK g : Partial(m - 1, g)
      BY <3>1
    <3> DEFINE h == [i \in 0..m |-> IF i = m THEN g[m - 1] + z[m].bytes ELSE g[i]]
    <3>3. g[m - 1] + z[m].bytes \in Nat
      BY <1>0, <2>2, <2>4, <3>2
    <3>4. h \in [0..m -> Nat]
      BY <2>2, <2>4, <3>2, <3>3
    <3>5. h[0] = 0
      BY <2>2, <2>4, <3>2
    <3>6. ASSUME NEW i \in 1..m PROVE h[i] = h[i - 1] + z[i].bytes
      <4>1. CASE i = m
        BY <2>2, <2>4, <3>2, <4>1
      <4>2. CASE i # m
        <5>1. i \in 1..(m - 1) /\ i \in 0..m /\ i - 1 \in 0..m /\ i - 1 # m
          BY <2>2, <3>6, <4>2
        <5> QED BY <3>2, <4>2, <5>1
      <4> QED BY <4>1, <4>2
    <3>7. Partial(m, h)
      BY <3>4, <3>5, <3>6
    <3> QED BY <2>1, <3>7
  <2> QED BY <2>3, <2>4
<1>2. PICK g : Partial(Len(z), g)
  BY <1>0, <1>1
<1>3. IsSum(g, z)
  <2>1. ASSUME NEW n \in 0..Len(z) PROVE g[n] = IF n = 0 THEN 0 ELSE g[n - 1] + z[n].bytes
    BY <1>0, <1>2
  <2> QED BY <1>2, <2>1 DEF IsSum
<1> QED BY <1>2, <1>3

\* What the size of the first n streams is, without the recursion.
LEMMA SumDef ==
    ASSUME NEW z \in Seq(Stream)
    PROVE  /\ BytesOf(z) = Sizes(z)[Len(z)]
           /\ Sizes(z)[0] = 0
           /\ \A n \in 0..Len(z) : Sizes(z)[n] \in Nat
           /\ \A n \in 1..Len(z) : Sizes(z)[n] = Sizes(z)[n - 1] + z[n].bytes
<1>0. Len(z) \in Nat /\ \A i \in 1..Len(z) : z[i].bytes \in Nat
  BY SizesNatural
<1>1. BytesOf(z) = Sizes(z)[Len(z)]
  BY DEF BytesOf, Sizes, IsSum
<1>2. IsSum(Sizes(z), z)
  BY SumExists DEF Sizes
<1> DEFINE S == Sizes(z)
<1>3. S = [n \in 0..Len(z) |-> IF n = 0 THEN 0 ELSE S[n - 1] + z[n].bytes]
  BY <1>2 DEF IsSum
<1> HIDE DEF S
<1>4. S[0] = 0
  BY <1>0, <1>3
<1>5. \A n \in 1..Len(z) : S[n] = S[n - 1] + z[n].bytes
  BY <1>0, <1>3
<1> DEFINE Bad == {n \in 0..Len(z) : S[n] \notin Nat}
<1>6. Bad = {}
  <2> SUFFICES ASSUME Bad # {} PROVE FALSE
    OBVIOUS
  <2>1. PICK m \in Bad : \A n \in Bad : m <= n
    <3>1. Bad \subseteq Nat
      BY <1>0
    <3> HIDE DEF Bad
    <3> QED BY <3>1, LeastNatural
  <2>2. m \in 1..Len(z)
    BY <1>0, <1>4
  <2>3. m - 1 \in 0..Len(z) /\ m - 1 \notin Bad
    BY <1>0, <2>1, <2>2
  <2> QED BY <1>0, <1>5, <2>2, <2>3
<1> QED BY <1>1, <1>4, <1>5, <1>6 DEF S

\* A run of streams has the same size wherever it is in a sequence.
LEMMA SumShift ==
    ASSUME NEW y \in Seq(Stream), NEW z \in Seq(Stream), NEW k \in Nat, NEW n \in 0..Len(y),
           k + n <= Len(z), \A i \in 1..n : y[i] = z[k + i]
    PROVE  Sizes(y)[n] = Sizes(z)[k + n] - Sizes(z)[k]
<1> DEFINE Bad == {i \in 0..n : Sizes(y)[i] # Sizes(z)[k + i] - Sizes(z)[k]}
<1>0. Len(y) \in Nat /\ Len(z) \in Nat /\ n \in Nat
  BY LenProperties
<1>1. ASSUME Bad # {} PROVE FALSE
  <2>1. PICK m \in Bad : \A i \in Bad : m <= i
    <3>1. Bad \subseteq Nat
      BY <1>0
    <3> HIDE DEF Bad
    <3> QED BY <1>1, <3>1, LeastNatural
  <2>2. Sizes(y)[0] = 0 /\ Sizes(z)[k] \in Nat
    BY <1>0, SumDef
  <2>3. m \in 1..n
    BY <1>0, <2>2
  <2>4. m - 1 \in 0..n /\ m - 1 \notin Bad
    BY <1>0, <2>1, <2>3
  <2>5. Sizes(y)[m - 1] = Sizes(z)[k + (m - 1)] - Sizes(z)[k]
    BY <2>4
  <2>6. Sizes(y)[m] = Sizes(y)[m - 1] + y[m].bytes /\ Sizes(y)[m - 1] \in Nat
    BY <1>0, <2>3, SumDef
  <2>7. Sizes(z)[k + m] = Sizes(z)[k + (m - 1)] + z[k + m].bytes
    <3>1. k + m \in 1..Len(z) /\ (k + m) - 1 = k + (m - 1)
      BY <1>0, <2>3
    <3> QED BY <3>1, SumDef
  <2>8. y[m] = z[k + m] /\ y[m].bytes \in Nat /\ Sizes(z)[k + (m - 1)] \in Nat
    <3>1. m \in 1..Len(y) /\ k + (m - 1) \in 0..Len(z)
      BY <1>0, <2>3
    <3>2. y[m] \in Stream
      BY <3>1, ElementOfSeq
    <3> QED BY <2>3, <3>1, <3>2, SumDef DEF Stream
  <2>9. Sizes(y)[m] = Sizes(z)[k + m] - Sizes(z)[k]
    <3> HIDE DEF Bad
    <3> QED BY <2>2, <2>5, <2>6, <2>7, <2>8
  <2> QED BY <2>1, <2>9
<1>2. n \in 0..n
  BY <1>0
<1> QED BY <1>1, <1>2

\* The size of a prefix, of what is left without it and of a longer sequence.
LEMMA BytesOfPrefix ==
    ASSUME NEW z \in Seq(Stream), NEW k \in 0..Len(z)
    PROVE  SubSeq(z, 1, k) \in Seq(Stream) /\ BytesOf(SubSeq(z, 1, k)) = Sizes(z)[k]
<1> DEFINE y == SubSeq(z, 1, k)
<1>0. Len(z) \in Nat /\ k \in Nat /\ k <= Len(z) /\ \A i \in 1..k : z[i] \in Stream
  BY SizesNatural
<1>1. y \in Seq(Stream) /\ Len(y) = k /\ \A i \in 1..k : y[i] = z[i]
  <2>1. /\ y \in Seq(Stream) /\ Len(y) = IF 1 <= k THEN k - 1 + 1 ELSE 0
        /\ \A i \in 1..(k - 1 + 1) : y[i] = z[1 + i - 1]
    BY <1>0, SubSeqProperties
  <2>2. k - 1 + 1 = k /\ \A i \in 1..k : 1 + i - 1 = i
    BY <1>0
  <2> HIDE DEF y
  <2> QED BY <1>0, <2>1, <2>2
<1> HIDE DEF y
<1>2. Sizes(y)[k] = Sizes(z)[0 + k] - Sizes(z)[0]
  BY <1>0, <1>1, SumShift
<1>3. Sizes(z)[0] = 0 /\ Sizes(z)[k] \in Nat /\ BytesOf(y) = Sizes(y)[Len(y)]
  BY <1>0, <1>1, SumDef
<1> QED BY <1>0, <1>1, <1>2, <1>3 DEF y

LEMMA BytesOfRest ==
    ASSUME NEW z \in Seq(Stream), NEW k \in 0..Len(z)
    PROVE  LET y == SubSeq(z, k + 1, Len(z)) IN
           /\ y \in Seq(Stream) /\ Len(y) = Len(z) - k
           /\ \A i \in 1..Len(y) : y[i] = z[k + i]
           /\ BytesOf(y) = BytesOf(z) - Sizes(z)[k]
<1> DEFINE y == SubSeq(z, k + 1, Len(z))
<1>0. Len(z) \in Nat /\ k \in Nat /\ k <= Len(z) /\ \A i \in (k + 1)..Len(z) : z[i] \in Stream
  BY SizesNatural
<1>1. y \in Seq(Stream) /\ Len(y) = Len(z) - k /\ \A i \in 1..Len(y) : y[i] = z[k + i]
  <2>1. /\ y \in Seq(Stream) /\ Len(y) = IF k + 1 <= Len(z) THEN Len(z) - (k + 1) + 1 ELSE 0
        /\ \A i \in 1..(Len(z) - (k + 1) + 1) : y[i] = z[(k + 1) + i - 1]
    BY <1>0, SubSeqProperties
  <2>2. Len(z) - (k + 1) + 1 = Len(z) - k /\ \A i \in 1..(Len(z) - k) : (k + 1) + i - 1 = k + i
    BY <1>0
  <2> HIDE DEF y
  <2>3. Len(y) = Len(z) - k
    BY <1>0, <2>1
  <2>4. ASSUME NEW i \in 1..Len(y) PROVE y[i] = z[k + i]
    BY <2>1, <2>2, <2>3
  <2> QED BY <2>1, <2>3, <2>4
<1> HIDE DEF y
<1>2. Len(y) \in 0..Len(y) /\ k + Len(y) = Len(z) /\ k + Len(y) <= Len(z)
  BY <1>0, <1>1
<1>3. Sizes(y)[Len(y)] = Sizes(z)[k + Len(y)] - Sizes(z)[k]
  <2>1. k \in Nat /\ y \in Seq(Stream) /\ \A i \in 1..Len(y) : y[i] = z[k + i]
    BY <1>0, <1>1
  <2> QED BY <1>2, <2>1, SumShift
<1>4. BytesOf(y) = Sizes(y)[Len(y)] /\ BytesOf(z) = Sizes(z)[Len(z)]
  BY <1>1, SumDef
<1>5. BytesOf(y) = BytesOf(z) - Sizes(z)[k]
  BY <1>2, <1>3, <1>4
<1> QED BY <1>1, <1>5 DEF y

LEMMA BytesOfAppend ==
    ASSUME NEW z \in Seq(Stream), NEW e \in Stream
    PROVE  BytesOf(Append(z, e)) = BytesOf(z) + e.bytes
<1> DEFINE y == Append(z, e)
<1>0. Len(z) \in Nat
  BY SizesNatural
<1>1. /\ y \in Seq(Stream) /\ Len(y) = Len(z) + 1 /\ y[Len(z) + 1] = e
      /\ \A i \in 1..Len(z) : y[i] = z[i]
  BY AppendProperties
<1> HIDE DEF y
<1>2. Sizes(z)[Len(z)] = Sizes(y)[0 + Len(z)] - Sizes(y)[0]
  <2>1. Len(z) \in 0..Len(z) /\ 0 + Len(z) <= Len(y) /\ \A i \in 1..Len(z) : z[i] = y[0 + i]
    BY <1>0, <1>1
  <2> QED BY <1>1, <2>1, SumShift
<1>3. Sizes(y)[0] = 0 /\ Sizes(y)[Len(z)] \in Nat /\ Sizes(y)[Len(z) + 1] = Sizes(y)[Len(z)] + e.bytes
  <2>1. Len(z) \in 0..Len(y) /\ Len(z) + 1 \in 1..Len(y) /\ (Len(z) + 1) - 1 = Len(z)
    BY <1>0, <1>1
  <2> QED BY <1>1, <2>1, SumDef
<1>4. BytesOf(y) = Sizes(y)[Len(y)] /\ BytesOf(z) = Sizes(z)[Len(z)]
  BY <1>1, SumDef
<1> QED BY <1>0, <1>1, <1>2, <1>3, <1>4 DEF y

-----------------------------------------------------------------------------
(* The eviction loop *)

\* The accounts of one session: what StoreBounded says of a record.
Balanced(record) ==
    /\ record \in Record
    /\ record.replayBytes = BytesOf(record.streams)
    /\ record.replayBytes <= MaxReplayBytes
    /\ Len(record.streams) <= MaxStreams

\* The eviction loop of record_sse_response_at ends with room for the new
\* response, as soon as there is: it does not run out of streams before.
LEMMA EvictionMakesRoom ==
    ASSUME NEW record, Balanced(record), NEW retained \in Nat, retained <= MaxReplayBytes
    PROVE  LET k == Evicted(record, retained) IN
           /\ k \in 0..Len(record.streams)
           /\ Len(record.streams) - k < MaxStreams
           /\ record.replayBytes - Sizes(record.streams)[k] + retained <= MaxReplayBytes
           /\ \A n \in 0..(k - 1) :
                 ~ /\ Len(record.streams) - n < MaxStreams
                   /\ record.replayBytes - Sizes(record.streams)[n] + retained <= MaxReplayBytes
<1> DEFINE z == record.streams
<1> DEFINE fits(n) == /\ Len(z) - n < MaxStreams
                      /\ record.replayBytes - BytesOf(SubSeq(z, 1, n)) + retained <= MaxReplayBytes
<1> DEFINE Fits == {n \in 0..Len(z) : fits(n)}
<1>0. z \in Seq(Stream) /\ Len(z) \in Nat /\ record.replayBytes \in Nat
      /\ MaxStreams \in Nat \ {0} /\ MaxReplayBytes \in Nat
  <2>1. z \in Seq(Stream) /\ record.replayBytes \in Nat
    BY DEF Balanced, Record
  <2> QED BY <2>1, SizesNatural, BoundsAssumption
<1>1. Len(z) \in Fits
  <2>1. Len(z) \in 0..Len(z)
    BY <1>0
  <2>2. BytesOf(SubSeq(z, 1, Len(z))) = record.replayBytes
    <3>1. BytesOf(SubSeq(z, 1, Len(z))) = Sizes(z)[Len(z)]
      BY <1>0, <2>1, BytesOfPrefix
    <3> QED BY <1>0, <3>1, SumDef DEF Balanced
  <2>3. fits(Len(z))
    BY <1>0, <2>2
  <2> QED BY <2>1, <2>3
<1>2. PICK m \in Fits : \A n \in Fits : m <= n
  <2>1. Fits \subseteq Nat /\ Fits # {}
    BY <1>0, <1>1
  <2> HIDE DEF Fits
  <2> QED BY <2>1, LeastNatural
<1>3. m \in 0..Len(z) /\ fits(m) /\ \A n \in 0..(m - 1) : ~fits(n)
  <2>1. \A n \in 0..(m - 1) : n \in 0..Len(z) /\ ~(m <= n)
    BY <1>0
  <2> QED BY <1>2, <2>1
<1> DEFINE k == Evicted(record, retained)
<1>4. k = CHOOSE n \in 0..Len(z) : fits(n) /\ \A j \in 0..(n - 1) : ~fits(j)
  BY DEF Evicted
<1> HIDE DEF fits
<1>5. k \in 0..Len(z) /\ fits(k) /\ \A n \in 0..(k - 1) : ~fits(n)
  BY <1>3, <1>4
<1>6. \A n \in 0..k : BytesOf(SubSeq(z, 1, n)) = Sizes(z)[n]
  <2>1. \A n \in 0..k : n \in 0..Len(z)
    BY <1>0, <1>5
  <2> QED BY <1>0, <2>1, BytesOfPrefix
<1> HIDE DEF k
<1>7. k \in 0..k /\ \A n \in 0..(k - 1) : n \in 0..k
  BY <1>0, <1>5
<1> QED BY <1>5, <1>6, <1>7 DEF fits, k

\* A recorded response keeps the accounts of its session balanced, is the last
\* of its streams and brings no other stream in.
LEMMA RecordingBalances ==
    ASSUME NEW record, Balanced(record), NEW x \in StreamIds, NEW data \in DataSizes,
           data <= MaxEventBytes
    PROVE  LET new == Recorded(record, x, WireLen(data)) IN
           /\ Balanced(new)
           /\ Len(new.streams) > 0 /\ new.streams[Len(new.streams)].id = x
           /\ \A i \in DOMAIN new.streams :
                 \/ new.streams[i].id = x
                 \/ \E j \in DOMAIN record.streams : new.streams[i] = record.streams[j]
<1> DEFINE z == record.streams
           retained == WireLen(data)
           k == Evicted(record, retained)
           y == SubSeq(z, k + 1, Len(z))
           e == [id |-> x, bytes |-> retained]
           new == Recorded(record, x, retained)
<1>0. z \in Seq(Stream) /\ Len(z) \in Nat /\ record.replayBytes \in Nat /\ record \in Record
      /\ record.replayBytes = BytesOf(z) /\ DOMAIN z = 1..Len(z)
      /\ MaxStreams \in Nat \ {0} /\ MaxReplayBytes \in Nat
  <2>1. z \in Seq(Stream) /\ record.replayBytes \in Nat /\ record \in Record
        /\ record.replayBytes = BytesOf(z)
    BY DEF Balanced, Record
  <2> QED BY <2>1, LenProperties, BoundsAssumption
<1>1. retained \in Nat /\ retained <= MaxReplayBytes /\ e \in Stream
  BY BoundsAssumption DEF WireLen, Stream
<1>2. /\ k \in 0..Len(z) /\ Len(z) - k < MaxStreams
      /\ record.replayBytes - Sizes(z)[k] + retained <= MaxReplayBytes
  BY <1>1, EvictionMakesRoom
<1>3. Sizes(z)[k] \in Nat /\ BytesOf(SubSeq(z, 1, k)) = Sizes(z)[k]
  BY <1>0, <1>2, SumDef, BytesOfPrefix
<1>4. /\ y \in Seq(Stream) /\ Len(y) = Len(z) - k
      /\ \A i \in 1..Len(y) : y[i] = z[k + i]
      /\ BytesOf(y) = BytesOf(z) - Sizes(z)[k]
  BY <1>0, <1>2, BytesOfRest
<1>5. new = [record EXCEPT !.replayBytes = record.replayBytes - Sizes(z)[k] + retained,
                           !.streams = Append(y, e)]
  BY <1>3 DEF Recorded
<1>6. new.replayBytes = record.replayBytes - Sizes(z)[k] + retained /\ new.streams = Append(y, e)
  BY <1>0, <1>5 DEF Record
<1> HIDE DEF y, k, retained, e, new
<1>7. /\ Append(y, e) \in Seq(Stream) /\ Len(Append(y, e)) = Len(y) + 1
      /\ Append(y, e)[Len(y) + 1] = e
      /\ \A i \in 1..Len(y) : Append(y, e)[i] = y[i]
      /\ DOMAIN Append(y, e) = 1..(Len(y) + 1)
  <2>1. /\ Append(y, e) \in Seq(Stream) /\ Len(Append(y, e)) = Len(y) + 1
        /\ Append(y, e)[Len(y) + 1] = e
        /\ \A i \in 1..Len(y) : Append(y, e)[i] = y[i]
    BY <1>1, <1>4, AppendProperties
  <2> QED BY <2>1, LenProperties
<1>8. BytesOf(Append(y, e)) = new.replayBytes
  <2>1. BytesOf(Append(y, e)) = BytesOf(y) + e.bytes
    BY <1>1, <1>4, BytesOfAppend
  <2>2. e.bytes = retained
    BY DEF e
  <2> QED BY <1>0, <1>1, <1>3, <1>4, <1>6, <2>1, <2>2
<1>9. new.replayBytes \in Nat
  <2>1. BytesOf(y) \in Nat
    <3>1. y \in Seq(Stream)
      BY <1>4
    <3>2. Len(y) \in 0..Len(y)
      BY <3>1, SizesNatural
    <3> QED BY <3>1, <3>2, SumDef
  <2> QED BY <1>0, <1>1, <1>3, <1>4, <1>6, <2>1
<1>10. new \in Record
  BY <1>0, <1>5, <1>6, <1>7, <1>9 DEF Record
<1>11. Balanced(new)
  <2>1. Len(new.streams) <= MaxStreams
    BY <1>0, <1>2, <1>4, <1>6, <1>7
  <2> QED BY <1>2, <1>6, <1>8, <1>10, <2>1 DEF Balanced
<1>12. Len(new.streams) > 0 /\ new.streams[Len(new.streams)].id = x
  BY <1>0, <1>2, <1>4, <1>6, <1>7 DEF e
<1>13. ASSUME NEW i \in DOMAIN new.streams
       PROVE  new.streams[i].id = x \/ \E j \in DOMAIN z : new.streams[i] = z[j]
  <2>1. CASE i = Len(y) + 1
    BY <1>6, <1>7, <2>1 DEF e
  <2>2. CASE i \in 1..Len(y)
    <3>1. new.streams[i] = z[k + i]
      BY <1>4, <1>6, <1>7, <2>2
    <3>2. k \in 0..Len(z) /\ Len(y) = Len(z) - k /\ Len(z) \in Nat
      BY <1>0, <1>2, <1>4
    <3>3. k + i \in 1..Len(z)
      BY <2>2, <3>2
    <3> QED BY <1>0, <3>1, <3>3
  <2>3. i \in 1..(Len(y) + 1) /\ Len(y) \in Nat
    <3>1. y \in Seq(Stream) /\ i \in DOMAIN Append(y, e)
      BY <1>4, <1>6
    <3> QED BY <1>7, <3>1, SizesNatural
  <2>4. i = Len(y) + 1 \/ i \in 1..Len(y)
    BY <2>3
  <2> QED BY <2>1, <2>2, <2>4
<1> QED BY <1>11, <1>12, <1>13 DEF new, retained

-----------------------------------------------------------------------------
(* An operation of the store *)

\* The map is a function from session ids in use to records with balanced
\* accounts.
LEMMA MapFacts ==
    ASSUME IInv
    PROVE  /\ sessions \in [DOMAIN sessions -> Record] /\ DOMAIN sessions \subseteq used
           /\ used \subseteq SessionIds /\ clock \in Nat
           /\ \A s \in DOMAIN sessions : Balanced(sessions[s]) /\ sessions[s].lastActivity \in Nat
<1>1. PICK live \in SUBSET used : sessions \in [live -> Record]
  BY DEF IInv, StoreTypeOK
<1>2. sessions \in [DOMAIN sessions -> Record] /\ DOMAIN sessions \subseteq used
  BY <1>1
<1>3. used \subseteq SessionIds /\ clock \in Nat
  BY TimingAssumption DEF IInv, StoreTypeOK
<1>4. ASSUME NEW s \in DOMAIN sessions
      PROVE  Balanced(sessions[s]) /\ sessions[s].lastActivity \in Nat
  <2>1. sessions[s] \in Record
    BY <1>2
  <2> QED BY <2>1 DEF IInv, StoreBounded, Balanced, Record
<1> QED BY <1>2, <1>3, <1>4

\* What pruning leaves.
LEMMA PrunedFacts ==
    ASSUME NEW now
    PROVE  /\ DOMAIN Pruned(now) = {t \in DOMAIN sessions : now - sessions[t].lastActivity < IdleTimeout}
           /\ \A t \in DOMAIN Pruned(now) : Pruned(now)[t] = sessions[t]
           /\ Pruned(now) = [t \in DOMAIN Pruned(now) |-> Pruned(now)[t]]
BY DEF Pruned

\* An operation with clock reading now that touches the sessions in T and removes
\* those in G: every other session is left alone or expires.
StoreOp(now, T, G) ==
    /\ DOMAIN sessions' = (DOMAIN Pruned(now) \cup T) \ G
    /\ sessions' = [t \in DOMAIN sessions' |-> sessions'[t]]
    /\ \A t \in DOMAIN sessions' \ T : sessions'[t] = sessions[t]
    /\ \A t \in T : Balanced(sessions'[t]) /\ sessions'[t].lastActivity = now
    /\ newest' = [t \in SessionIds |-> IF t \in T /\ now > newest[t] THEN now ELSE newest[t]]
    /\ deleted' = deleted \cup G
    /\ UNCHANGED clock

\* The reading of a request that is about to enter the mutex.
Fresh(now) == now \in Nat /\ now <= clock /\ clock - now <= LockDelay

LEMMA FreshReading ==
    ASSUME IInv, NEW r \in Requests, request[r].pc \in {"entering", "finishing"}
    PROVE  Fresh(request[r].now)
<1>1. request[r] \in Request
  BY DEF IInv, StoreTypeOK
<1> QED BY <1>1 DEF IInv, ReadingFresh, Fresh, Request

\* A session that a request has validated survives every pruning meanwhile,
\* unless it was terminated.
LEMMA Survives ==
    ASSUME IInv, NEW r \in Requests, request[r].pc \in {"working", "finishing"},
           request[r].session \notin deleted, NEW now, Fresh(now)
    PROVE  request[r].session \in DOMAIN Pruned(now)
<1> DEFINE s == request[r].session
           active == sessions[s].lastActivity
           started == request[r].started
           at == IF request[r].pc = "working" THEN clock ELSE request[r].now
<1>1. /\ s \in DOMAIN sessions /\ started - LockDelay <= active
      /\ at <= started + RequestTimeout \/ at - LockDelay <= active
  BY DEF IInv, InFlightAlive, Alive
<1>2. active \in Nat /\ clock \in Nat
  BY <1>1, MapFacts
<1>3. started \in Nat /\ request[r].now \in Nat
  BY DEF IInv, StoreTypeOK, Request
<1>4. at \in Nat /\ clock - at <= LockDelay
  <2>1. LockDelay \in Nat
    BY TimingAssumption
  <2>2. CASE request[r].pc = "working"
    BY <1>2, <2>1, <2>2
  <2>3. CASE request[r].pc = "finishing"
    BY <1>3, <2>3 DEF IInv, ReadingFresh
  <2> QED BY <2>2, <2>3
<1>5. now \in Nat /\ now <= clock
  BY DEF Fresh
<1> HIDE DEF s, active, started, at
<1>6. now - active < IdleTimeout
  BY <1>1, <1>2, <1>3, <1>4, <1>5, TimingAssumption
<1> QED BY <1>1, <1>6, PrunedFacts DEF s, active

\* A session expires only when it has been idle for the timeout less the delay
\* of a lock.
LEMMA ExpiresLate ==
    ASSUME IInv, NEW now, Fresh(now), NEW s \in DOMAIN sessions, s \notin DOMAIN Pruned(now)
    PROVE  clock - newest[s] >= IdleTimeout - LockDelay
<1>1. sessions[s].lastActivity \in Nat /\ clock \in Nat /\ s \in SessionIds
  BY MapFacts
<1>2. ~(now - sessions[s].lastActivity < IdleTimeout)
  BY PrunedFacts
<1>3. newest[s] \in Nat /\ newest[s] - LockDelay <= sessions[s].lastActivity
  BY <1>1 DEF IInv, StoreTypeOK, ActivityRecent
<1>4. now \in Nat /\ now <= clock
  BY DEF Fresh
<1> QED BY <1>1, <1>2, <1>3, <1>4, TimingAssumption

\* What an operation keeps of the store's own state.
LEMMA StoreOpKeeps ==
    ASSUME IInv, NEW now, Fresh(now), NEW T \in SUBSET SessionIds, NEW G, StoreOp(now, T, G),
           T \subseteq used', used \subseteq used', T \cap G = {}
    PROVE  /\ \E live \in SUBSET used' : sessions' \in [live -> Record]
           /\ \A t \in DOMAIN sessions' : Balanced(sessions'[t])
           /\ newest' \in [SessionIds -> Nat]
           /\ ActivityRecent'
<1>1. \A t \in DOMAIN sessions' \ T : t \in DOMAIN sessions /\ sessions'[t] = sessions[t]
  BY PrunedFacts DEF StoreOp
<1>2. \A t \in DOMAIN sessions' : Balanced(sessions'[t])
  BY <1>1, MapFacts DEF StoreOp
<1>3. DOMAIN sessions' \subseteq used'
  BY <1>1, MapFacts
<1>4. sessions' \in [DOMAIN sessions' -> Record]
  BY <1>2 DEF StoreOp, Balanced
<1>5. newest \in [SessionIds -> Nat] /\ now \in Nat /\ clock' = clock
  BY DEF IInv, StoreTypeOK, Fresh, StoreOp
<1>6. newest' \in [SessionIds -> Nat]
  BY <1>5 DEF StoreOp
<1>7. ASSUME NEW t \in SessionIds PROVE newest'[t] <= clock' /\ newest[t] \in Nat
  <2>1. newest[t] <= clock /\ newest[t] \in Nat
    BY <1>5 DEF IInv, ActivityRecent
  <2> QED BY <1>5, <2>1 DEF StoreOp, Fresh
<1>8. ASSUME NEW t \in DOMAIN sessions' PROVE newest'[t] - LockDelay <= sessions'[t].lastActivity
  <2>0. clock \in Nat /\ LockDelay \in Nat
    BY MapFacts, TimingAssumption
  <2>1. CASE t \notin T
    <3>1. t \in DOMAIN sessions /\ sessions'[t] = sessions[t] /\ t \in SessionIds
      BY <1>1, <2>1, MapFacts
    <3>2. newest'[t] = newest[t]
      BY <2>1, <3>1 DEF StoreOp
    <3> QED BY <3>1, <3>2 DEF IInv, ActivityRecent
  <2>2. CASE t \in T
    <3>1. sessions'[t].lastActivity = now /\ newest'[t] <= clock /\ newest'[t] \in Nat
      BY <1>5, <1>6, <1>7, <2>2 DEF StoreOp
    <3> QED BY <2>0, <3>1 DEF Fresh
  <2> QED BY <2>1, <2>2
<1>9. ActivityRecent'
  BY <1>7, <1>8 DEF ActivityRecent
<1> QED BY <1>2, <1>3, <1>4, <1>6, <1>9

\* An operation of one request keeps the validated sessions of the others alive.
LEMMA OthersAlive ==
    ASSUME IInv, NEW now, Fresh(now), NEW T, NEW G, StoreOp(now, T, G), used \subseteq used',
           NEW q \in Requests, request'[q] = request[q]
    PROVE  ReadingFresh(q)' /\ InFlightAlive(q)'
<1>1. clock' = clock /\ ReadingFresh(q) /\ InFlightAlive(q)
  BY DEF IInv, StoreOp
<1>2. ReadingFresh(q)'
  BY <1>1 DEF ReadingFresh
<1>3. request[q].pc \in {"working", "finishing"} => request[q].session \in used'
  BY <1>1 DEF InFlightAlive
<1>4. ASSUME request[q].pc \in {"working", "finishing"}, request[q].session \notin deleted'
      PROVE  Alive(q)'
  <2> DEFINE s == request[q].session
  <2>1. s \notin deleted /\ s \notin G
    BY <1>4 DEF StoreOp
  <2>2. s \in DOMAIN Pruned(now)
    BY <1>4, <2>1, Survives
  <2>3. s \in DOMAIN sessions'
    BY <2>1, <2>2 DEF StoreOp
  <2>4. Alive(q)
    BY <1>1, <1>4, <2>1 DEF InFlightAlive
  <2>5. CASE s \notin T
    <3>1. sessions'[s] = sessions[s]
      BY <2>3, <2>5 DEF StoreOp
    <3> QED BY <1>1, <2>3, <2>4, <3>1 DEF Alive
  <2>6. CASE s \in T
    <3>1. sessions'[s].lastActivity = now
      BY <2>6 DEF StoreOp
    <3>2. /\ request[q].started \in Nat /\ request[q].now \in Nat
          /\ request[q].started <= request[q].now /\ request[q].now <= clock
      BY <1>1 DEF IInv, StoreTypeOK, Request, ReadingFresh
    <3>3. clock \in Nat /\ LockDelay \in Nat /\ now \in Nat /\ clock - now <= LockDelay
      BY MapFacts, TimingAssumption DEF Fresh
    <3>4. request[q].started - LockDelay <= now /\ request[q].now - LockDelay <= now
          /\ clock - LockDelay <= now
      BY <3>2, <3>3
    <3> QED BY <1>1, <2>3, <3>1, <3>4 DEF Alive
  <2> QED BY <2>5, <2>6
<1> QED BY <1>2, <1>3, <1>4 DEF InFlightAlive

\* A reply with events goes to the session that owns their stream and, if it
\* answers a cursor, continues after it.
Isolated(a, own) ==
    /\ a.events # {} => a.session \in SessionIds
    /\ \A e \in a.events :
          /\ own[e.stream] = a.session
          /\ a.cursor.stream # NoStream =>
                e.stream = a.cursor.stream /\ e.index > a.cursor.index

\* Streams keep their owner.
LEMMA RepliesKept ==
    ASSUME IInv, NEW r \in Requests, NEW a \in Reply, reply' = [reply EXCEPT ![r] = a],
           Isolated(a, owner'), a.status = "gone" => a.session \in deleted',
           deleted \subseteq deleted',
           \A x \in StreamIds : owner[x] \in SessionIds => owner'[x] = owner[x]
    PROVE  /\ reply' \in [Requests -> Reply] /\ ReplayIsolated' /\ InFlightKept'
           /\ \A q \in Requests : reply'[q].events # {} => reply'[q].session \in SessionIds
<1>1. reply \in [Requests -> Reply]
  BY DEF IInv, StoreTypeOK
<1>2. reply' \in [Requests -> Reply]
  BY <1>1
<1>3. ASSUME NEW q \in Requests
      PROVE  Isolated(reply'[q], owner') /\ (reply'[q].status = "gone" => reply'[q].session \in deleted')
  <2>1. CASE q = r
    BY <1>1, <2>1
  <2>2. CASE q # r
    <3>1. reply'[q] = reply[q] /\ reply[q] \in Reply
      BY <1>1, <2>2
    <3>2. Isolated(reply[q], owner)
      BY DEF IInv, ReplayIsolated, OwnersKept, Isolated
    <3>3. \A e \in reply[q].events : e.stream \in StreamIds
      BY <3>1 DEF Reply
    <3>4. Isolated(reply[q], owner')
      BY <3>2, <3>3 DEF Isolated
    <3> QED BY <3>1, <3>4 DEF IInv, InFlightKept
  <2> QED BY <2>1, <2>2
<1>4. ReplayIsolated'
  BY <1>3 DEF ReplayIsolated, Isolated
<1>5. InFlightKept'
  BY <1>3 DEF InFlightKept
<1> QED BY <1>2, <1>3, <1>4, <1>5 DEF Isolated

\* An operation of request r that ends the request or lets its work begin keeps
\* the invariant, if its own record and its own answer are right.
LEMMA OpStep ==
    ASSUME IInv, NEW r \in Requests, NEW now, Fresh(now),
           NEW T \in SUBSET SessionIds, NEW G \in SUBSET used, T \cap G = {}, StoreOp(now, T, G),
           T \subseteq used', used \subseteq used', used' \subseteq SessionIds,
           IsFiniteSet(DOMAIN sessions'), Cardinality(DOMAIN sessions') <= MaxSessions,
           \A t \in T : \A i \in DOMAIN sessions'[t].streams : owner'[sessions'[t].streams[i].id] = t,
           owner' \in [StreamIds -> SessionIds \cup {NoSession}],
           \A x \in StreamIds : owner[x] \in SessionIds => owner'[x] = owner[x],
           NEW p \in Request, request' = [request EXCEPT ![r] = p],
           \/ p = Idle
           \/ p.pc = "working" /\ p.session \in T /\ p.now = now /\ p.started = now,
           NEW a \in Reply, reply' = [reply EXCEPT ![r] = a],
           Isolated(a, owner'), a.status = "gone" => a.session \in deleted'
    PROVE  IInv'
<1>1. /\ \E live \in SUBSET used' : sessions' \in [live -> Record]
      /\ \A t \in DOMAIN sessions' : Balanced(sessions'[t])
      /\ newest' \in [SessionIds -> Nat]
      /\ ActivityRecent'
  BY StoreOpKeeps
<1>2. deleted' = deleted \cup G /\ clock' = clock /\ clock \in Nat
  BY MapFacts DEF StoreOp
<1>3. /\ reply' \in [Requests -> Reply] /\ ReplayIsolated' /\ InFlightKept'
      /\ \A q \in Requests : reply'[q].events # {} => reply'[q].session \in SessionIds
  BY <1>2, RepliesKept
<1>4. request' \in [Requests -> Request] /\ deleted' \subseteq used'
  BY <1>2 DEF IInv, StoreTypeOK
<1>5. StoreTypeOK'
  BY <1>1, <1>2, <1>3, <1>4 DEF IInv, StoreTypeOK
<1>6. StoreBounded'
  BY <1>1 DEF StoreBounded, Balanced
<1>7. OwnersKept'
  <2>1. ASSUME NEW t \in DOMAIN sessions', NEW i \in DOMAIN sessions'[t].streams
        PROVE  owner'[sessions'[t].streams[i].id] = t
    <3>1. CASE t \in T
      BY <3>1
    <3>2. CASE t \notin T
      <4>1. t \in DOMAIN sessions /\ sessions'[t] = sessions[t] /\ t \in SessionIds
        <5>1. t \in DOMAIN Pruned(now) /\ sessions'[t] = sessions[t]
          BY <3>2 DEF StoreOp
        <5>2. t \in DOMAIN sessions
          BY <5>1, PrunedFacts
        <5> QED BY <5>1, <5>2, MapFacts
      <4>2. owner[sessions[t].streams[i].id] = t
        BY <4>1 DEF IInv, OwnersKept
      <4>3. sessions[t].streams \in Seq(Stream)
        BY <4>1, MapFacts DEF Balanced, Record
      <4>4. sessions[t].streams[i] \in Stream
        <5> DEFINE z == sessions[t].streams
        <5>1. z \in Seq(Stream) /\ i \in DOMAIN z
          BY <4>1, <4>3
        <5> HIDE DEF z
        <5>2. i \in 1..Len(z)
          BY <5>1, LenProperties
        <5>3. z[i] \in Stream
          BY <5>1, <5>2, ElementOfSeq
        <5> QED BY <5>3 DEF z
      <4> QED BY <4>1, <4>2, <4>4 DEF Stream
    <3> QED BY <3>1, <3>2
  <2> QED BY <1>3, <2>1 DEF OwnersKept
<1>8. ASSUME NEW q \in Requests PROVE ReadingFresh(q)' /\ InFlightAlive(q)'
  <2>0. request \in [Requests -> Request]
    BY DEF IInv, StoreTypeOK
  <2>1. CASE q # r
    <3>1. request'[q] = request[q]
      BY <2>0, <2>1
    <3> QED BY <3>1, OthersAlive
  <2>2. CASE q = r /\ p = Idle
    <3>1. request'[q] = Idle
      BY <2>0, <2>2
    <3> QED BY <1>2, <3>1 DEF Idle, ReadingFresh, InFlightAlive
  <2>3. CASE q = r /\ p.pc = "working" /\ p.session \in T /\ p.now = now /\ p.started = now
    <3>1. request'[q] = p
      BY <2>0, <2>3
    <3>2. p.session \in DOMAIN sessions' /\ sessions'[p.session].lastActivity = now
      BY <2>3 DEF StoreOp
    <3>3. now \in Nat /\ now <= clock /\ clock - now <= LockDelay /\ LockDelay \in Nat
      BY TimingAssumption DEF Fresh
    <3>4. now - LockDelay <= now /\ clock - LockDelay <= now
      BY <1>2, <3>3
    <3>5. ReadingFresh(q)'
      BY <1>2, <2>3, <3>1, <3>3 DEF ReadingFresh
    <3>6. Alive(q)'
      BY <1>2, <2>3, <3>1, <3>2, <3>4 DEF Alive
    <3>7. p.session \in used'
      BY <2>3
    <3> QED BY <3>1, <3>5, <3>6, <3>7 DEF InFlightAlive
  <2> QED BY <2>1, <2>2, <2>3
<1> QED BY <1>1, <1>3, <1>5, <1>6, <1>7, <1>8 DEF IInv

\* A step that leaves the store alone keeps the invariant, if what it makes of
\* its own request is right.
LEMMA LocalStep ==
    ASSUME IInv, UNCHANGED <<clock, sessions, used, deleted, newest, owner>>, NEW r \in Requests,
           NEW p \in Request, request' = [request EXCEPT ![r] = p], ReadingFresh(r)', InFlightAlive(r)',
           NEW a \in Reply, reply' = [reply EXCEPT ![r] = a], Isolated(a, owner),
           a.status = "gone" => a.session \in deleted
    PROVE  IInv'
<1>1. request \in [Requests -> Request]
  BY DEF IInv, StoreTypeOK
<1>2. /\ reply' \in [Requests -> Reply] /\ ReplayIsolated' /\ InFlightKept'
      /\ \A q \in Requests : reply'[q].events # {} => reply'[q].session \in SessionIds
  <2>1. Isolated(a, owner') /\ (a.status = "gone" => a.session \in deleted')
    BY DEF Isolated
  <2> QED BY <2>1, RepliesKept
<1>3. StoreTypeOK'
  BY <1>1, <1>2 DEF IInv, StoreTypeOK
<1>4. OwnersKept' /\ StoreBounded' /\ ActivityRecent' /\ IsFiniteSet(DOMAIN sessions)'
  BY <1>2 DEF IInv, OwnersKept, StoreBounded, ActivityRecent
<1>5. ASSUME NEW q \in Requests, q # r PROVE ReadingFresh(q)' /\ InFlightAlive(q)'
  <2>1. request'[q] = request[q]
    BY <1>1, <1>5
  <2> QED BY <2>1 DEF IInv, ReadingFresh, InFlightAlive, Alive
<1> QED BY <1>2, <1>3, <1>4, <1>5 DEF IInv

\* The replies of the handler without events.
Plain(r, status) == [NoReply EXCEPT !.status = status, !.session = request[r].session]

LEMMA PlainReply ==
    ASSUME IInv, NEW r \in Requests, NEW status \in Statuses
    PROVE  /\ Plain(r, status) \in Reply /\ \A own : Isolated(Plain(r, status), own)
           /\ Plain(r, status).status = status /\ Plain(r, status).session = request[r].session
           /\ Idle \in Request
           /\ NoReply \in Reply /\ NoReply.status = "none" /\ \A own : Isolated(NoReply, own)
<1>1. request[r].session \in SessionIds \cup {NoSession}
  BY DEF IInv, StoreTypeOK, Request
<1>2. Event(NoStream, 0) \in [stream : StreamIds \cup {NoStream}, index : 0..2]
  BY DEF Event
<1>3. NoReply \in Reply /\ NoReply.events = {} /\ NoReply.status = "none"
  BY <1>2 DEF NoReply, Reply, Statuses
<1>4. Plain(r, status) \in Reply
  BY <1>1, <1>3 DEF Plain, Reply
<1>5. /\ Plain(r, status).events = {} /\ Plain(r, status).status = status
      /\ Plain(r, status).session = request[r].session
  BY <1>1, <1>3 DEF Plain, Reply
<1>6. Idle \in Request
  BY DEF Idle, Request, Kinds
<1> QED BY <1>3, <1>4, <1>5, <1>6 DEF Isolated

\* An operation that only prunes.
LEMMA PruneOp ==
    ASSUME IInv, NEW now, sessions' = Pruned(now), UNCHANGED <<clock, newest, deleted>>
    PROVE  /\ StoreOp(now, {}, {})
           /\ IsFiniteSet(DOMAIN sessions') /\ Cardinality(DOMAIN sessions') <= MaxSessions
<1>1. newest \in [SessionIds -> Nat]
  BY DEF IInv, StoreTypeOK
<1>2. StoreOp(now, {}, {})
  BY <1>1, PrunedFacts DEF StoreOp
<1>3. DOMAIN sessions' \subseteq DOMAIN sessions /\ IsFiniteSet(DOMAIN sessions)
  BY PrunedFacts DEF IInv
<1>4. IsFiniteSet(DOMAIN sessions') /\ Cardinality(DOMAIN sessions') <= Cardinality(DOMAIN sessions)
  BY <1>3, FS_Subset
<1>5. Cardinality(DOMAIN sessions) \in Nat /\ Cardinality(DOMAIN sessions') \in Nat
  BY <1>3, <1>4, FS_CardinalityType
<1>6. Cardinality(DOMAIN sessions) <= MaxSessions
  BY DEF IInv, StoreBounded
<1> QED BY <1>2, <1>4, <1>5, <1>6, BoundsAssumption

\* An operation that touches one of the sessions left by pruning.
LEMMA TouchOp ==
    ASSUME IInv, NEW now, NEW s \in DOMAIN Pruned(now), NEW record, Balanced(record),
           record.lastActivity = now, sessions' = Put(Pruned(now), s, record),
           Touched(s, now), UNCHANGED <<clock, deleted>>
    PROVE  /\ StoreOp(now, {s}, {}) /\ sessions'[s] = record
           /\ s \in used /\ s \in SessionIds /\ s \in DOMAIN sessions
           /\ IsFiniteSet(DOMAIN sessions') /\ Cardinality(DOMAIN sessions') <= MaxSessions
<1>1. newest \in [SessionIds -> Nat]
  BY DEF IInv, StoreTypeOK
<1>2. s \in used /\ s \in SessionIds /\ s \in DOMAIN sessions
  BY PrunedFacts, MapFacts
<1>3. /\ DOMAIN sessions' = DOMAIN Pruned(now) \cup {s} /\ sessions'[s] = record
      /\ sessions' = [t \in DOMAIN sessions' |-> sessions'[t]]
      /\ \A t \in DOMAIN sessions' \ {s} : sessions'[t] = Pruned(now)[t] /\ t \in DOMAIN Pruned(now)
  BY DEF Put
<1>4. \A t \in DOMAIN sessions' \ {s} : sessions'[t] = sessions[t]
  <2>1. \A t \in DOMAIN Pruned(now) : Pruned(now)[t] = sessions[t]
    BY PrunedFacts
  <2> QED BY <1>3, <2>1
<1>5. newest' = [t \in SessionIds |-> IF t \in {s} /\ now > newest[t] THEN now ELSE newest[t]]
  BY <1>1, <1>2 DEF Touched
<1>6. StoreOp(now, {s}, {})
  <2>1. DOMAIN sessions' = (DOMAIN Pruned(now) \cup {s}) \ {} /\ deleted' = deleted \cup {}
    BY <1>3
  <2>2. \A t \in {s} : Balanced(sessions'[t]) /\ sessions'[t].lastActivity = now
    BY <1>3
  <2>3. sessions' = [t \in DOMAIN sessions' |-> sessions'[t]]
    BY <1>3
  <2> QED BY <1>4, <1>5, <2>1, <2>2, <2>3 DEF StoreOp
<1>7. DOMAIN sessions' \subseteq DOMAIN sessions /\ IsFiniteSet(DOMAIN sessions)
  <2>1. DOMAIN Pruned(now) \subseteq DOMAIN sessions
    BY PrunedFacts
  <2> QED BY <1>2, <1>3, <2>1 DEF IInv
<1>8. IsFiniteSet(DOMAIN sessions') /\ Cardinality(DOMAIN sessions') <= Cardinality(DOMAIN sessions)
  BY <1>7, FS_Subset
<1>9. Cardinality(DOMAIN sessions) \in Nat /\ Cardinality(DOMAIN sessions') \in Nat
  BY <1>7, <1>8, FS_CardinalityType
<1>10. Cardinality(DOMAIN sessions) <= MaxSessions
  BY DEF IInv, StoreBounded
<1> QED BY <1>2, <1>3, <1>6, <1>8, <1>9, <1>10, BoundsAssumption

\* Touching a record changes nothing but its last activity.
LEMMA TouchedRecord ==
    ASSUME IInv, NEW now \in Nat, NEW record, Balanced(record)
    PROVE  LET touched == Touch(record, now) IN
           /\ Balanced(touched) /\ touched.lastActivity = now /\ touched.streams = record.streams
           /\ LET active == [touched EXCEPT !.phase = "Active"] IN
              /\ Balanced(active) /\ active.lastActivity = now /\ active.streams = record.streams
<1>1. record \in Record
  BY DEF Balanced
<1> DEFINE touched == Touch(record, now)
           active == [touched EXCEPT !.phase = "Active"]
<1>2. touched \in Record /\ touched.lastActivity = now /\ touched.streams = record.streams
      /\ touched.replayBytes = record.replayBytes
  BY <1>1 DEF Touch, Record
<1> HIDE DEF touched
<1>3. active \in Record /\ active.lastActivity = now /\ active.streams = record.streams
      /\ active.replayBytes = record.replayBytes
  BY <1>2 DEF Record
<1> HIDE DEF active
<1>4. Balanced(touched) /\ Balanced(active)
  BY <1>2, <1>3 DEF Balanced
<1> QED BY <1>2, <1>3, <1>4 DEF touched, active

-----------------------------------------------------------------------------
(* The invariant *)

LEMMA InitInv == Init => IInv
<1> SUFFICES ASSUME Init PROVE IInv
  OBVIOUS
<1>1. DOMAIN sessions = {} /\ sessions \in [{} -> Record]
  BY DEF Init
<1>2. Idle \in Request
  BY DEF Idle, Request, Kinds
<1>3. NoReply \in Reply /\ NoReply.events = {} /\ NoReply.status = "none"
  <2>1. Event(NoStream, 0) \in [stream : StreamIds \cup {NoStream}, index : 0..2]
    BY DEF Event
  <2> QED BY <2>1 DEF NoReply, Reply, Statuses
<1>4. StoreTypeOK
  <2>1. clock \in 0..MaxClock /\ used \subseteq SessionIds /\ deleted \subseteq used
    BY TimingAssumption DEF Init
  <2>2. \E live \in SUBSET used : sessions \in [live -> Record]
    <3>1. {} \in SUBSET used
      OBVIOUS
    <3> QED BY <1>1, <3>1
  <2>3. request \in [Requests -> Request] /\ reply \in [Requests -> Reply]
    BY <1>2, <1>3 DEF Init
  <2>4. newest \in [SessionIds -> Nat] /\ owner \in [StreamIds -> SessionIds \cup {NoSession}]
    BY DEF Init
  <2> QED BY <2>1, <2>2, <2>3, <2>4 DEF StoreTypeOK
<1>5. IsFiniteSet(DOMAIN sessions) /\ StoreBounded
  <2>1. IsFiniteSet(DOMAIN sessions) /\ Cardinality(DOMAIN sessions) = 0
    BY <1>1, FS_EmptySet
  <2> QED BY <1>1, <2>1, BoundsAssumption DEF StoreBounded
<1>6. OwnersKept /\ ReplayIsolated /\ InFlightKept
  BY <1>1, <1>3 DEF Init, OwnersKept, ReplayIsolated, InFlightKept
<1>7. ActivityRecent
  BY <1>1 DEF Init, ActivityRecent
<1>8. ASSUME NEW r \in Requests PROVE ReadingFresh(r) /\ InFlightAlive(r)
  <2>1. request[r] = Idle /\ clock = 0
    BY DEF Init
  <2> QED BY <2>1 DEF Idle, ReadingFresh, InFlightAlive
<1> QED BY <1>4, <1>5, <1>6, <1>7, <1>8 DEF IInv

\* Time passes: no reading becomes too old, no work takes too long.
LEMMA TickStep == IInv /\ Tick => IInv'
<1> SUFFICES ASSUME IInv, Tick PROVE IInv'
  OBVIOUS
<1>1. /\ clock \in Nat /\ MaxClock \in Nat /\ LockDelay \in Nat /\ RequestTimeout \in Nat
      /\ clock' = clock + 1 /\ clock < MaxClock
  BY MapFacts, TimingAssumption DEF Tick
<1>2. UNCHANGED <<sessions, used, request, reply, deleted, newest, owner>>
  BY DEF Tick
<1>3. StoreTypeOK'
  <2>1. clock' \in 0..MaxClock
    BY <1>1
  <2> QED BY <1>2, <2>1 DEF IInv, StoreTypeOK
<1>4. IsFiniteSet(DOMAIN sessions)' /\ StoreBounded' /\ OwnersKept' /\ ReplayIsolated' /\ InFlightKept'
  BY <1>2 DEF IInv, StoreBounded, OwnersKept, ReplayIsolated, InFlightKept
<1>5. ActivityRecent'
  <2>1. ASSUME NEW s \in SessionIds PROVE newest[s] <= clock + 1
    <3>1. newest[s] \in Nat /\ newest[s] <= clock
      BY DEF IInv, StoreTypeOK, ActivityRecent
    <3> QED BY <1>1, <3>1
  <2> QED BY <1>1, <1>2, <2>1 DEF IInv, ActivityRecent
<1>6. ASSUME NEW r \in Requests PROVE ReadingFresh(r)' /\ InFlightAlive(r)'
  <2> DEFINE now == request[r].now
             started == request[r].started
             pc == request[r].pc
  <2>1. now \in Nat /\ started \in Nat
    BY DEF IInv, StoreTypeOK, Request
  <2>2. ReadingFresh(r) /\ InFlightAlive(r)
    BY DEF IInv
  <2>3. /\ pc \in {"entering", "finishing"} => clock - now < LockDelay
        /\ pc = "working" => clock - started < RequestTimeout
    BY DEF Tick
  <2>4. started <= now /\ now <= clock /\ (pc = "entering" => started = now)
    BY <2>2 DEF ReadingFresh
  <2> HIDE DEF now, started, pc
  <2>5. /\ now <= clock + 1
        /\ pc \in {"entering", "finishing"} => (clock + 1) - now <= LockDelay
        /\ pc = "working" => clock + 1 <= started + RequestTimeout
    <3>1. now <= clock + 1
      BY <1>1, <2>1, <2>4
    <3>2. ASSUME pc \in {"entering", "finishing"} PROVE (clock + 1) - now <= LockDelay
      <4>1. clock - now < LockDelay
        BY <2>3, <3>2
      <4> QED BY <1>1, <2>1, <4>1
    <3>3. ASSUME pc = "working" PROVE clock + 1 <= started + RequestTimeout
      <4>1. clock - started < RequestTimeout
        BY <2>3, <3>3
      <4> QED BY <1>1, <2>1, <4>1
    <3> QED BY <3>1, <3>2, <3>3
  <2> USE DEF now, started, pc
  <2>6. ReadingFresh(r)'
    <3>1. request'[r] = request[r] /\ clock' = clock + 1
      BY <1>1, <1>2
    <3>2. ASSUME pc \in {"entering", "finishing"} PROVE clock' - now <= LockDelay
      BY <2>5, <3>1, <3>2
    <3>3. now <= clock'
      BY <2>5, <3>1
    <3> QED BY <2>4, <3>1, <3>2, <3>3 DEF ReadingFresh
  <2>7. ASSUME pc \in {"working", "finishing"}, request[r].session \notin deleted PROVE Alive(r)'
    <3>1. Alive(r)
      BY <2>2, <2>7 DEF InFlightAlive
    <3>2. CASE pc = "working"
      BY <1>1, <1>2, <2>5, <3>1, <3>2 DEF Alive
    <3>3. CASE pc # "working"
      BY <1>2, <3>1, <3>3 DEF Alive
    <3> QED BY <3>2, <3>3
  <2>8. InFlightAlive(r)'
    BY <1>2, <2>2, <2>7 DEF InFlightAlive
  <2> QED BY <2>6, <2>8
<1> QED BY <1>3, <1>4, <1>5, <1>6 DEF IInv

\* A request that arrives, is answered without the store, or reads the clock.
LEMMA StartStep == ASSUME IInv, NEW r \in Requests, NEW kind \in Kinds,
                          NEW s \in SessionIds \cup {NoSession}, Start(r, kind, s)
                   PROVE  IInv'
<1> DEFINE p == [pc |-> "entering", kind |-> kind, session |-> s, now |-> clock, started |-> clock]
<1>1. clock \in Nat /\ LockDelay \in Nat
  BY MapFacts, TimingAssumption
<1>2. p \in Request
  BY <1>1 DEF Request
<1>3. request' = [request EXCEPT ![r] = p] /\ reply' = [reply EXCEPT ![r] = NoReply]
      /\ UNCHANGED <<clock, sessions, used, deleted, newest, owner>>
  BY DEF Start
<1>4. request'[r] = p
  BY <1>3 DEF IInv, StoreTypeOK
<1>5. ReadingFresh(r)' /\ InFlightAlive(r)'
  BY <1>1, <1>3, <1>4 DEF ReadingFresh, InFlightAlive
<1>6. NoReply \in Reply /\ Isolated(NoReply, owner) /\ NoReply.status # "gone"
  <2>1. "none" \in Statuses
    BY DEF Statuses
  <2> QED BY <2>1, PlainReply
<1> HIDE DEF p
<1> QED BY <1>2, <1>3, <1>5, <1>6, LocalStep

LEMMA AnswerStep == ASSUME IInv, NEW r \in Requests, NEW status \in Statuses, status # "gone",
                           Answer(r, status), UNCHANGED <<clock, sessions, used, deleted, newest, owner>>
                    PROVE  IInv'
<1>1. request' = [request EXCEPT ![r] = Idle] /\ reply' = [reply EXCEPT ![r] = Plain(r, status)]
  BY DEF Answer, Plain
<1>2. request'[r] = Idle /\ clock \in Nat
  BY <1>1, MapFacts DEF IInv, StoreTypeOK
<1>3. ReadingFresh(r)' /\ InFlightAlive(r)'
  BY <1>2 DEF Idle, ReadingFresh, InFlightAlive
<1>4. /\ Idle \in Request /\ Plain(r, status) \in Reply /\ Isolated(Plain(r, status), owner)
      /\ Plain(r, status).status # "gone"
  BY PlainReply
<1> QED BY <1>1, <1>3, <1>4, LocalStep

LEMMA ReadClockStep == ASSUME IInv, NEW r \in Requests, ReadClock(r) PROVE IInv'
<1> DEFINE p == [request[r] EXCEPT !.pc = "finishing", !.now = clock]
           a == reply[r]
<1>1. clock \in Nat /\ LockDelay \in Nat /\ request[r] \in Request /\ a \in Reply
  BY MapFacts, TimingAssumption DEF IInv, StoreTypeOK
<1>2. p \in Request /\ p.pc = "finishing" /\ p.now = clock /\ p.started = request[r].started
      /\ p.session = request[r].session /\ request[r].started \in Nat
  BY <1>1 DEF Request
<1>3. /\ request' = [request EXCEPT ![r] = p] /\ request[r].pc = "working"
      /\ UNCHANGED <<clock, sessions, used, reply, deleted, newest, owner>>
  BY DEF ReadClock, IInv, StoreTypeOK
<1>4. request'[r] = p /\ reply' = [reply EXCEPT ![r] = a]
  BY <1>3 DEF IInv, StoreTypeOK
<1> HIDE DEF p
<1>5. ReadingFresh(r) /\ InFlightAlive(r) /\ request[r].now \in Nat
  BY <1>1 DEF IInv, Request
<1>6. ReadingFresh(r)'
  <2>1. request[r].started <= clock /\ clock <= clock /\ clock - clock <= LockDelay
    BY <1>1, <1>2, <1>5 DEF ReadingFresh
  <2> QED BY <1>2, <1>3, <1>4, <2>1 DEF ReadingFresh
<1>7. InFlightAlive(r)'
  BY <1>2, <1>3, <1>4, <1>5 DEF InFlightAlive, Alive
<1>8. Isolated(a, owner) /\ (a.status = "gone" => a.session \in deleted)
  BY DEF IInv, ReplayIsolated, OwnersKept, InFlightKept, Isolated
<1> HIDE DEF a
<1> QED BY <1>1, <1>2, <1>3, <1>4, <1>6, <1>7, <1>8, LocalStep

\* Every stream that a session retains is the session's own.
LEMMA OwnStreams ==
    ASSUME IInv, NEW T, UNCHANGED owner, T \subseteq DOMAIN sessions,
           \A t \in T : sessions'[t].streams = sessions[t].streams
    PROVE  /\ \A t \in T : \A i \in DOMAIN sessions'[t].streams :
                 owner'[sessions'[t].streams[i].id] = t
           /\ owner' \in [StreamIds -> SessionIds \cup {NoSession}]
           /\ \A x \in StreamIds : owner[x] \in SessionIds => owner'[x] = owner[x]
<1>1. owner' = owner /\ owner \in [StreamIds -> SessionIds \cup {NoSession}]
  BY DEF IInv, StoreTypeOK
<1>2. ASSUME NEW t \in T, NEW i \in DOMAIN sessions'[t].streams
      PROVE  owner'[sessions'[t].streams[i].id] = t
  <2>1. t \in DOMAIN sessions /\ sessions'[t].streams = sessions[t].streams
    OBVIOUS
  <2> QED BY <1>1, <2>1 DEF IInv, OwnersKept
<1> QED BY <1>1, <1>2

\* An operation that leaves the retained streams alone and ends the request.
LEMMA AnswerOp ==
    ASSUME IInv, NEW r \in Requests, NEW now, Fresh(now),
           NEW T \in SUBSET SessionIds, NEW G \in SUBSET used, T \cap G = {}, StoreOp(now, T, G),
           T \subseteq DOMAIN sessions, \A t \in T : sessions'[t].streams = sessions[t].streams,
           IsFiniteSet(DOMAIN sessions'), Cardinality(DOMAIN sessions') <= MaxSessions,
           UNCHANGED <<used, owner>>, NEW status \in Statuses, Answer(r, status),
           status = "gone" => request[r].session \in deleted'
    PROVE  IInv'
<1>1. request' = [request EXCEPT ![r] = Idle] /\ reply' = [reply EXCEPT ![r] = Plain(r, status)]
  BY DEF Answer, Plain
<1>2. /\ Idle \in Request /\ Plain(r, status) \in Reply /\ Isolated(Plain(r, status), owner')
      /\ Plain(r, status).status = status /\ Plain(r, status).session = request[r].session
  BY PlainReply
<1>3. T \subseteq used' /\ used \subseteq used' /\ used' \subseteq SessionIds
  BY MapFacts
<1>4. /\ \A t \in T : \A i \in DOMAIN sessions'[t].streams : owner'[sessions'[t].streams[i].id] = t
      /\ owner' \in [StreamIds -> SessionIds \cup {NoSession}]
      /\ \A x \in StreamIds : owner[x] \in SessionIds => owner'[x] = owner[x]
  BY OwnStreams
<1> HIDE DEF Plain
<1> QED BY <1>1, <1>2, <1>3, <1>4, OpStep

\* The same for an operation that only prunes.
LEMMA PruneStep ==
    ASSUME IInv, NEW r \in Requests, NEW now, Fresh(now), sessions' = Pruned(now),
           UNCHANGED <<clock, newest, deleted, used, owner>>,
           NEW status \in Statuses, Answer(r, status),
           status = "gone" => request[r].session \in deleted
    PROVE  IInv'
<1>1. /\ StoreOp(now, {}, {})
      /\ IsFiniteSet(DOMAIN sessions') /\ Cardinality(DOMAIN sessions') <= MaxSessions
  BY PruneOp
<1>2. {} \in SUBSET SessionIds /\ {} \in SUBSET used /\ {} \cap {} = {} /\ {} \subseteq DOMAIN sessions
  OBVIOUS
<1>3. status = "gone" => request[r].session \in deleted'
  OBVIOUS
<1> QED BY <1>1, <1>2, <1>3, AnswerOp

\* The same for an operation that refreshes the session of the request.
LEMMA TouchStep ==
    ASSUME IInv, NEW r \in Requests, NEW now, Fresh(now), NEW s \in DOMAIN Pruned(now),
           NEW record, Balanced(record), record.lastActivity = now,
           record.streams = sessions[s].streams,
           sessions' = Put(Pruned(now), s, record), Touched(s, now),
           UNCHANGED <<clock, deleted, used, owner>>,
           NEW status \in Statuses, Answer(r, status), status # "gone"
    PROVE  IInv'
<1>1. /\ StoreOp(now, {s}, {}) /\ sessions'[s] = record
      /\ s \in used /\ s \in SessionIds /\ s \in DOMAIN sessions
      /\ IsFiniteSet(DOMAIN sessions') /\ Cardinality(DOMAIN sessions') <= MaxSessions
  BY TouchOp
<1>2. {s} \in SUBSET SessionIds /\ {} \in SUBSET used /\ {s} \cap {} = {} /\ {s} \subseteq DOMAIN sessions
  BY <1>1
<1>3. \A t \in {s} : sessions'[t].streams = sessions[t].streams
  BY <1>1
<1> QED BY <1>1, <1>2, <1>3, AnswerOp

\* The record a request finds under its mutex is balanced, as it is and touched.
LEMMA FoundRecord ==
    ASSUME IInv, NEW now, Fresh(now), NEW s \in DOMAIN Pruned(now)
    PROVE  /\ Balanced(sessions[s]) /\ s \in DOMAIN sessions /\ s \in SessionIds /\ s \in used
           /\ LET touched == Touch(sessions[s], now)
                  active == [touched EXCEPT !.phase = "Active"]
              IN  /\ Balanced(touched) /\ touched.lastActivity = now
                  /\ touched.streams = sessions[s].streams
                  /\ Balanced(active) /\ active.lastActivity = now
                  /\ active.streams = sessions[s].streams
<1>1. s \in DOMAIN sessions
  BY PrunedFacts
<1>2. Balanced(sessions[s]) /\ s \in SessionIds /\ s \in used
  BY <1>1, MapFacts
<1>3. now \in Nat
  BY DEF Fresh
<1> QED BY <1>1, <1>2, <1>3, TouchedRecord

LEMMA FinishGoneStep == ASSUME IInv, NEW r \in Requests, FinishGone(r) PROVE IInv'
<1> DEFINE now == request[r].now
<1>1. /\ request[r].pc = "finishing" /\ request[r].session \notin DOMAIN Pruned(now)
      /\ sessions' = Pruned(now) /\ Answer(r, "gone")
      /\ UNCHANGED <<clock, used, deleted, newest, owner>>
  BY DEF FinishGone
<1>2. Fresh(now)
  BY <1>1, FreshReading
<1>3. request[r].session \in deleted
  BY <1>1, <1>2, Survives
<1>4. "gone" \in Statuses
  BY DEF Statuses
<1> HIDE DEF now
<1> QED BY <1>1, <1>2, <1>3, <1>4, PruneStep

LEMMA ActivateStep == ASSUME IInv, NEW r \in Requests, Activate(r) PROVE IInv'
<1> DEFINE now == request[r].now
           s == request[r].session
           record == [Touch(sessions[s], now) EXCEPT !.phase = "Active"]
<1>1. /\ request[r].pc = "finishing" /\ s \in DOMAIN Pruned(now)
      /\ sessions' = Put(Pruned(now), s, record)
      /\ Touched(s, now) /\ Answer(r, "accepted")
      /\ UNCHANGED <<clock, used, deleted, owner>>
  BY DEF Activate, FinishOn
<1>2. Fresh(now)
  BY <1>1, FreshReading
<1> HIDE DEF now, s
<1>3. Balanced(record) /\ record.lastActivity = now /\ record.streams = sessions[s].streams
  BY <1>1, <1>2, FoundRecord
<1>4. "accepted" \in Statuses
  BY DEF Statuses
<1> HIDE DEF record
<1> QED BY <1>1, <1>2, <1>3, <1>4, TouchStep

LEMMA TerminateStep == ASSUME IInv, NEW r \in Requests, Terminate(r) PROVE IInv'
<1> DEFINE now == request[r].now
           s == request[r].session
           kept == Pruned(now)
<1>1. /\ request[r].pc = "finishing" /\ s \in DOMAIN Pruned(now)
      /\ sessions' = [t \in DOMAIN kept \ {s} |-> kept[t]]
      /\ deleted' = deleted \cup {s} /\ Answer(r, "accepted")
      /\ UNCHANGED <<clock, used, newest, owner>>
  BY DEF Terminate, FinishOn
<1>2. Fresh(now)
  BY <1>1, FreshReading
<1> HIDE DEF now, s
<1>3. s \in used
  BY <1>1, <1>2, FoundRecord
<1>4. /\ DOMAIN kept \subseteq DOMAIN sessions
      /\ \A t \in DOMAIN kept : kept[t] = sessions[t]
  BY PrunedFacts
<1> HIDE DEF kept
<1>5. /\ DOMAIN sessions' = DOMAIN kept \ {s}
      /\ sessions' = [t \in DOMAIN sessions' |-> sessions'[t]]
      /\ \A t \in DOMAIN sessions' : sessions'[t] = sessions[t]
  BY <1>1, <1>4
<1>6. StoreOp(now, {}, {s})
  <2>1. newest \in [SessionIds -> Nat]
    BY DEF IInv, StoreTypeOK
  <2>2. newest' = [t \in SessionIds |-> IF t \in {} /\ now > newest[t] THEN now ELSE newest[t]]
    BY <1>1, <2>1
  <2>3. DOMAIN sessions' = (DOMAIN Pruned(now) \cup {}) \ {s}
    BY <1>5 DEF kept
  <2> QED BY <1>1, <1>5, <2>2, <2>3 DEF StoreOp
<1>7. DOMAIN sessions' \subseteq DOMAIN sessions /\ IsFiniteSet(DOMAIN sessions)
      /\ Cardinality(DOMAIN sessions) <= MaxSessions
  BY <1>4, <1>5 DEF IInv, StoreBounded
<1>8. IsFiniteSet(DOMAIN sessions') /\ Cardinality(DOMAIN sessions') <= Cardinality(DOMAIN sessions)
  BY <1>7, FS_Subset
<1>9. Cardinality(DOMAIN sessions) \in Nat /\ Cardinality(DOMAIN sessions') \in Nat
  BY <1>7, <1>8, FS_CardinalityType
<1>10. Cardinality(DOMAIN sessions') <= MaxSessions
  BY <1>7, <1>8, <1>9, BoundsAssumption
<1>11. {} \in SUBSET SessionIds /\ {s} \in SUBSET used /\ {} \cap {s} = {} /\ {} \subseteq DOMAIN sessions
  BY <1>3
<1>12. "accepted" \in Statuses /\ "accepted" # "gone"
  BY DEF Statuses
<1> QED BY <1>1, <1>2, <1>6, <1>8, <1>10, <1>11, <1>12, AnswerOp

\* A new session has nothing to account for.
LEMMA NewRecordBalanced ==
    ASSUME NEW now \in Nat
    PROVE  Balanced(NewRecord(now)) /\ NewRecord(now).lastActivity = now /\ NewRecord(now).streams = <<>>
<1>1. <<>> \in Seq(Stream) /\ Len(<<>>) = 0
  BY EmptySeq
<1>2. BytesOf(<<>>) = 0
  <2>1. BytesOf(<<>>) = Sizes(<<>>)[Len(<<>>)] /\ Sizes(<<>>)[0] = 0
    BY <1>1, SumDef
  <2> QED BY <1>1, <2>1
<1>3. NewRecord(now) \in Record
  BY <1>1 DEF NewRecord, Record
<1> QED BY <1>1, <1>2, <1>3, BoundsAssumption DEF NewRecord, Balanced

LEMMA CreateSessionStep == ASSUME IInv, NEW r \in Requests, CreateSession(r) PROVE IInv'
<1> DEFINE now == request[r].now
<1>1. request[r].pc = "entering" /\ UNCHANGED <<clock, deleted, owner>>
  BY DEF CreateSession
<1>2. Fresh(now) /\ request[r].started = now /\ request[r] \in Request
  <2>1. request[r] \in Request /\ ReadingFresh(r)
    BY DEF IInv, StoreTypeOK
  <2> QED BY <1>1, <2>1, FreshReading DEF ReadingFresh
<1>3. CASE Full(now) /\ sessions' = Pruned(now) /\ Answer(r, "full") /\ UNCHANGED <<used, newest>>
  <2>1. "full" \in Statuses /\ "full" # "gone"
    BY DEF Statuses
  <2> HIDE DEF now
  <2> QED BY <1>1, <1>2, <1>3, <2>1, PruneStep
<1>4. CASE /\ ~Full(now)
           /\ \E s \in SessionIds \ used :
                /\ sessions' = Put(Pruned(now), s, NewRecord(now))
                /\ used' = used \cup {s}
                /\ Touched(s, now)
                /\ request' = [request EXCEPT ![r].pc = "working", ![r].session = s]
           /\ UNCHANGED reply
  <2>1. PICK s \in SessionIds \ used :
                /\ sessions' = Put(Pruned(now), s, NewRecord(now))
                /\ used' = used \cup {s}
                /\ Touched(s, now)
                /\ request' = [request EXCEPT ![r].pc = "working", ![r].session = s]
    BY <1>4
  <2> DEFINE p == [request[r] EXCEPT !.pc = "working", !.session = s]
             kept == Pruned(now)
             a == reply[r]
  <2>2. request' = [request EXCEPT ![r] = p]
    BY <2>1 DEF IInv, StoreTypeOK
  <2>3. p \in Request /\ p.pc = "working" /\ p.session = s /\ p.now = now /\ p.started = now
    BY <1>2 DEF Request
  <2> HIDE DEF p, now
  <2>4. now \in Nat
    BY <1>2 DEF Fresh
  <2>5. Balanced(NewRecord(now)) /\ NewRecord(now).lastActivity = now /\ NewRecord(now).streams = <<>>
    BY <2>4, NewRecordBalanced
  <2>6. DOMAIN kept \subseteq DOMAIN sessions /\ \A t \in DOMAIN kept : kept[t] = sessions[t]
    BY PrunedFacts
  <2>7. s \notin DOMAIN kept /\ s \in SessionIds
    BY <2>6, MapFacts
  <2> DEFINE record == NewRecord(now)
  <2>8. sessions' = [t \in DOMAIN kept \cup {s} |-> IF t = s THEN record ELSE kept[t]]
    BY <2>1 DEF Put
  <2> HIDE DEF kept, record
  <2>9. /\ DOMAIN sessions' = DOMAIN kept \cup {s} /\ sessions'[s] = record
        /\ sessions' = [t \in DOMAIN sessions' |-> sessions'[t]]
        /\ \A t \in DOMAIN sessions' \ {s} : sessions'[t] = sessions[t]
    BY <2>6, <2>8
  <2>10. StoreOp(now, {s}, {})
    <3>1. newest \in [SessionIds -> Nat]
      BY DEF IInv, StoreTypeOK
    <3>2. newest' = [t \in SessionIds |-> IF t \in {s} /\ now > newest[t] THEN now ELSE newest[t]]
      BY <2>1, <2>7, <3>1 DEF Touched
    <3>3. DOMAIN sessions' = (DOMAIN Pruned(now) \cup {s}) \ {} /\ deleted' = deleted \cup {}
      BY <1>1, <2>9 DEF kept
    <3>4. \A t \in {s} : Balanced(sessions'[t]) /\ sessions'[t].lastActivity = now
      BY <2>5, <2>9 DEF record
    <3>5. sessions' = [t \in DOMAIN sessions' |-> sessions'[t]] /\ clock' = clock
      BY <1>1, <2>9
    <3>6. \A t \in DOMAIN sessions' \ {s} : sessions'[t] = sessions[t]
      BY <2>9
    <3> QED BY <3>2, <3>3, <3>4, <3>5, <3>6 DEF StoreOp
  <2>11. IsFiniteSet(DOMAIN kept) /\ Cardinality(DOMAIN kept) \in Nat
    <3>1. IsFiniteSet(DOMAIN sessions)
      BY DEF IInv
    <3>2. IsFiniteSet(DOMAIN kept)
      BY <2>6, <3>1, FS_Subset
    <3> QED BY <3>2, FS_CardinalityType
  <2>12. IsFiniteSet(DOMAIN sessions') /\ Cardinality(DOMAIN sessions') = Cardinality(DOMAIN kept) + 1
    BY <2>7, <2>9, <2>11, FS_AddElement
  <2>13. Cardinality(DOMAIN sessions') <= MaxSessions
    <3>1. ~(Cardinality(DOMAIN kept) >= MaxSessions)
      BY <1>4 DEF Full, kept
    <3> QED BY <2>11, <2>12, <3>1, BoundsAssumption
  <2>14. \A t \in {s} : \A i \in DOMAIN sessions'[t].streams : owner'[sessions'[t].streams[i].id] = t
    <3>1. DOMAIN sessions'[s].streams = {}
      BY <2>5, <2>9 DEF record
    <3> QED BY <3>1
  <2>15. owner' \in [StreamIds -> SessionIds \cup {NoSession}]
         /\ \A x \in StreamIds : owner[x] \in SessionIds => owner'[x] = owner[x]
    BY <1>1 DEF IInv, StoreTypeOK
  <2>16. /\ {s} \in SUBSET SessionIds /\ {} \in SUBSET used /\ {s} \cap {} = {}
         /\ {s} \subseteq used' /\ used \subseteq used' /\ used' \subseteq SessionIds /\ p.session \in {s}
    BY <2>1, <2>3, <2>7, MapFacts
  <2>17. a \in Reply /\ reply' = [reply EXCEPT ![r] = a]
    BY <1>4 DEF IInv, StoreTypeOK
  <2>18. Isolated(a, owner') /\ (a.status = "gone" => a.session \in deleted')
    BY <1>1 DEF IInv, ReplayIsolated, OwnersKept, InFlightKept, Isolated
  <2> HIDE DEF a
  <2> QED BY <1>2, <2>2, <2>3, <2>10, <2>12, <2>13, <2>14, <2>15, <2>16, <2>17, <2>18, OpStep
<1> QED BY <1>3, <1>4 DEF CreateSession

LEMMA ValidateStep == ASSUME IInv, NEW r \in Requests, Validate(r) PROVE IInv'
<1> DEFINE now == request[r].now
           s == request[r].session
<1>1. request[r].pc = "entering" /\ UNCHANGED <<clock, used, deleted, owner>>
  BY DEF Validate
<1>2. Fresh(now) /\ request[r].started = now /\ request[r] \in Request
  <2>1. request[r] \in Request /\ ReadingFresh(r)
    BY DEF IInv, StoreTypeOK
  <2> QED BY <1>1, <2>1, FreshReading DEF ReadingFresh
<1>3. CASE sessions' = Pruned(now) /\ Answer(r, "unknown") /\ UNCHANGED newest
  <2>1. "unknown" \in Statuses /\ "unknown" # "gone"
    BY DEF Statuses
  <2> HIDE DEF now
  <2> QED BY <1>1, <1>2, <1>3, <2>1, PruneStep
<1> DEFINE record == Touch(sessions[s], now)
           verdict == IF sessions[s].phase = "Active" THEN "accepted" ELSE "inactive"
<1>4. CASE /\ s \in DOMAIN Pruned(now) /\ sessions' = Put(Pruned(now), s, record)
           /\ Touched(s, now) /\ Answer(r, verdict)
  <2>1. verdict \in Statuses /\ verdict # "gone"
    BY DEF Statuses
  <2> HIDE DEF now, s, verdict
  <2>2. Balanced(record) /\ record.lastActivity = now /\ record.streams = sessions[s].streams
    BY <1>2, <1>4, FoundRecord
  <2> HIDE DEF record
  <2> QED BY <1>1, <1>2, <1>4, <2>1, <2>2, TouchStep
<1>5. CASE /\ s \in DOMAIN Pruned(now) /\ sessions' = Put(Pruned(now), s, record)
           /\ Touched(s, now) /\ request' = [request EXCEPT ![r].pc = "working"] /\ UNCHANGED reply
  <2> DEFINE p == [request[r] EXCEPT !.pc = "working"]
             a == reply[r]
  <2>1. request' = [request EXCEPT ![r] = p]
    BY <1>5 DEF IInv, StoreTypeOK
  <2>2. p \in Request /\ p.pc = "working" /\ p.session = s /\ p.now = now /\ p.started = now
    BY <1>2 DEF Request
  <2>3. a \in Reply /\ reply' = [reply EXCEPT ![r] = a]
    BY <1>5 DEF IInv, StoreTypeOK
  <2>4. Isolated(a, owner') /\ (a.status = "gone" => a.session \in deleted')
    BY <1>1 DEF IInv, ReplayIsolated, OwnersKept, InFlightKept, Isolated
  <2> HIDE DEF p, a, now, s
  <2>5. Balanced(record) /\ record.lastActivity = now /\ record.streams = sessions[s].streams
    BY <1>2, <1>5, FoundRecord
  <2> HIDE DEF record
  <2>6. /\ StoreOp(now, {s}, {}) /\ sessions'[s] = record
        /\ s \in used /\ s \in SessionIds /\ s \in DOMAIN sessions
        /\ IsFiniteSet(DOMAIN sessions') /\ Cardinality(DOMAIN sessions') <= MaxSessions
    BY <1>1, <1>5, <2>5, TouchOp
  <2>7. {s} \subseteq DOMAIN sessions /\ \A t \in {s} : sessions'[t].streams = sessions[t].streams
    BY <2>5, <2>6
  <2>8. /\ \A t \in {s} : \A i \in DOMAIN sessions'[t].streams : owner'[sessions'[t].streams[i].id] = t
        /\ owner' \in [StreamIds -> SessionIds \cup {NoSession}]
        /\ \A x \in StreamIds : owner[x] \in SessionIds => owner'[x] = owner[x]
    BY <1>1, <2>7, OwnStreams
  <2>9. /\ {s} \in SUBSET SessionIds /\ {} \in SUBSET used /\ {s} \cap {} = {}
        /\ {s} \subseteq used' /\ used \subseteq used' /\ used' \subseteq SessionIds /\ p.session \in {s}
    BY <1>1, <2>2, <2>6, MapFacts
  <2> QED BY <1>2, <2>1, <2>2, <2>3, <2>4, <2>6, <2>8, <2>9, OpStep
<1> QED BY <1>3, <1>4, <1>5 DEF Validate

LEMMA RecordSseStep ==
    ASSUME IInv, NEW r \in Requests, NEW data \in DataSizes, NEW x \in StreamIds, RecordSse(r, data, x)
    PROVE  /\ IInv'
           /\ LET s == request[r].session IN
              /\ owner' = [owner EXCEPT ![x] = s] /\ s \in SessionIds
              /\ Len(sessions'[s].streams) > 0
              /\ sessions'[s].streams \in Seq(Stream)
              /\ sessions'[s].streams[Len(sessions'[s].streams)].id = x
              /\ StoreOp(request[r].now, {s}, {}) /\ Fresh(request[r].now)
<1> DEFINE now == request[r].now
           s == request[r].session
           recorded == Recorded(sessions[s], x, WireLen(data))
           record == Touch(recorded, now)
           a == [status |-> "stream", session |-> s, cursor |-> Event(NoStream, 0),
                 events |-> {Event(x, 0), Event(x, 1)}]
<1>1. /\ request[r].pc = "finishing" /\ s \in DOMAIN Pruned(now)
      /\ data <= MaxEventBytes /\ owner[x] = NoSession
      /\ sessions' = Put(Pruned(now), s, record)
      /\ owner' = [owner EXCEPT ![x] = s] /\ Touched(s, now)
      /\ request' = [request EXCEPT ![r] = Idle]
      /\ reply' = [reply EXCEPT ![r] = a]
      /\ UNCHANGED <<clock, used, deleted>>
  BY DEF RecordSse, FinishOn
<1>2. Fresh(now) /\ now \in Nat
  <2>1. Fresh(now)
    BY <1>1, FreshReading
  <2> QED BY <2>1 DEF Fresh
<1> HIDE DEF now, s
<1>3. Balanced(sessions[s]) /\ s \in DOMAIN sessions /\ s \in SessionIds /\ s \in used
  BY <1>1, <1>2, FoundRecord
<1>4. /\ Balanced(recorded)
      /\ Len(recorded.streams) > 0 /\ recorded.streams[Len(recorded.streams)].id = x
      /\ \A i \in DOMAIN recorded.streams :
            \/ recorded.streams[i].id = x
            \/ \E j \in DOMAIN sessions[s].streams : recorded.streams[i] = sessions[s].streams[j]
  BY <1>1, <1>3, RecordingBalances
<1> HIDE DEF recorded
<1>5. Balanced(record) /\ record.lastActivity = now /\ record.streams = recorded.streams
  BY <1>2, <1>4, TouchedRecord
<1> HIDE DEF record
<1>6. /\ StoreOp(now, {s}, {}) /\ sessions'[s] = record
      /\ IsFiniteSet(DOMAIN sessions') /\ Cardinality(DOMAIN sessions') <= MaxSessions
  BY <1>1, <1>5, TouchOp
<1>7. owner \in [StreamIds -> SessionIds \cup {NoSession}] /\ NoSession \notin SessionIds
  BY NamesAssumption DEF IInv, StoreTypeOK
<1>8. /\ owner' \in [StreamIds -> SessionIds \cup {NoSession}] /\ owner'[x] = s
      /\ \A y \in StreamIds : owner[y] \in SessionIds => owner'[y] = owner[y]
  BY <1>1, <1>3, <1>7
<1>9. \A t \in {s} : \A i \in DOMAIN sessions'[t].streams : owner'[sessions'[t].streams[i].id] = t
  <2> SUFFICES ASSUME NEW i \in DOMAIN record.streams PROVE owner'[record.streams[i].id] = s
    BY <1>6
  <2>1. CASE recorded.streams[i].id = x
    BY <1>5, <1>8, <2>1
  <2>2. ASSUME NEW j \in DOMAIN sessions[s].streams, recorded.streams[i] = sessions[s].streams[j]
        PROVE  owner'[record.streams[i].id] = s
    <3> DEFINE z == sessions[s].streams
    <3>1. z \in Seq(Stream) /\ j \in DOMAIN z
      BY <1>3 DEF Balanced, Record
    <3>2. owner[z[j].id] = s
      BY <1>3 DEF IInv, OwnersKept
    <3>3. record.streams[i] = z[j]
      BY <1>5, <2>2
    <3> HIDE DEF z
    <3>4. j \in 1..Len(z)
      BY <3>1, LenProperties
    <3>5. z[j] \in Stream
      BY <3>1, <3>4, ElementOfSeq
    <3>6. z[j].id \in StreamIds
      BY <3>5 DEF Stream
    <3> QED BY <1>3, <1>8, <3>2, <3>3, <3>6
  <2> QED BY <1>4, <1>5, <2>1, <2>2
<1>10. a \in Reply /\ a.status # "gone"
  <2>1. Event(NoStream, 0) \in [stream : StreamIds \cup {NoStream}, index : 0..2]
    BY DEF Event
  <2>2. {Event(x, 0), Event(x, 1)} \in SUBSET [stream : StreamIds, index : 0..1]
    BY DEF Event
  <2> QED BY <1>3, <2>1, <2>2 DEF Reply, Statuses
<1>11. Isolated(a, owner')
  <2>1. a.session = s /\ a.events = {Event(x, 0), Event(x, 1)} /\ a.cursor.stream = NoStream
    BY DEF Event
  <2> HIDE DEF a
  <2>2. \A e \in a.events : e.stream = x
    BY <2>1 DEF Event
  <2> QED BY <1>3, <1>8, <2>1, <2>2 DEF Isolated
<1>12. Idle \in Request
  <2>1. "plain" \in Statuses
    BY DEF Statuses
  <2> QED BY <2>1, PlainReply
<1>13. /\ {s} \in SUBSET SessionIds /\ {} \in SUBSET used /\ {s} \cap {} = {}
       /\ {s} \subseteq used' /\ used \subseteq used' /\ used' \subseteq SessionIds
  BY <1>1, <1>3, MapFacts
<1> HIDE DEF a
<1>14. IInv'
  BY <1>1, <1>2, <1>6, <1>8, <1>9, <1>10, <1>11, <1>12, <1>13, OpStep
<1>15. sessions'[s].streams \in Seq(Stream)
  BY <1>5, <1>6 DEF Balanced, Record
<1>16. Len(sessions'[s].streams) > 0 /\ sessions'[s].streams[Len(sessions'[s].streams)].id = x
  BY <1>4, <1>5, <1>6
<1> QED BY <1>1, <1>2, <1>3, <1>6, <1>14, <1>15, <1>16 DEF s, now

LEMMA ResumeStep ==
    ASSUME IInv, NEW r \in Requests, NEW x \in StreamIds, NEW j \in 0..2, Resume(r, Event(x, j))
    PROVE  IInv'
<1> DEFINE now == request[r].now
           s == request[r].session
           cursor == Event(x, j)
           record == Touch(sessions[s], now)
           a == [status |-> "stream", session |-> s, cursor |-> cursor, events |-> EventsAfter(cursor)]
<1>1. /\ request[r].pc = "finishing" /\ s \in DOMAIN Pruned(now)
      /\ UNCHANGED <<clock, used, deleted, owner>>
  BY DEF Resume, FinishOn
<1>2. Fresh(now)
  BY <1>1, FreshReading
<1>3. CASE sessions' = Pruned(now) /\ Answer(r, "no cursor") /\ UNCHANGED newest
  <2>1. "no cursor" \in Statuses /\ "no cursor" # "gone"
    BY DEF Statuses
  <2> HIDE DEF now
  <2> QED BY <1>1, <1>2, <1>3, <2>1, PruneStep
<1>4. CASE /\ CursorKnown(sessions[s], cursor)
           /\ sessions' = Put(Pruned(now), s, record)
           /\ Touched(s, now)
           /\ request' = [request EXCEPT ![r] = Idle]
           /\ reply' = [reply EXCEPT ![r] = a]
  <2> HIDE DEF now, s
  <2>1. /\ Balanced(sessions[s]) /\ s \in DOMAIN sessions /\ s \in SessionIds /\ s \in used
        /\ Balanced(record) /\ record.lastActivity = now /\ record.streams = sessions[s].streams
    BY <1>1, <1>2, FoundRecord
  <2> HIDE DEF record
  <2>2. /\ StoreOp(now, {s}, {}) /\ sessions'[s] = record
        /\ IsFiniteSet(DOMAIN sessions') /\ Cardinality(DOMAIN sessions') <= MaxSessions
    BY <1>1, <1>4, <2>1, TouchOp
  <2>3. {s} \subseteq DOMAIN sessions /\ \A t \in {s} : sessions'[t].streams = sessions[t].streams
    BY <2>1, <2>2
  <2>4. /\ \A t \in {s} : \A i \in DOMAIN sessions'[t].streams : owner'[sessions'[t].streams[i].id] = t
        /\ owner' \in [StreamIds -> SessionIds \cup {NoSession}]
        /\ \A y \in StreamIds : owner[y] \in SessionIds => owner'[y] = owner[y]
    BY <1>1, <2>3, OwnStreams
  <2>5. cursor.stream = x /\ cursor.index = j
    BY DEF Event
  <2>6. owner'[x] = s /\ j \in 0..1
    <3>1. PICK i \in DOMAIN sessions[s].streams : sessions[s].streams[i].id = x
      BY <1>4, <2>5 DEF CursorKnown
    <3>2. owner[x] = s
      BY <2>1, <3>1 DEF IInv, OwnersKept
    <3>3. j \in 0..1
      BY <1>4, <2>5 DEF CursorKnown
    <3> QED BY <1>1, <3>2, <3>3
  <2>7. \A e \in EventsAfter(cursor) : /\ e \in [stream : StreamIds, index : 0..1]
                                        /\ e.stream = x /\ e.index > j
    <3> SUFFICES ASSUME NEW i \in (j + 1)..1
                 PROVE  /\ Event(x, i) \in [stream : StreamIds, index : 0..1]
                        /\ Event(x, i).stream = x /\ Event(x, i).index > j
      BY <2>5 DEF EventsAfter
    <3>1. i \in 0..1 /\ i > j
      BY <2>6
    <3> QED BY <3>1 DEF Event
  <2>8. a \in Reply
    <3>1. cursor \in [stream : StreamIds \cup {NoStream}, index : 0..2]
      BY DEF Event
    <3>2. EventsAfter(cursor) \in SUBSET [stream : StreamIds, index : 0..1]
      BY <2>7
    <3> HIDE DEF cursor
    <3> QED BY <2>1, <3>1, <3>2 DEF Reply, Statuses
  <2>9. a.status # "gone" /\ a.session = s /\ a.events = EventsAfter(cursor) /\ a.cursor = cursor
    OBVIOUS
  <2> HIDE DEF a, cursor
  <2>10. Isolated(a, owner')
    BY <2>1, <2>5, <2>6, <2>7, <2>9 DEF Isolated
  <2>11. Idle \in Request
    <3>1. "plain" \in Statuses
      BY DEF Statuses
    <3> QED BY <3>1, PlainReply
  <2>12. /\ {s} \in SUBSET SessionIds /\ {} \in SUBSET used /\ {s} \cap {} = {}
         /\ {s} \subseteq used' /\ used \subseteq used' /\ used' \subseteq SessionIds
    BY <1>1, <2>1, MapFacts
  <2> QED BY <1>2, <1>4, <2>2, <2>4, <2>8, <2>9, <2>10, <2>11, <2>12, OpStep
<1> QED BY <1>3, <1>4 DEF Resume

\* One step per operation of the store and per step of a request.
LEMMA NextInv == IInv /\ [Next]_vars => IInv'
<1> SUFFICES ASSUME IInv, [Next]_vars PROVE IInv'
  OBVIOUS
<1>1. CASE Tick
  BY <1>1, TickStep
<1>2. ASSUME NEW r \in Requests, NEW kind \in Kinds, NEW s \in SessionIds \cup {NoSession},
             Start(r, kind, s)
      PROVE  IInv'
  BY <1>2, StartStep
<1>3. ASSUME NEW r \in Requests, CreateSession(r) PROVE IInv'
  BY <1>3, CreateSessionStep
<1>4. ASSUME NEW r \in Requests, Validate(r) PROVE IInv'
  BY <1>4, ValidateStep
<1>5. ASSUME NEW r \in Requests, AnswerPlain(r) PROVE IInv'
  <2>1. "plain" \in Statuses /\ "plain" # "gone"
    BY DEF Statuses
  <2> QED BY <1>5, <2>1, AnswerStep DEF AnswerPlain
<1>6. ASSUME NEW r \in Requests, DropRequest(r) PROVE IInv'
  <2>1. "dropped" \in Statuses /\ "dropped" # "gone"
    BY DEF Statuses
  <2> QED BY <1>6, <2>1, AnswerStep DEF DropRequest
<1>7. ASSUME NEW r \in Requests, ReadClock(r) PROVE IInv'
  BY <1>7, ReadClockStep
<1>8. ASSUME NEW r \in Requests, FinishGone(r) PROVE IInv'
  BY <1>8, FinishGoneStep
<1>9. ASSUME NEW r \in Requests, Activate(r) PROVE IInv'
  BY <1>9, ActivateStep
<1>10. ASSUME NEW r \in Requests, Terminate(r) PROVE IInv'
  BY <1>10, TerminateStep
<1>11. ASSUME NEW r \in Requests, NEW data \in DataSizes, NEW x \in StreamIds, RecordSse(r, data, x)
       PROVE  IInv'
  BY <1>11, RecordSseStep
<1>12. ASSUME NEW r \in Requests, NEW x \in StreamIds, NEW i \in 0..2, Resume(r, Event(x, i))
       PROVE  IInv'
  BY <1>12, ResumeStep
<1>13. CASE UNCHANGED vars
  BY <1>13 DEF vars, IInv, StoreTypeOK, StoreBounded, OwnersKept, ReplayIsolated, ActivityRecent,
               InFlightKept, ReadingFresh, InFlightAlive, Alive
<1> QED BY <1>1, <1>2, <1>3, <1>4, <1>5, <1>6, <1>7, <1>8, <1>9, <1>10, <1>11, <1>12, <1>13 DEF Next

\* The inductive invariant holds in every state of the store.
THEOREM InductiveInvariant == Spec => []IInv
BY InitInv, NextInv, PTL DEF Spec

\* The store holds no more sessions, streams or bytes than its limits, and the
\* byte counter of every session is exactly what it retains: the accounts of
\* record_sse_response_at never wrap and its eviction loop never runs dry.
THEOREM StoreSafety == Spec => []StoreBounded
<1>1. IInv => StoreBounded
  BY DEF IInv
<1> QED BY <1>1, InductiveInvariant, PTL

\* replay_sse_after_at never hands a session the events of another one.
THEOREM ReplaySafety == Spec => []ReplayIsolated
<1>1. IInv => ReplayIsolated
  BY DEF IInv
<1> QED BY <1>1, InductiveInvariant, PTL

\* A validated session never expires while its request is in progress: a 404 of
\* the second operation is the work of a DELETE.
THEOREM InFlightSafety == Spec => []InFlightKept
<1>1. IInv => InFlightKept
  BY DEF IInv
<1> QED BY <1>1, InductiveInvariant, PTL

-----------------------------------------------------------------------------
(* What is retained *)

\* The end of a sequence of streams, and its size.
LEMMA Ending ==
    ASSUME NEW h \in Seq(Stream), NEW i \in 1..Len(h)
    PROVE  LET y == SubSeq(h, i, Len(h)) IN
           /\ y \in Seq(Stream) /\ Len(y) = Len(h) - i + 1
           /\ BytesOf(y) = BytesOf(h) - Sizes(h)[i - 1]
           /\ BytesOf(h) \in Nat /\ Sizes(h)[i - 1] \in Nat
<1>1. Len(h) \in Nat /\ i - 1 \in 0..Len(h) /\ (i - 1) + 1 = i /\ Len(h) \in 0..Len(h)
  BY SizesNatural
<1>2. BytesOf(h) \in Nat /\ Sizes(h)[i - 1] \in Nat
  BY <1>1, SumDef
<1> DEFINE k == i - 1
           y == SubSeq(h, k + 1, Len(h))
<1>3. y \in Seq(Stream) /\ Len(y) = Len(h) - k /\ BytesOf(y) = BytesOf(h) - Sizes(h)[k]
  BY <1>1, BytesOfRest
<1> QED BY <1>1, <1>2, <1>3

\* A recorded response leaves as many of the newest streams as the limits admit.
LEMMA RecordingKeepsNewest ==
    ASSUME NEW record, Balanced(record), NEW h \in Seq(Stream), KeepsNewest(record.streams, h),
           NEW x \in StreamIds, NEW data \in DataSizes, data <= MaxEventBytes
    PROVE  KeepsNewest(Recorded(record, x, WireLen(data)).streams,
                       Append(h, [id |-> x, bytes |-> WireLen(data)]))
<1> DEFINE z == record.streams
           retained == WireLen(data)
           m == Evicted(record, retained)
           y == SubSeq(z, m + 1, Len(z))
           e == [id |-> x, bytes |-> retained]
           g == Append(h, e)
           n == Len(h)
<1>1. retained \in Nat /\ retained <= MaxReplayBytes /\ e \in Stream /\ e.bytes = retained
      /\ MaxStreams \in Nat /\ MaxReplayBytes \in Nat
  BY BoundsAssumption DEF WireLen, Stream
<1>2. z \in Seq(Stream) /\ record.replayBytes = BytesOf(z) /\ record \in Record
  BY DEF Balanced, Record
<1>3. /\ m \in 0..Len(z)
      /\ \A j \in 0..(m - 1) : ~ /\ Len(z) - j < MaxStreams
                                 /\ BytesOf(z) - Sizes(z)[j] + retained <= MaxReplayBytes
  BY <1>1, <1>2, EvictionMakesRoom
<1>4. Recorded(record, x, retained).streams = Append(y, e)
  BY <1>2 DEF Recorded, Record
<1> HIDE DEF m, retained, e
<1>5. PICK k \in 0..n : z = SubSeq(h, k + 1, n) /\ \A i \in 1..k : ~WithinLimits(SubSeq(h, i, n))
  BY DEF KeepsNewest
<1>6. n \in Nat /\ n \in 0..n /\ BytesOf(h) \in Nat /\ \A j \in 0..n : Sizes(h)[j] \in Nat
  <2>1. n \in Nat /\ n \in 0..n
    BY SizesNatural
  <2> QED BY <2>1, SumDef
<1>7. Len(z) = n - k /\ (\A i \in 1..Len(z) : z[i] = h[k + i]) /\ BytesOf(z) = BytesOf(h) - Sizes(h)[k]
  <2> HIDE DEF z
  <2> QED BY <1>5, BytesOfRest
<1>8. /\ g \in Seq(Stream) /\ Len(g) = n + 1 /\ g[n + 1] = e /\ (\A i \in 1..n : g[i] = h[i])
      /\ BytesOf(g) = BytesOf(h) + retained
  BY <1>1, AppendProperties, BytesOfAppend
<1> HIDE DEF g
<1>9. \A j \in 0..n : Sizes(g)[j] = Sizes(h)[j]
  <2> SUFFICES ASSUME NEW j \in 0..n PROVE Sizes(g)[j] = Sizes(h)[j]
    OBVIOUS
  <2>1. Sizes(h)[j] = Sizes(g)[0 + j] - Sizes(g)[0]
    <3>1. j \in 0..Len(h) /\ 0 + j <= Len(g) /\ \A i \in 1..j : h[i] = g[0 + i]
      BY <1>6, <1>8
    <3> QED BY <1>8, <3>1, SumShift
  <2>2. Sizes(g)[0] = 0 /\ Sizes(g)[j] \in Nat /\ 0 + j = j
    <3>1. j \in 0..Len(g)
      BY <1>6, <1>8
    <3> QED BY <1>8, <3>1, SumDef
  <2> QED BY <2>1, <2>2
<1> DEFINE q == k + m
           w == SubSeq(g, q + 1, Len(g))
<1>10. k \in Nat /\ m \in Nat /\ q \in 0..n /\ q \in 0..Len(g) /\ q < Len(g)
  BY <1>3, <1>5, <1>6, <1>7, <1>8
<1>11. /\ y \in Seq(Stream) /\ Len(y) = Len(z) - m
       /\ \A i \in 1..Len(y) : y[i] = z[m + i]
  <2> HIDE DEF z
  <2> QED BY <1>2, <1>3, BytesOfRest
<1>12. /\ w \in Seq(Stream) /\ Len(w) = Len(g) - q
       /\ \A i \in 1..Len(w) : w[i] = g[q + i]
  <2> HIDE DEF q
  <2> QED BY <1>8, <1>10, BytesOfRest
<1>13. Append(y, e) = w
  <2> DEFINE v == Append(y, e)
  <2>1. /\ v \in Seq(Stream) /\ Len(v) = Len(y) + 1 /\ v[Len(y) + 1] = e
        /\ \A i \in 1..Len(y) : v[i] = y[i]
    <3> HIDE DEF y
    <3> QED BY <1>1, <1>11, AppendProperties
  <2> HIDE DEF v, w, y, z
  <2>2. Len(v) = Len(w) /\ Len(y) = n - q /\ Len(v) = n - q + 1
    <3>1. n \in Nat /\ k \in Nat /\ m \in Nat /\ q = k + m
      BY <1>6, <1>10
    <3>2. Len(z) = n - k /\ Len(y) = Len(z) - m /\ Len(v) = Len(y) + 1 /\ Len(g) = n + 1 /\ Len(w) = Len(g) - q
      BY <1>7, <1>8, <1>11, <1>12, <2>1
    <3> HIDE DEF n, q
    <3> QED BY <3>1, <3>2
  <2>3. ASSUME NEW i \in 1..Len(v) PROVE v[i] = w[i]
    <3>1. CASE i \in 1..Len(y)
      <4>1. m + i \in 1..Len(z) /\ k + (m + i) = q + i /\ q + i \in 1..n /\ i \in 1..Len(w)
        BY <1>6, <1>7, <1>10, <2>2, <2>3, <3>1
      <4>2. v[i] = z[m + i] /\ z[m + i] = h[k + (m + i)]
        BY <1>7, <1>11, <2>1, <3>1, <4>1
      <4>3. w[i] = g[q + i] /\ g[q + i] = h[q + i]
        BY <1>8, <1>12, <4>1
      <4> QED BY <4>1, <4>2, <4>3
    <3>2. CASE i \notin 1..Len(y)
      <4>1. i = Len(y) + 1 /\ q + i = n + 1 /\ i \in 1..Len(w)
        BY <1>6, <1>10, <2>2, <2>3, <3>2
      <4> QED BY <1>8, <1>12, <2>1, <4>1
    <3> QED BY <3>1, <3>2
  <2>4. v = w
    BY <1>12, <2>1, <2>2, <2>3, SeqEqual
  <2> QED BY <2>4 DEF v
<1>14. ASSUME NEW i \in 1..q PROVE ~WithinLimits(SubSeq(g, i, Len(g)))
  <2>1. i \in Nat /\ i \in 1..n /\ i \in 1..Len(g) /\ i - 1 \in 0..n
    BY <1>6, <1>8, <1>10
  <2>2. /\ Len(SubSeq(g, i, Len(g))) = Len(g) - i + 1
        /\ BytesOf(SubSeq(g, i, Len(g))) = BytesOf(g) - Sizes(g)[i - 1]
    BY <1>8, <2>1, Ending
  <2>3. BytesOf(g) - Sizes(g)[i - 1] = BytesOf(h) + retained - Sizes(h)[i - 1] /\ Sizes(h)[i - 1] \in Nat
    <3>1. Sizes(g)[i - 1] = Sizes(h)[i - 1] /\ Sizes(h)[i - 1] \in Nat /\ BytesOf(h) \in Nat
      BY <1>6, <1>9, <2>1
    <3>2. BytesOf(g) = BytesOf(h) + retained
      BY <1>8
    <3> QED BY <1>1, <3>1, <3>2
  <2>4. CASE i \in 1..k
    <3>1. ~WithinLimits(SubSeq(h, i, n))
      BY <1>5, <2>4
    <3>2. /\ Len(SubSeq(h, i, n)) = n - i + 1
          /\ BytesOf(SubSeq(h, i, n)) = BytesOf(h) - Sizes(h)[i - 1]
      BY <2>1, Ending
    <3>3. ~(n - i + 1 <= MaxStreams /\ BytesOf(h) - Sizes(h)[i - 1] <= MaxReplayBytes)
      BY <3>1, <3>2 DEF WithinLimits
    <3>4. ~(n + 1 - i + 1 <= MaxStreams /\ BytesOf(h) + retained - Sizes(h)[i - 1] <= MaxReplayBytes)
      BY <1>1, <1>6, <2>1, <2>3, <3>3
    <3> QED BY <1>8, <2>2, <2>3, <3>4 DEF WithinLimits
  <2>5. CASE i \notin 1..k
    <3> DEFINE j == i - 1 - k
    <3>1. j \in 0..(m - 1) /\ k + j = i - 1 /\ j \in 0..Len(z) /\ k + j <= n
      BY <1>3, <1>6, <1>7, <1>10, <2>1, <2>5
    <3> HIDE DEF j
    <3>2. Sizes(z)[j] = Sizes(h)[k + j] - Sizes(h)[k]
      <4>1. \A l \in 1..j : z[l] = h[k + l]
        <5>1. \A l \in 1..j : l \in 1..Len(z)
          BY <3>1
        <5> QED BY <1>7, <5>1
      <4> QED BY <1>2, <1>10, <3>1, <4>1, SumShift
    <3>3. ~(Len(z) - j < MaxStreams /\ BytesOf(z) - Sizes(z)[j] + retained <= MaxReplayBytes)
      BY <1>3, <3>1
    <3>4. Sizes(h)[k] \in Nat
      BY <1>5, <1>6
    <3>5. BytesOf(z) - Sizes(z)[j] + retained = BytesOf(h) + retained - Sizes(h)[i - 1]
      <4>1. BytesOf(z) = BytesOf(h) - Sizes(h)[k] /\ Sizes(z)[j] = Sizes(h)[i - 1] - Sizes(h)[k]
        BY <1>7, <3>1, <3>2
      <4>2. BytesOf(h) \in Nat /\ Sizes(h)[i - 1] \in Nat /\ Sizes(h)[k] \in Nat /\ retained \in Nat
        BY <1>1, <1>6, <2>3, <3>4
      <4> QED BY <4>1, <4>2
    <3>6. Len(z) - j < MaxStreams <=> n + 1 - i + 1 <= MaxStreams
      <4>1. n \in Nat /\ k \in Nat /\ i \in Nat /\ MaxStreams \in Nat /\ Len(z) = n - k /\ j = i - 1 - k
        BY <1>1, <1>6, <1>7, <1>10, <2>1 DEF j
      <4> HIDE DEF n
      <4> QED BY <4>1
    <3> QED BY <1>8, <2>2, <2>3, <3>3, <3>5, <3>6 DEF WithinLimits
  <2> QED BY <2>4, <2>5
<1>15. KeepsNewest(Append(y, e), g)
  <2> HIDE DEF y, q
  <2> QED BY <1>10, <1>13, <1>14 DEF KeepsNewest
<1> QED BY <1>4, <1>15 DEF g, e, retained

\* No session but a new one has other streams than before.
StreamsKept ==
    \A s \in DOMAIN sessions' :
        \/ s \in DOMAIN sessions /\ sessions'[s].streams = sessions[s].streams
        \/ s \in SessionIds \ used /\ sessions'[s].streams = <<>>

LEMMA QuietRetention ==
    ASSUME RetentionInv, UNCHANGED history, used \subseteq used', StreamsKept
    PROVE  RetentionInv'
<1>1. \A s \in SessionIds \ used' : history'[s] = <<>>
  BY DEF RetentionInv
<1>2. KeepsNewest(<<>>, <<>>)
  <2>1. 0 \in 0..Len(<<>>) /\ <<>> = SubSeq(<<>>, 0 + 1, Len(<<>>)) /\ ~(Len(<<>>) > 0)
    OBVIOUS
  <2>2. \A i \in 1..0 : ~WithinLimits(SubSeq(<<>>, i, Len(<<>>)))
    OBVIOUS
  <2> QED BY <2>1, <2>2 DEF KeepsNewest
<1>3. ASSUME NEW s \in DOMAIN sessions' PROVE KeepsNewest(sessions'[s].streams, history'[s])
  <2>1. CASE s \in DOMAIN sessions /\ sessions'[s].streams = sessions[s].streams
    BY <2>1 DEF RetentionInv
  <2>2. CASE s \in SessionIds \ used /\ sessions'[s].streams = <<>>
    BY <1>2, <2>2 DEF RetentionInv
  <2> QED BY <2>1, <2>2 DEF StreamsKept
<1> QED BY <1>1, <1>3 DEF RetentionInv

\* The record a request puts back has the streams it found.
LEMMA PutKeepsStreams ==
    ASSUME IInv, NEW now, NEW s \in DOMAIN Pruned(now), NEW record,
           record.streams = sessions[s].streams,
           sessions' \in {Pruned(now), Put(Pruned(now), s, record)}
    PROVE  StreamsKept
<1>1. DOMAIN Pruned(now) \subseteq DOMAIN sessions /\ \A t \in DOMAIN Pruned(now) : Pruned(now)[t] = sessions[t]
  BY PrunedFacts
<1> QED BY <1>1 DEF StreamsKept, Put

LEMMA PruneKeepsStreams ==
    ASSUME NEW now, NEW gone, sessions' = [t \in DOMAIN Pruned(now) \ gone |-> Pruned(now)[t]]
    PROVE  StreamsKept
<1>1. DOMAIN Pruned(now) \subseteq DOMAIN sessions /\ \A t \in DOMAIN Pruned(now) : Pruned(now)[t] = sessions[t]
  BY PrunedFacts
<1> QED BY <1>1 DEF StreamsKept

\* Every step but the recording of a response leaves what is retained alone.
LEMMA OtherSteps ==
    ASSUME IInv, [Next]_vars,
           \A r \in Requests, data \in DataSizes, x \in StreamIds : ~RecordSse(r, data, x)
    PROVE  UNCHANGED history /\ used \subseteq used' /\ StreamsKept
<1>0. ASSUME UNCHANGED sessions PROVE StreamsKept
  BY <1>0 DEF StreamsKept
<1>1. ASSUME NEW now, sessions' = Pruned(now) PROVE StreamsKept
  <2>1. DOMAIN Pruned(now) \subseteq DOMAIN sessions /\ \A t \in DOMAIN Pruned(now) : Pruned(now)[t] = sessions[t]
    BY PrunedFacts
  <2> QED BY <1>1, <2>1 DEF StreamsKept
<1>2. UNCHANGED history /\ used \subseteq used'
  BY DEF Next, vars, Tick, Start, CreateSession, Validate, AnswerPlain, DropRequest, ReadClock,
         FinishGone, Activate, Terminate, Resume
<1>3. ASSUME NEW r \in Requests, CreateSession(r) PROVE StreamsKept
  <2> DEFINE now == request[r].now
  <2>1. CASE sessions' = Pruned(now)
    BY <1>1, <2>1
  <2>2. ASSUME NEW s \in SessionIds \ used, sessions' = Put(Pruned(now), s, NewRecord(now))
        PROVE  StreamsKept
    <3>1. NewRecord(now).streams = <<>>
      BY DEF NewRecord
    <3>2. DOMAIN Pruned(now) \subseteq DOMAIN sessions
          /\ \A t \in DOMAIN Pruned(now) : Pruned(now)[t] = sessions[t]
      BY PrunedFacts
    <3> HIDE DEF now
    <3> QED BY <2>2, <3>1, <3>2 DEF StreamsKept, Put
  <2> QED BY <1>3, <2>1, <2>2 DEF CreateSession
<1>4. ASSUME NEW r \in Requests, Validate(r) \/ Activate(r) \/ FinishGone(r)
                                 \/ \E x \in StreamIds, i \in 0..2 : Resume(r, Event(x, i))
      PROVE  StreamsKept
  <2> DEFINE now == request[r].now
             s == request[r].session
             touched == Touch(sessions[s], now)
             active == [touched EXCEPT !.phase = "Active"]
  <2>1. \/ sessions' = Pruned(now)
        \/ s \in DOMAIN Pruned(now) /\ sessions' \in {Put(Pruned(now), s, touched), Put(Pruned(now), s, active)}
    BY <1>4 DEF Validate, Activate, FinishGone, Resume, FinishOn
  <2>2. request[r].pc \in {"entering", "finishing"}
    BY <1>4 DEF Validate, Activate, FinishGone, Resume, FinishOn
  <2>3. Fresh(now)
    BY <2>2, FreshReading
  <2>4. s \in DOMAIN Pruned(now) => touched.streams = sessions[s].streams /\ active.streams = sessions[s].streams
    <3> HIDE DEF now, s
    <3> QED BY <2>3, FoundRecord
  <2> HIDE DEF now, s, touched, active
  <2> QED BY <1>1, <2>1, <2>4, PutKeepsStreams
<1>5. ASSUME NEW r \in Requests, Terminate(r) PROVE StreamsKept
  BY <1>5, PruneKeepsStreams DEF Terminate
<1>6. CASE UNCHANGED sessions
  BY <1>0, <1>2, <1>6
<1>7. CASE ~ UNCHANGED sessions
  <2>1. PICK r \in Requests :
          \/ CreateSession(r) \/ Validate(r) \/ FinishGone(r) \/ Activate(r) \/ Terminate(r)
          \/ \E x \in StreamIds, i \in 0..2 : Resume(r, Event(x, i))
    BY <1>7 DEF Next, vars, Tick, Start, AnswerPlain, DropRequest, ReadClock
  <2> QED BY <1>2, <1>3, <1>4, <1>5, <2>1
<1> QED BY <1>6, <1>7

LEMMA RecordRetention ==
    ASSUME IInv, RetentionInv, NEW r \in Requests, NEW data \in DataSizes, NEW x \in StreamIds,
           RecordSse(r, data, x)
    PROVE  RetentionInv'
<1> DEFINE now == request[r].now
           s == request[r].session
           recorded == Recorded(sessions[s], x, WireLen(data))
           e == [id |-> x, bytes |-> WireLen(data)]
<1>1. /\ request[r].pc = "finishing" /\ s \in DOMAIN Pruned(now) /\ data <= MaxEventBytes
      /\ sessions' = Put(Pruned(now), s, Touch(recorded, now))
      /\ history' = [history EXCEPT ![s] = Append(@, e)]
      /\ UNCHANGED used
  BY DEF RecordSse, FinishOn
<1>2. Fresh(now) /\ now \in Nat
  <2>1. Fresh(now)
    BY <1>1, FreshReading
  <2> QED BY <2>1 DEF Fresh
<1> HIDE DEF now, s
<1>3. Balanced(sessions[s]) /\ s \in DOMAIN sessions /\ s \in SessionIds /\ s \in used
  BY <1>1, <1>2, FoundRecord
<1>4. history \in [SessionIds -> Seq(Stream)] /\ KeepsNewest(sessions[s].streams, history[s])
      /\ history[s] \in Seq(Stream)
  BY <1>3 DEF RetentionInv
<1>5. e \in Stream
  BY BoundsAssumption DEF Stream, WireLen
<1>6. KeepsNewest(recorded.streams, Append(history[s], e))
  BY <1>1, <1>3, <1>4, RecordingKeepsNewest
<1>7. Balanced(recorded)
  BY <1>1, <1>3, RecordingBalances
<1> HIDE DEF recorded, e
<1>8. Touch(recorded, now).streams = recorded.streams
  BY <1>2, <1>7, TouchedRecord
<1>9. Append(history[s], e) \in Seq(Stream)
  BY <1>4, <1>5, AppendProperties
<1>10. /\ history' \in [SessionIds -> Seq(Stream)] /\ history'[s] = Append(history[s], e)
       /\ \A t \in SessionIds : t # s => history'[t] = history[t]
  BY <1>1, <1>3, <1>4, <1>9
<1>11. \A t \in SessionIds \ used' : history'[t] = <<>>
  BY <1>1, <1>3, <1>10 DEF RetentionInv
<1>12. ASSUME NEW t \in DOMAIN sessions' PROVE KeepsNewest(sessions'[t].streams, history'[t])
  <2>1. CASE t = s
    BY <1>1, <1>6, <1>8, <1>10, <2>1 DEF Put
  <2>2. CASE t # s
    <3>1. t \in DOMAIN Pruned(now) /\ sessions'[t] = Pruned(now)[t]
      BY <1>1, <2>2 DEF Put
    <3>2. t \in DOMAIN sessions /\ sessions'[t] = sessions[t] /\ t \in SessionIds
      BY <3>1, PrunedFacts, MapFacts
    <3> QED BY <1>10, <2>2, <3>2 DEF RetentionInv
  <2> QED BY <2>1, <2>2
<1> QED BY <1>10, <1>11, <1>12 DEF RetentionInv

\* What a session retains is the end of what was recorded for it, as much of it
\* as its limits admit (RetentionInv).
THEOREM RetentionInvariant == Spec => []RetentionInv
<1>1. Init => RetentionInv
  <2> SUFFICES ASSUME Init PROVE RetentionInv
    OBVIOUS
  <2>1. history = [s \in SessionIds |-> <<>>] /\ DOMAIN sessions = {}
    BY DEF Init
  <2>2. <<>> \in Seq(Stream)
    OBVIOUS
  <2> QED BY <2>1, <2>2 DEF RetentionInv
<1>2. IInv /\ RetentionInv /\ [Next]_vars => RetentionInv'
  <2> SUFFICES ASSUME IInv, RetentionInv, [Next]_vars PROVE RetentionInv'
    OBVIOUS
  <2>1. ASSUME NEW r \in Requests, NEW data \in DataSizes, NEW x \in StreamIds, RecordSse(r, data, x)
        PROVE  RetentionInv'
    BY <2>1, RecordRetention
  <2>2. CASE \A r \in Requests, data \in DataSizes, x \in StreamIds : ~RecordSse(r, data, x)
    BY <2>2, OtherSteps, QuietRetention
  <2> QED BY <2>1, <2>2
<1> QED BY <1>1, <1>2, InductiveInvariant, PTL DEF Spec

\* The variables keep their types.
THEOREM TypeCorrect == Spec => []TypeOK
<1>1. IInv /\ RetentionInv => TypeOK
  BY DEF IInv, RetentionInv, TypeOK
<1> QED BY <1>1, InductiveInvariant, RetentionInvariant, PTL

\* As long as a session lives, its newest response can be resumed, and so can
\* every earlier one that is within the limits together with all later ones:
\* eviction (record_sse_response_at) goes from the oldest and stops in time.
THEOREM NewestSafety == Spec => []NewestReplayable
<1>1. IInv /\ RetentionInv => NewestReplayable
  <2> SUFFICES ASSUME IInv, RetentionInv, NEW s \in DOMAIN sessions, NEW i \in DOMAIN history[s],
                      \/ i = Len(history[s])
                      \/ WithinLimits(SubSeq(history[s], i, Len(history[s]))),
                      NEW j \in 0..1
               PROVE  CursorKnown(sessions[s], Event(history[s][i].id, j))
    BY DEF NewestReplayable
  <2> DEFINE h == history[s]
             z == sessions[s].streams
  <2>1. s \in SessionIds /\ Balanced(sessions[s])
    BY MapFacts
  <2>2. h \in Seq(Stream) /\ z \in Seq(Stream) /\ KeepsNewest(z, h)
    BY <2>1 DEF RetentionInv, Balanced, Record
  <2>3. i \in DOMAIN h /\ (i = Len(h) \/ WithinLimits(SubSeq(h, i, Len(h))))
    OBVIOUS
  <2> HIDE DEF h, z
  <2>4. i \in 1..Len(h) /\ Len(h) \in Nat /\ DOMAIN z = 1..Len(z)
    BY <2>2, <2>3, LenProperties
  <2>5. PICK k \in 0..Len(h) : /\ z = SubSeq(h, k + 1, Len(h)) /\ (Len(h) > 0 => k < Len(h))
                               /\ \A l \in 1..k : ~WithinLimits(SubSeq(h, l, Len(h)))
    BY <2>2 DEF KeepsNewest
  <2>6. ~(i \in 1..k)
    BY <2>3, <2>4, <2>5
  <2>7. Len(z) = Len(h) - k /\ \A l \in 1..Len(z) : z[l] = h[k + l]
    BY <2>2, <2>5, BytesOfRest
  <2>8. i - k \in 1..Len(z) /\ k + (i - k) = i
    BY <2>4, <2>5, <2>6, <2>7
  <2>9. z[i - k] = h[i]
    BY <2>7, <2>8
  <2>10. Event(h[i].id, j).stream = h[i].id /\ Event(h[i].id, j).index = j
    BY DEF Event
  <2> QED BY <2>4, <2>8, <2>9, <2>10 DEF CursorKnown, h, z
<1> QED BY <1>1, InductiveInvariant, RetentionInvariant, PTL

\* No session expires early, however the readings of the clock are ordered.
THEOREM ExpirySafety == Spec => ExpiryNotEarly
<1>1. IInv /\ [Next]_vars => [ExpiredLate]_vars
  <2> SUFFICES ASSUME IInv, [Next]_vars, NEW s \in DOMAIN sessions, s \notin DOMAIN sessions',
                      s \notin deleted'
               PROVE  clock - newest[s] >= IdleTimeout - LockDelay
    BY DEF ExpiredLate
  <2>1. ASSUME NEW r \in Requests, request[r].pc \in {"entering", "finishing"},
               DOMAIN Pruned(request[r].now) \subseteq DOMAIN sessions' \cup deleted'
        PROVE  clock - newest[s] >= IdleTimeout - LockDelay
    <3>1. Fresh(request[r].now)
      BY <2>1, FreshReading
    <3>2. s \notin DOMAIN Pruned(request[r].now)
      BY <2>1
    <3> QED BY <3>1, <3>2, ExpiresLate
  <2>2. ASSUME UNCHANGED sessions PROVE FALSE
    BY <2>2
  <2>3. PICK r \in Requests :
          \/ CreateSession(r) \/ Validate(r) \/ FinishGone(r) \/ Activate(r) \/ Terminate(r)
          \/ \E data \in DataSizes, x \in StreamIds : RecordSse(r, data, x)
          \/ \E x \in StreamIds, i \in 0..2 : Resume(r, Event(x, i))
    BY <2>2 DEF Next, vars, Tick, Start, AnswerPlain, DropRequest, ReadClock
  <2> DEFINE now == request[r].now
  <2>4. \A map, t, record : DOMAIN map \subseteq DOMAIN Put(map, t, record)
    BY DEF Put
  <2>5. request[r].pc \in {"entering", "finishing"}
    BY <2>3 DEF CreateSession, Validate, FinishGone, Activate, Terminate, RecordSse, Resume, FinishOn
  <2>6. \/ sessions' = Pruned(now)
        \/ \E t, record : sessions' = Put(Pruned(now), t, record)
        \/ \E t : sessions' = [u \in DOMAIN Pruned(now) \ {t} |-> Pruned(now)[u]] /\ t \in deleted'
    BY <2>3 DEF CreateSession, Validate, FinishGone, Activate, Terminate, RecordSse, Resume
  <2> HIDE DEF now
  <2>7. DOMAIN Pruned(now) \subseteq DOMAIN sessions' \cup deleted'
    BY <2>4, <2>6
  <2> QED BY <2>1, <2>5, <2>7 DEF now
<1> QED BY <1>1, InductiveInvariant, PTL DEF Spec, ExpiryNotEarly
=============================================================================
