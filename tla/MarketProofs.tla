----------------------------- MODULE MarketProofs -----------------------------
(* The safety of MarketService: for lists and series of any length, any      *)
(* length of the lists of movers, and any bounds of a sample.                *)
EXTENDS MarketService, SequenceTheorems, FiniteSetTheorems, TLAPS

(* What was asked. *)
Ways == {"ids", "symbols", "names"}
Get == [how : Ways \cup {"premium", "markets", "series", "plain"},
        end : Failures \cup {"list", "empty", "object"}]

(* Every get so far went on to the next attempt, and error tells if one of   *)
(* them failed.                                                              *)
InVain ==
    /\ \A i \in 1..Len(asked) : asked[i].end \in Upstream \cup {"empty", "object"}
    /\ (error = "none") <=> (\A i \in 1..Len(asked) : asked[i].end \notin Upstream)

(* The attempts of a search are those made and those left, in order. *)
SearchInv ==
    op.name = "search_coin_market" =>
        LET ways == Attempts(op.lookup)
            n == Len(asked)
        IN /\ op.lookup \in Lookups
           /\ left \in Seq(Ways)
           /\ \A i \in 1..n : asked[i].how = ways[i] /\ asked[i].how \in Ways
           /\ result = None =>
                 /\ left # <<>> /\ n + Len(left) = Len(ways) /\ InVain
                 /\ \A k \in 1..Len(left) : left[k] = ways[n + k]
           /\ result.kind = "empty" => n = Len(ways) /\ InVain /\ result.error = error
           /\ result.kind = "match" =>
                 /\ n > 0 /\ asked[n] = [how |-> result.by, end |-> "list"]
                 /\ \A i \in 1..n - 1 : asked[i].end \in Upstream \cup {"empty", "object"}

(* The movers: the paid endpoint, and after its refusal the other.           *)
MoversInv ==
    op.name = "top_movers" =>
        /\ op.duration \in Durations
        /\ \/ /\ left = <<"premium", "markets">>
              /\ result = None => asked = <<>>
              /\ \A i \in 1..Len(asked) : asked[i].how = "premium"
           \/ /\ left = <<"markets">> /\ Len(asked) \in {1, 2}
              /\ asked[1].how = "premium" /\ asked[1].end \in Forbidden
              /\ result = None => Len(asked) = 1
              /\ Len(asked) = 2 => asked[2].how = "markets"

(* The others ask for one thing, and a sample has a size to be cut to.       *)
RestInv ==
    /\ op.name = "idle" => asked = <<>> /\ result = None /\ error = "none"
    /\ op.name \in {"series", "plain"} =>
          left = <<op.name>> /\ \A i \in 1..Len(asked) : asked[i].how = op.name
    /\ op.name = "series" => op.max \in Nat

(* Results are what the operation makes of what it got.                      *)
ResultInv ==
    /\ result.kind \in {"match", "empty"} => op.name = "search_coin_market"
    /\ result.kind = "movers" =>
          /\ op.name = "top_movers" /\ result.coins \in MarketLists
          /\ result.gainers = Gainers(result.coins) /\ result.losers = Losers(result.coins)
          /\ result.window = Window(op.duration)
    /\ result.kind = "series" =>
          /\ op.name = "series" /\ result.from \in Nat
          /\ result.points = SamplePoints(Series(result.from),
                                          Clamp(op.max, LeastPoints, MostPoints))

MarketInv ==
    /\ MarketTypeOK
    /\ asked \in Seq(Get)
    /\ SearchInv
    /\ MoversInv
    /\ RestInv
    /\ ResultInv

-----------------------------------------------------------------------------
(* sample_points.  Multiplication by a step that is 1 at least.              *)
LEMMA Steps ==
    ASSUME NEW step \in Nat \ {0}, NEW i \in Nat, NEW j \in Nat
    PROVE  /\ i * step \in Nat /\ i <= i * step
           /\ i < j => i * step < j * step /\ i * step + step <= j * step
           /\ (i + 1) * step = i * step + step
<1>1. i * step \in Nat /\ j * step \in Nat /\ (i + 1) * step = i * step + step
    BY SMT
<1>2. i <= i * step
    BY SMT
<1>3. ASSUME i < j
      PROVE  i * step + step <= j * step
    <2>1. (j - i - 1) \in Nat /\ j = i + 1 + (j - i - 1)
        BY <1>3
    <2>2. \A k \in Nat : k * step \in Nat /\ (i + 1 + k) * step = i * step + step + k * step
        BY SMT
    <2>3. j * step = i * step + step + (j - i - 1) * step /\ (j - i - 1) * step \in Nat
        BY <2>1, <2>2
    <2> QED BY <1>1, <2>3
<1> QED BY <1>1, <1>2, <1>3

LEMMA Quotient ==
    ASSUME NEW n \in Nat, NEW max \in Nat \ {0}, max < n
    PROVE  /\ n \div max \in Nat \ {0}
           /\ max * (n \div max) <= n
BY SMT

(* Rounded up: as many steps as fit, and one more for what is left.          *)
LEMMA RoundedUp ==
    ASSUME NEW n \in Nat, NEW step \in Nat \ {0}
    PROVE  /\ (n + step - 1) \div step \in Nat
           /\ \A k \in Nat : k * step <= n => k <= (n + step - 1) \div step
           /\ \A k \in Nat : k + 1 <= (n + step - 1) \div step => k * step + 1 <= n
<1> DEFINE d == (n + step - 1) \div step
           m == n + step - 1
<1>1. m \in Nat /\ d \in Nat
    BY SMT
<1>2. d * step <= m /\ m < d * step + step
    BY SMT
<1> HIDE DEF d
<1>3. ASSUME NEW k \in Nat, k * step <= n
      PROVE  k <= d
    <2>1. k > d => d * step + step <= k * step
        BY <1>1, Steps
    <2>2. d * step \in Nat /\ k * step \in Nat
        BY <1>1, Steps
    <2> QED BY <1>1, <1>2, <1>3, <2>1, <2>2
<1>4. ASSUME NEW k \in Nat, k + 1 <= d
      PROVE  k * step + 1 <= n
    <2>1. k * step + step <= d * step
        BY <1>1, <1>4, Steps
    <2>2. d * step \in Nat /\ k * step \in Nat
        BY <1>1, Steps
    <2> QED BY <1>1, <1>2, <2>1, <2>2
<1> QED BY <1>1, <1>3, <1>4 DEF d

LEMMA SampledSeries ==
    ASSUME NEW n \in Nat, NEW max \in Nat \ {0}, NEW s, s = SamplePoints(Series(n), max)
    PROVE  /\ s \in Seq(1..n) /\ Len(s) = Smaller(n, max)
           /\ \A i, j \in 1..Len(s) : i < j => s[i] < s[j]
           /\ Len(s) > 0 => s[Len(s)] = n
           /\ Len(s) > 1 => s[1] = 1
<1> DEFINE p == Series(n)
<1>1. p = [i \in 1..n |-> i] /\ p \in Seq(1..n) /\ Len(p) = n
    BY DEF Series
<1>2. max \in Nat /\ max > 0 /\ ~(max <= 0)
    OBVIOUS
<1> HIDE DEF p
<1>3. CASE n <= max
    <2>1. s = p
        BY <1>1, <1>2, <1>3 DEF SamplePoints, p
    <2>2. Smaller(n, max) = n
        BY <1>3 DEF Smaller
    <2> QED BY <1>1, <2>1, <2>2
<1>4. CASE max < n
    <2> DEFINE step == n \div max
               length == (n + step - 1) \div step
               every == [i \in 1..length |-> p[(i - 1) * step + 1]]
               cut == SubSeq(every, 1, max)
    <2>1. step \in Nat \ {0} /\ max * step <= n
        BY <1>4, Quotient
    <2> HIDE DEF step
    <2>2. /\ length \in Nat /\ max <= length
          /\ \A k \in Nat : k + 1 <= length => k * step + 1 <= n
        BY <2>1, RoundedUp
    <2> HIDE DEF length
    <2>3. Step(Len(p), max) = step
        BY <1>1, <2>1 DEF Step, Larger, step
    <2>4. EveryNth(p, step) = every
        BY <1>1 DEF EveryNth, length
    <2> DEFINE at(i) == (i - 1) * step + 1
    <2>5. \A i \in 1..length : at(i) \in 1..n
        <3> TAKE i \in 1..length
        <3>1. i - 1 \in Nat /\ (i - 1) + 1 <= length
            BY <2>2
        <3>2. (i - 1) * step \in Nat /\ (i - 1) * step + 1 <= n
            BY <2>1, <2>2, <3>1, Steps
        <3> QED BY <3>2
    <2>6. \A i \in 1..length : every[i] = at(i)
        BY <1>1, <2>5
    <2>7. ASSUME NEW i \in 1..max, NEW j \in 1..max, i < j
          PROVE  at(i) < at(j)
        <3>1. i - 1 \in Nat /\ j - 1 \in Nat /\ i - 1 < j - 1
            BY <2>7
        <3>2. /\ (i - 1) * step \in Nat /\ (j - 1) * step \in Nat
              /\ (i - 1) * step < (j - 1) * step
            BY <2>1, <3>1, Steps
        <3> QED BY <3>2
    <2>8. ASSUME NEW i \in 1..max, i < max
          PROVE  at(i) < n
        <3>1. i - 1 \in Nat /\ i - 1 < max - 1 /\ max - 1 \in Nat /\ max - 1 + 1 = max
            BY <2>8
        <3>2. /\ (i - 1) * step \in Nat /\ (max - 1) * step \in Nat
              /\ (i - 1) * step + step <= (max - 1) * step
              /\ max * step = (max - 1) * step + step
            BY <2>1, <3>1, Steps
        <3> QED BY <2>1, <3>2
    <2>9. at(1) = 1
        BY <2>1
    <2> HIDE DEF at
    <2>10. every \in Seq(1..n) /\ Len(every) = length
        <3>1. \A i \in 1..length : every[i] \in 1..n
            BY <2>5, <2>6
        <3>2. every = [i \in 1..length |-> every[i]]
            OBVIOUS
        <3> HIDE DEF every
        <3> QED BY <2>2, <3>1, <3>2
    <2> HIDE DEF every
    <2>11. Smaller(max, Len(every)) = max
        BY <2>2, <2>10 DEF Smaller
    <2>12. cut \in Seq(1..n) /\ Len(cut) = max /\ \A i \in 1..max : cut[i] = at(i)
        <3>1. \A i \in 1..max : every[i] \in 1..n /\ every[i] = at(i)
            BY <2>2, <2>5, <2>6
        <3>2. cut \in Seq(1..n) /\ Len(cut) = max /\ \A i \in 1..max : cut[i] = every[i]
            BY <2>2, <3>1, SubSeqProperties
        <3> QED BY <3>1, <3>2
    <2>13. Truncated(p, max) = cut
        BY <2>3, <2>4, <2>11 DEF Truncated
    <2> HIDE DEF cut
    <2>14. /\ s \in Seq(1..n) /\ Len(s) = max /\ s[max] = n
           /\ \A i \in 1..max : i # max => s[i] = at(i)
        <3>1. s = SamplePoints(p, max) /\ ~(Len(p) <= max)
            BY <1>1, <1>4 DEF p
        <3>2. s = [cut EXCEPT ![Len(cut)] = p[Len(p)]]
            BY <1>2, <2>13, <3>1 DEF SamplePoints
        <3>3. p[Len(p)] = n /\ n \in 1..n /\ max \in 1..max
            BY <1>1, <1>4
        <3>4. s = [cut EXCEPT ![max] = n]
            BY <2>12, <3>2, <3>3
        <3> QED BY <2>12, <3>3, <3>4, ExceptSeq
    <2>15. ASSUME NEW i \in 1..max, NEW j \in 1..max, i < j
           PROVE  s[i] < s[j]
        <3>1. s[i] = at(i) /\ i < max
            BY <2>14, <2>15
        <3>2. CASE j = max
            BY <2>8, <2>14, <3>1, <3>2
        <3>3. CASE j # max
            BY <2>7, <2>14, <2>15, <3>1, <3>3
        <3> QED BY <3>2, <3>3
    <2>16. Smaller(n, max) = max
        BY <1>4 DEF Smaller
    <2>17. max > 1 => s[1] = 1
        BY <2>9, <2>14
    <2> QED BY <2>14, <2>16, <2>17, <2>15
<1> QED BY <1>3, <1>4

-----------------------------------------------------------------------------
(* sorted()[:TopN].  A key is a figure for each of some places of a list.    *)
LEMMA PlacesDiffer ==
    ASSUME NEW D \in SUBSET Nat, IsFiniteSet(D), NEW key \in [D -> Int], NEW i \in D
    PROVE  /\ IsFiniteSet(Before(key, i)) /\ Cardinality(Before(key, i)) \in Nat
           /\ Cardinality(Before(key, i)) < Cardinality(D)
           /\ \A j \in D : key[i] < key[j] \/ (key[i] = key[j] /\ i < j) =>
                  Cardinality(Before(key, i)) < Cardinality(Before(key, j))
<1> DEFINE B(j) == Before(key, j)
<1>1. \A j \in D : B(j) = {k \in D : key[k] < key[j] \/ (key[k] = key[j] /\ k < j)}
    BY DEF Before
<1>2. \A j \in D : B(j) \subseteq D /\ j \notin B(j)
    BY <1>1
<1> HIDE DEF B
<1>3. \A j \in D : IsFiniteSet(B(j)) /\ Cardinality(B(j)) \in Nat
    BY <1>2, FS_Subset, FS_CardinalityType
<1>4. \A j \in D : /\ IsFiniteSet(B(j) \cup {j})
                   /\ Cardinality(B(j) \cup {j}) = Cardinality(B(j)) + 1
    BY <1>2, <1>3, FS_AddElement
<1>5. Cardinality(B(i)) < Cardinality(D)
    <2>1. B(i) \cup {i} \in SUBSET D
        BY <1>2
    <2>2. Cardinality(B(i) \cup {i}) <= Cardinality(D) /\ Cardinality(D) \in Nat
        BY <2>1, FS_Subset, FS_CardinalityType
    <2> QED BY <1>3, <1>4, <2>2
<1>6. ASSUME NEW j \in D, key[i] < key[j] \/ (key[i] = key[j] /\ i < j)
      PROVE  Cardinality(B(i)) < Cardinality(B(j))
    <2>1. \A k \in D : key[k] \in Int /\ k \in Nat
        OBVIOUS
    <2>2. i \in B(j)
        BY <1>1, <1>6
    <2>3. ASSUME NEW x \in B(i)
          PROVE  x \in B(j)
        <3>1. x \in D /\ (key[x] < key[i] \/ (key[x] = key[i] /\ x < i))
            BY <1>1, <2>3
        <3>2. key[x] < key[j] \/ (key[x] = key[j] /\ x < j)
            BY <1>6, <2>1, <3>1
        <3> QED BY <1>1, <3>1, <3>2
    <2>4. B(i) \cup {i} \in SUBSET B(j)
        BY <2>2, <2>3
    <2>5. Cardinality(B(i) \cup {i}) <= Cardinality(B(j))
        BY <1>3, <2>4, FS_Subset
    <2> QED BY <1>3, <1>4, <2>5
<1> QED BY <1>3, <1>5, <1>6 DEF B

(* Each place is taken. *)
LEMMA PlacesTaken ==
    ASSUME NEW D \in SUBSET Nat, IsFiniteSet(D), NEW key \in [D -> Int],
           NEW k \in 1..Cardinality(D)
    PROVE  \E i \in D : Cardinality(Before(key, i)) = k - 1
<1> DEFINE N == 1..Cardinality(D)
           f == [i \in D |-> Cardinality(Before(key, i)) + 1]
<1>1. Cardinality(D) \in Nat
    BY FS_CardinalityType
<1>2. IsFiniteSet(N) /\ Cardinality(N) = Cardinality(D)
    BY <1>1, FS_Interval
<1>3. \A i \in D : Cardinality(Before(key, i)) \in Nat /\ f[i] \in N
    BY <1>1, PlacesDiffer
<1>4. f \in [D -> N]
    BY <1>3
<1>5. ASSUME NEW i \in D, NEW j \in D, i # j
      PROVE  f[i] # f[j]
    <2>1. key[i] \in Int /\ key[j] \in Int /\ i \in Nat /\ j \in Nat
        OBVIOUS
    <2>2. \/ key[i] < key[j] \/ (key[i] = key[j] /\ i < j)
          \/ key[j] < key[i] \/ (key[j] = key[i] /\ j < i)
        BY <1>5, <2>1
    <2>3. \/ Cardinality(Before(key, i)) < Cardinality(Before(key, j))
          \/ Cardinality(Before(key, j)) < Cardinality(Before(key, i))
        BY <2>2, PlacesDiffer
    <2> QED BY <1>3, <2>3
<1>6. f \in Injection(D, N)
    BY <1>4, <1>5 DEF Injection, IsInjective
<1>7. f \in Surjection(D, N)
    BY <1>2, <1>6, FS_Injection
<1>8. \E i \in D : f[i] = k
    BY <1>7 DEF Surjection
<1> QED BY <1>3, <1>8

(* The list is fair: by the key, nothing outside goes before anything in it. *)
FairList(s, key, D) ==
    /\ Len(s) = Smaller(TopN, Cardinality(D))
    /\ \A k \in 1..Len(s) : s[k] \in D
    /\ \A j, k \in 1..Len(s) : j # k => s[j] # s[k]
    /\ \A j, k \in 1..Len(s) : j < k => ~(key[s[k]] < key[s[j]])
    /\ \A i \in D : (\A k \in 1..Len(s) : s[k] # i) =>
          \A k \in 1..Len(s) : ~(key[i] < key[s[k]])

LEMMA TopIsFair ==
    ASSUME NEW D \in SUBSET Nat, IsFiniteSet(D), NEW key \in [D -> Int],
           NEW s, s = Top(key)
    PROVE  s \in Seq(D) /\ FairList(s, key, D)
<1> DEFINE n == Smaller(TopN, Cardinality(D))
           C(i) == Cardinality(Before(key, i))
<1>1. n \in Nat /\ n <= Cardinality(D) /\ Cardinality(D) \in Nat
    BY FS_CardinalityType, MarketAssumption DEF Smaller
<1>2. DOMAIN key = D
    OBVIOUS
<1>3. s = [k \in 1..n |-> CHOOSE i \in D : C(i) = k - 1]
    BY <1>2 DEF Top
<1>4. ASSUME NEW k \in 1..n
      PROVE  s[k] \in D /\ C(s[k]) = k - 1
    <2>1. k \in 1..Cardinality(D)
        BY <1>1
    <2>2. \E i \in D : C(i) = k - 1
        BY <2>1, PlacesTaken
    <2>3. s[k] = CHOOSE i \in D : C(i) = k - 1
        BY <1>3
    <2> HIDE DEF C
    <2> QED BY <2>2, <2>3
<1>5. s \in Seq(D) /\ Len(s) = n
    <2>1. s = [k \in 1..n |-> s[k]]
        BY <1>3
    <2> QED BY <1>1, <1>4, <2>1
<1>6. \A i, j \in D : key[i] < key[j] => C(i) < C(j)
    BY PlacesDiffer
<1>7. \A i \in D : C(i) \in Nat /\ C(i) < Cardinality(D)
    BY PlacesDiffer
<1>8. \A i, j \in D : C(i) = C(j) => i = j
    <2> SUFFICES ASSUME NEW i \in D, NEW j \in D, i # j
                 PROVE  C(i) # C(j)
        OBVIOUS
    <2>1. key[i] \in Int /\ key[j] \in Int /\ i \in Nat /\ j \in Nat
        OBVIOUS
    <2>2. \/ key[i] < key[j] \/ (key[i] = key[j] /\ i < j)
          \/ key[j] < key[i] \/ (key[j] = key[i] /\ j < i)
        BY <2>1
    <2>3. C(i) < C(j) \/ C(j) < C(i)
        BY <2>2, PlacesDiffer
    <2> QED BY <1>7, <2>3
<1> HIDE DEF C, n
<1>9. ASSUME NEW j \in 1..n, NEW k \in 1..n, j < k
      PROVE  s[j] # s[k] /\ ~(key[s[k]] < key[s[j]])
    <2>1. s[j] \in D /\ s[k] \in D /\ C(s[j]) = j - 1 /\ C(s[k]) = k - 1
        BY <1>4
    <2>2. j - 1 < k - 1 /\ ~(k - 1 < j - 1)
        BY <1>1, <1>9
    <2> QED BY <1>6, <2>1, <2>2
<1>10. \A j, k \in 1..n : j # k => s[j] # s[k]
    BY <1>1, <1>4
<1>11. ASSUME NEW i \in D, \A k \in 1..n : s[k] # i, NEW k \in 1..n
       PROVE  ~(key[i] < key[s[k]])
    <2> SUFFICES ASSUME key[i] < key[s[k]] PROVE FALSE
        OBVIOUS
    <2>1. C(i) < k - 1 /\ C(i) \in Nat
        BY <1>4, <1>6, <1>7
    <2>2. \A m \in Nat : m < k - 1 =>
              m + 1 \in 1..n /\ s[m + 1] \in D /\ C(s[m + 1]) = m
        <3> SUFFICES ASSUME NEW m \in Nat, m < k - 1
                     PROVE  m + 1 \in 1..n /\ s[m + 1] \in D /\ C(s[m + 1]) = m
            OBVIOUS
        <3>1. m + 1 \in 1..n /\ m + 1 - 1 = m
            BY <1>1
        <3> QED BY <1>4, <3>1
    <2>3. PICK c \in 1..n : s[c] \in D /\ C(s[c]) = C(i)
        BY <2>1, <2>2
    <2>4. s[c] = i
        BY <1>8, <2>3
    <2> QED BY <1>11, <2>4
<1> QED BY <1>4, <1>5, <1>9, <1>10, <1>11 DEF FairList, n

-----------------------------------------------------------------------------
(* One get more. *)
Noted(old, new, g) ==
    /\ new \in Seq(Get) /\ Len(old) \in Nat /\ Len(new) = Len(old) + 1
    /\ \A i \in 1..Len(old) : new[i] = old[i]
    /\ new[Len(old) + 1] = g

LEMMA NoteFacts ==
    ASSUME asked \in Seq(Get), NEW g \in Get, asked' = Append(asked, g)
    PROVE  Noted(asked, asked', g)
<1> DEFINE new == Append(asked, g)
<1>1. /\ new \in Seq(Get) /\ Len(asked) \in Nat /\ Len(new) = Len(asked) + 1
      /\ \A i \in 1..Len(asked) : new[i] = asked[i]
      /\ new[Len(asked) + 1] = g
    BY AppendProperties, LenProperties
<1> HIDE DEF new
<1>2. Noted(asked, new, g)
    BY <1>1 DEF Noted
<1> QED BY <1>2, Zenon DEF new

LEMMA AttemptFacts ==
    ASSUME NEW lookup \in Lookups
    PROVE  Attempts(lookup) \in Seq(Ways) /\ Attempts(lookup) # <<>> /\ Len(Attempts(lookup)) \in Nat
<1>1. CASE lookup = "auto"
    <2> DEFINE all == <<"ids", "symbols", "names">>
    <2>1. all \in Seq(Ways) /\ Len(all) = 3
        BY DEF Ways
    <2>2. all # <<>>
        OBVIOUS
    <2>3. Attempts(lookup) = all
        BY <1>1 DEF Attempts
    <2> HIDE DEF all
    <2> QED BY <2>1, <2>2, <2>3
<1>2. CASE lookup # "auto"
    <2> DEFINE one == <<lookup>>
    <2>1. one \in Seq(Ways) /\ Len(one) = 1
        BY <1>2 DEF Lookups, Ways
    <2>2. one # <<>>
        OBVIOUS
    <2>3. Attempts(lookup) = one
        BY <1>2 DEF Attempts
    <2> HIDE DEF one
    <2> QED BY <2>1, <2>2, <2>3
<1> QED BY <1>1, <1>2

(* An operation begins with nothing asked and, unless it is refused, with    *)
(* all its attempts left.                                                    *)
LEMMA BeginStep ==
    ASSUME MarketInv, NEW o, NEW blank, NEW attempts, Begin(o, blank, attempts),
           \/ /\ o.name = "search_coin_market" /\ o.lookup \in Lookups
              /\ attempts = Attempts(o.lookup)
           \/ /\ o.name = "top_movers" /\ o.duration \in Durations
              /\ attempts = <<"premium", "markets">>
           \/ o.name = "series" /\ o.max \in Nat /\ attempts = <<"series">>
           \/ o.name = "plain" /\ attempts = <<"plain">>
    PROVE  MarketInv'
<1>1. /\ op' = o /\ left' = attempts /\ asked' = <<>> /\ error' = "none"
      /\ enabled' \in BOOLEAN /\ Len(asked') = 0
    BY EmptySeq DEF Begin, Idle, MarketInv, RestInv, MarketTypeOK
<1>2. result' \in {None, Raise("ValueError"), Raise("ConfigError")}
    BY DEF Begin, Refused
<1>3. result'.kind \in {"none", "raise"} /\ result' \in Results
    BY <1>2 DEF None, Raise, Results
<1>4. MarketTypeOK' /\ asked' \in Seq(Get)
    BY <1>1, <1>3, EmptySeq DEF MarketTypeOK, Results, MarketLists
<1>5. SearchInv'
    <2> SUFFICES ASSUME o.name = "search_coin_market"
                 PROVE  SearchInv'
        BY <1>1 DEF SearchInv
    <2>1. o.lookup \in Lookups /\ attempts = Attempts(o.lookup)
        OBVIOUS
    <2>2. attempts \in Seq(Ways) /\ attempts # <<>> /\ Len(attempts) \in Nat
        BY <2>1, AttemptFacts
    <2>3. \A k \in 1..Len(attempts) : attempts[k] = attempts[0 + k]
        BY <2>2
    <2> HIDE DEF Attempts
    <2> QED BY <1>1, <1>3, <2>1, <2>2, <2>3 DEF SearchInv, InVain
<1>6. MoversInv'
    BY <1>1 DEF MoversInv
<1>7. RestInv' /\ ResultInv'
    BY <1>1, <1>3 DEF RestInv, ResultInv
<1> QED BY <1>4, <1>5, <1>6, <1>7 DEF MarketInv

LEMMA SearchedStep ==
    ASSUME MarketInv, NEW end \in Failures \cup {"list", "empty", "object"}, Searched(end)
    PROVE  MarketInv'
<1> USE DEF MarketInv
<1> DEFINE ways == Attempts(op.lookup)
           n == Len(asked)
           g == [how |-> Head(left), end |-> end]
<1>1. op.name = "search_coin_market" /\ result = None /\ op' = op /\ enabled' = enabled
      /\ asked' = Append(asked, g)
    BY DEF Searched, Asking, Note
<1>2. /\ op.lookup \in Lookups /\ left \in Seq(Ways) /\ left # <<>>
      /\ n + Len(left) = Len(ways) /\ InVain
      /\ \A i \in 1..n : asked[i].how = ways[i] /\ asked[i].how \in Ways
      /\ \A k \in 1..Len(left) : left[k] = ways[n + k]
    BY <1>1 DEF SearchInv
<1>3. Len(ways) \in Nat
    BY <1>2, AttemptFacts
<1> HIDE DEF ways
<1>4. /\ Len(left) \in Nat /\ Len(left) > 0 /\ Head(left) \in Ways /\ Head(left) = ways[n + 1]
      /\ Tail(left) \in Seq(Ways) /\ Len(Tail(left)) = Len(left) - 1
      /\ \A k \in 1..Len(left) - 1 : Tail(left)[k] = left[k + 1]
    <2>1. Len(left) \in Nat /\ Len(left) # 0
        BY <1>2, EmptySeq, LenProperties
    <2>2. 1 \in 1..Len(left) /\ Head(left) = left[1]
        BY <1>2, <2>1, HeadTailProperties
    <2>3. left[1] \in Ways /\ left[1] = ways[n + 1]
        BY <1>2, <2>2, ElementOfSeq
    <2> QED BY <1>2, <2>1, <2>2, <2>3, HeadTailProperties
<1>5. g \in Get /\ g.how = Head(left) /\ g.end = end
    BY <1>4 DEF Get
<1> HIDE DEF g
<1>6. Noted(asked, asked', g)
    BY <1>1, <1>5, NoteFacts
<1>7. n \in Nat /\ Len(asked') = n + 1 /\ asked' \in Seq(Get) /\ asked'[n + 1] = g
      /\ \A i \in 1..n : asked'[i] = asked[i]
    BY <1>6 DEF Noted
<1>8. ways' = ways
    BY <1>1 DEF ways
<1>9. \A i \in 1..Len(asked') : i \in 1..n \/ i = n + 1
    BY <1>7
<1>10. \A i \in 1..Len(asked') : asked'[i].how = ways[i] /\ asked'[i].how \in Ways
    BY <1>2, <1>4, <1>5, <1>7, <1>9
<1>11. MoversInv' /\ RestInv'
    BY <1>1 DEF MoversInv, RestInv
<1> HIDE DEF n
<1>12. CASE end \in Stops /\ result' = Raise(end) /\ UNCHANGED <<left, error>>
    <2>1. result' \in Results /\ result'.kind = "raise" /\ result' # None
        BY <1>12 DEF Stops, Failures, Raise, None, Results
    <2>2. MarketTypeOK' /\ ResultInv'
        BY <1>1, <1>12, <2>1 DEF MarketTypeOK, ResultInv, Results, MarketLists
    <2>3. SearchInv'
        BY <1>1, <1>2, <1>8, <1>10, <1>12, <2>1 DEF SearchInv, ways
    <2> QED BY <1>7, <1>11, <2>2, <2>3
<1>13. ASSUME NextAttempt, end \in Upstream \cup {"empty", "object"}, error' \in Upstream \cup {"none"},
              end \in Upstream => error' = end, end \notin Upstream => error' = error
       PROVE  MarketInv'
    <2>1. InVain'
        <3>1. \A i \in 1..Len(asked') : asked'[i].end \in Upstream \cup {"empty", "object"}
            BY <1>2, <1>5, <1>7, <1>9, <1>13 DEF InVain, n
        <3>2. (error = "none") <=> (\A i \in 1..n : asked'[i].end \notin Upstream)
            BY <1>2, <1>7 DEF InVain, n
        <3>3. (error' = "none") <=> (error = "none" /\ end \notin Upstream)
            BY <1>13 DEF Upstream
        <3>4. n + 1 \in 1..Len(asked') /\ \A i \in 1..n : i \in 1..Len(asked')
            BY <1>7
        <3>5. (\A i \in 1..Len(asked') : asked'[i].end \notin Upstream)
                 <=> ((\A i \in 1..n : asked'[i].end \notin Upstream) /\ end \notin Upstream)
            BY <1>5, <1>7, <1>9, <3>4
        <3> QED BY <3>1, <3>2, <3>3, <3>5 DEF InVain
    <2>2. /\ left' = Tail(left) /\ left' \in Seq(Ways)
          /\ \A k \in 1..Len(left') : left'[k] = ways[Len(asked') + k]
          /\ Len(asked') + Len(left') = Len(ways)
        <3>1. left' = Tail(left) /\ Len(left') = Len(left) - 1
            BY <1>4, <1>13 DEF NextAttempt
        <3>2. ASSUME NEW k \in 1..Len(left')
              PROVE  left'[k] = ways[Len(asked') + k]
            <4>1. k + 1 \in 1..Len(left) /\ left'[k] = left[k + 1] /\ n + (k + 1) = Len(asked') + k
                BY <1>4, <1>7, <3>1
            <4> QED BY <1>2, <4>1 DEF n
        <3> QED BY <1>2, <1>3, <1>4, <1>7, <3>1, <3>2 DEF n
    <2>3. CASE left' = <<>>
        <3>1. result' = [kind |-> "empty", error |-> error']
            BY <1>13, <2>2, <2>3 DEF NextAttempt
        <3>2. result' \in Results /\ result'.kind = "empty" /\ result'.error = error' /\ result' # None
            BY <1>13, <3>1 DEF Results, None
        <3>3. Len(asked') = Len(ways)
            <4>1. Len(left') = 0
                BY <2>3, EmptySeq
            <4> QED BY <1>7, <2>2, <4>1
        <3>4. MarketTypeOK' /\ ResultInv'
            BY <1>1, <1>13, <3>2 DEF MarketTypeOK, ResultInv, Results, MarketLists
        <3>5. SearchInv'
            BY <1>1, <1>2, <1>8, <1>10, <2>1, <2>2, <3>2, <3>3 DEF SearchInv, ways
        <3> QED BY <1>7, <1>11, <3>4, <3>5
    <2>4. CASE left' # <<>>
        <3>1. result' = None
            BY <1>13, <2>2, <2>4 DEF NextAttempt
        <3>2. result' \in Results /\ result'.kind = "none"
            BY <3>1 DEF Results, None
        <3>3. MarketTypeOK' /\ ResultInv'
            BY <1>1, <1>13, <3>2 DEF MarketTypeOK, ResultInv, Results, MarketLists
        <3>4. SearchInv'
            BY <1>1, <1>2, <1>8, <1>10, <2>1, <2>2, <2>4, <3>2 DEF SearchInv, ways
        <3> QED BY <1>7, <1>11, <3>3, <3>4
    <2> QED BY <2>3, <2>4
<1>14. CASE end = "list" /\ result' = [kind |-> "match", by |-> Head(left)] /\ UNCHANGED <<left, error>>
    <2>1. result' \in Results /\ result'.kind = "match" /\ result' # None /\ result'.by = Head(left)
        BY <1>4, <1>14 DEF None, Results, Ways
    <2>2. asked'[Len(asked')] = [how |-> result'.by, end |-> "list"] /\ Len(asked') > 0
        BY <1>7, <1>14, <2>1 DEF g
    <2>3. \A i \in 1..Len(asked') - 1 : asked'[i].end \in Upstream \cup {"empty", "object"}
        BY <1>2, <1>7 DEF InVain, n
    <2>4. MarketTypeOK' /\ ResultInv'
        BY <1>1, <1>14, <2>1 DEF MarketTypeOK, ResultInv, Results, MarketLists
    <2>5. SearchInv'
        BY <1>1, <1>2, <1>8, <1>10, <1>14, <2>1, <2>2, <2>3 DEF SearchInv, ways
    <2> QED BY <1>7, <1>11, <2>4, <2>5
<1>15. CASE end \in Failures \ Stops /\ error' = end /\ NextAttempt
    BY <1>13, <1>15 DEF Failures, Stops, Upstream
<1>16. CASE end \in {"empty", "object"} /\ FoundNothing /\ NextAttempt
    BY <1>13, <1>16 DEF FoundNothing, Upstream, MarketTypeOK
<1> QED BY <1>12, <1>14, <1>15, <1>16 DEF Searched

(* The coins with a figure, and the two lists of them. *)
Rated(coins) == {i \in 1..Len(coins) : coins[i] # NoChange}

LEMMA MoversFacts ==
    ASSUME NEW coins \in MarketLists
    PROVE  /\ Gainers(coins) \in Seq(1..Coins) /\ Losers(coins) \in Seq(1..Coins)
           /\ IsFiniteSet(Rated(coins))
           /\ FairList(Gainers(coins), [i \in Rated(coins) |-> -coins[i]], Rated(coins))
           /\ FairList(Losers(coins), [i \in Rated(coins) |-> coins[i]], Rated(coins))
<1> DEFINE D == Rated(coins)
           up == [i \in D |-> coins[i]]
           down == [i \in D |-> -coins[i]]
<1>1. PICK n \in 0..Coins : coins \in [1..n -> Changes \cup {NoChange}]
    BY DEF MarketLists
<1>2. n \in Nat /\ Coins \in Nat /\ n <= Coins
    BY <1>1, MarketAssumption
<1>3. Len(coins) = n /\ D = {i \in 1..n : coins[i] # NoChange}
    BY <1>1, <1>2 DEF Rated
<1>4. D \in SUBSET Nat /\ D \subseteq 1..n /\ D \subseteq 1..Coins /\ IsFiniteSet(D)
    <2>1. IsFiniteSet(1..n)
        BY <1>2, FS_Interval
    <2>2. D \in SUBSET (1..n)
        BY <1>3
    <2> HIDE DEF D
    <2>3. IsFiniteSet(D)
        BY <2>1, <2>2, FS_Subset
    <2>4. \A i \in 1..n : i \in Nat /\ i \in 1..Coins
        BY <1>2
    <2> QED BY <2>2, <2>3, <2>4
<1>5. \A i \in D : coins[i] \in Int
    BY <1>1, <1>3, MarketAssumption
<1>6. Sortable(coins) = up
    BY DEF Sortable, Rated
<1> HIDE DEF D
<1>7. up \in [D -> Int] /\ down \in [D -> Int]
    BY <1>5
<1>8. Negated(Sortable(coins)) = down
    BY <1>6 DEF Negated
<1> HIDE DEF up, down
<1>9. \A s \in Seq(D) : s \in Seq(1..Coins)
    BY <1>4, SeqMonotonic
<1>10. Gainers(coins) \in Seq(D) /\ FairList(Gainers(coins), down, D)
    BY <1>4, <1>7, <1>8, TopIsFair DEF Gainers
<1>11. Losers(coins) \in Seq(D) /\ FairList(Losers(coins), up, D)
    BY <1>4, <1>6, <1>7, TopIsFair DEF Losers
<1> QED BY <1>4, <1>9, <1>10, <1>11 DEF D, up, down

LEMMA AskedPremiumStep ==
    ASSUME MarketInv, NEW end \in Failures \cup {"list"}, AskedPremium(end)
    PROVE  MarketInv'
<1> USE DEF MarketInv
<1> DEFINE g == [how |-> "premium", end |-> end]
<1>1. op.name = "top_movers" /\ result = None /\ op' = op /\ enabled' = enabled
      /\ asked' = Append(asked, g) /\ Head(left) = "premium" /\ error' = error
    BY DEF AskedPremium, Asking, Note
<1>2. left = <<"premium", "markets">> /\ asked = <<>> /\ op.duration \in Durations
    BY <1>1 DEF MoversInv
<1>3. g \in Get /\ g.how = "premium" /\ g.end = end
    BY DEF Get
<1> HIDE DEF g
<1>4. Noted(asked, asked', g)
    BY <1>1, <1>3, NoteFacts
<1>5. Len(asked') = 1 /\ asked' \in Seq(Get) /\ asked'[1] = g
    BY <1>2, <1>4, EmptySeq DEF Noted
<1>6. SearchInv' /\ RestInv'
    BY <1>1 DEF SearchInv, RestInv
<1>7. CASE end \in Forbidden /\ left' = Tail(left) /\ UNCHANGED result
    <2>1. left' = <<"markets">>
        BY <1>2, <1>7
    <2>2. MarketTypeOK' /\ ResultInv'
        BY <1>1, <1>7 DEF MarketTypeOK, ResultInv, Results, MarketLists, None
    <2>3. MoversInv'
        BY <1>1, <1>2, <1>3, <1>5, <1>7, <2>1 DEF MoversInv
    <2> QED BY <1>5, <1>6, <2>2, <2>3
<1>8. ASSUME UNCHANGED left, result' \in Results, result'.kind \in {"raise", "data"}
      PROVE  MarketInv'
    <2>1. result' # None
        BY <1>8 DEF None
    <2>2. MarketTypeOK' /\ ResultInv'
        BY <1>1, <1>8 DEF MarketTypeOK, ResultInv, Results, MarketLists
    <2>3. MoversInv'
        BY <1>1, <1>2, <1>3, <1>5, <1>8, <2>1 DEF MoversInv
    <2> QED BY <1>5, <1>6, <2>2, <2>3
<1>9. CASE end \in Failures \ Forbidden /\ result' = Raise(end) /\ UNCHANGED left
    <2>1. result' \in Results /\ result'.kind = "raise"
        BY <1>9 DEF Raise, Results
    <2> QED BY <1>8, <1>9, <2>1
<1>10. CASE end = "list" /\ result' = [kind |-> "data"] /\ UNCHANGED left
    <2>1. result' \in Results /\ result'.kind = "data"
        BY <1>10 DEF Results
    <2> QED BY <1>8, <1>10, <2>1
<1> QED BY <1>7, <1>9, <1>10 DEF AskedPremium

(* The second get of the movers, whatever comes of it.                       *)
LEMMA MarketsStep ==
    ASSUME MarketInv, Asking("top_movers"), Head(left) = "markets", UNCHANGED <<left, error>>,
           NEW end \in Failures \cup {"list"}, Note("markets", end),
           result' \in Results, result'.kind \in {"raise", "movers"}, ResultInv'
    PROVE  MarketInv'
<1> USE DEF MarketInv
<1> DEFINE g == [how |-> "markets", end |-> end]
<1>1. op.name = "top_movers" /\ result = None /\ op' = op /\ enabled' = enabled
      /\ asked' = Append(asked, g)
    BY DEF Asking, Note
<1>2. /\ left = <<"markets">> /\ Len(asked) = 1 /\ op.duration \in Durations
      /\ asked[1].how = "premium" /\ asked[1].end \in Forbidden
    BY <1>1 DEF MoversInv
<1>3. g \in Get /\ g.how = "markets" /\ g.end = end
    BY DEF Get
<1> HIDE DEF g
<1>4. Noted(asked, asked', g)
    BY <1>1, <1>3, NoteFacts
<1>5. Len(asked') = 2 /\ asked' \in Seq(Get) /\ asked'[1] = asked[1] /\ asked'[2] = g
    BY <1>2, <1>4 DEF Noted
<1>6. SearchInv' /\ RestInv' /\ result' # None
    BY <1>1 DEF SearchInv, RestInv, None
<1>7. MarketTypeOK'
    BY <1>1 DEF MarketTypeOK, Results, MarketLists
<1>8. MoversInv'
    BY <1>1, <1>2, <1>3, <1>5, <1>6 DEF MoversInv
<1> QED BY <1>5, <1>6, <1>7, <1>8

LEMMA AskedMarketsStep ==
    ASSUME MarketInv, NEW coins \in MarketLists, AskedMarkets(coins)
    PROVE  MarketInv'
<1> USE DEF AskedMarkets
<1>1. op.name = "top_movers" /\ op' = op /\ op.duration \in Durations
    BY DEF Asking, MarketInv, MoversInv
<1>2. Window(op.duration) \in MarketsWindows
    BY DEF Window, MarketsWindows
<1>3. Gainers(coins) \in Seq(1..Coins) /\ Losers(coins) \in Seq(1..Coins)
    BY MoversFacts
<1>4. /\ result'.kind = "movers" /\ result'.coins = coins /\ result'.window = Window(op.duration)
      /\ result'.gainers = Gainers(coins) /\ result'.losers = Losers(coins)
    OBVIOUS
<1>5. result' \in Results
    BY <1>2, <1>3 DEF Results
<1>6. ResultInv'
    BY <1>1, <1>4 DEF ResultInv
<1> QED BY <1>4, <1>5, <1>6, MarketsStep

(* The operations that ask once: a series is sampled, a failure is raised.   *)
LEMMA AskedOnce ==
    ASSUME MarketInv, op.name \in {"series", "plain"}, Asking(op.name),
           NEW end \in Failures \cup {"list"}, Note(op.name, end), UNCHANGED <<left, error>>,
           result' \in Results, result'.kind \in {"raise", "data", "series"}, ResultInv'
    PROVE  MarketInv'
<1> USE DEF MarketInv
<1> DEFINE g == [how |-> op.name, end |-> end]
<1>1. op' = op /\ enabled' = enabled /\ asked' = Append(asked, g)
    BY DEF Asking, Note
<1>2. left = <<op.name>> /\ \A i \in 1..Len(asked) : asked[i].how = op.name
    BY DEF RestInv
<1>3. g \in Get /\ g.how = op.name
    BY DEF Get
<1> HIDE DEF g
<1>4. Noted(asked, asked', g)
    BY <1>1, <1>3, NoteFacts
<1>5. asked' \in Seq(Get) /\ \A i \in 1..Len(asked') : asked'[i].how = op.name
    <2>1. /\ asked' \in Seq(Get) /\ Len(asked) \in Nat /\ Len(asked') = Len(asked) + 1
          /\ asked'[Len(asked) + 1] = g
          /\ \A i \in 1..Len(asked) : asked'[i] = asked[i]
        BY <1>4 DEF Noted
    <2>2. \A i \in 1..Len(asked') : i \in 1..Len(asked) \/ i = Len(asked) + 1
        BY <2>1
    <2> QED BY <1>2, <1>3, <2>1, <2>2
<1>6. RestInv'
    BY <1>1, <1>2, <1>5 DEF RestInv
<1>7. MarketTypeOK'
    BY <1>1 DEF MarketTypeOK, Results, MarketLists
<1>8. SearchInv' /\ MoversInv'
    BY <1>1 DEF SearchInv, MoversInv
<1> QED BY <1>5, <1>6, <1>7, <1>8

LEMMA ClampFacts ==
    ASSUME NEW max \in Nat
    PROVE  Clamp(max, LeastPoints, MostPoints) \in Nat \ {0}
BY MarketAssumption DEF Clamp, Smaller, Larger

LEMMA AskedSeriesStep ==
    ASSUME MarketInv, NEW n \in 0..MaxLength, AskedSeries(n)
    PROVE  MarketInv'
<1> DEFINE max == Clamp(op.max, LeastPoints, MostPoints)
           s == SamplePoints(Series(n), max)
<1>1. /\ op.name = "series" /\ op' = op /\ Asking(op.name) /\ Note(op.name, "list")
      /\ UNCHANGED <<left, error>>
    BY DEF AskedSeries, Asking
<1>2. n \in Nat /\ max \in Nat \ {0} /\ MaxLength \in Nat /\ n <= MaxLength
    <2>1. op.max \in Nat
        BY <1>1 DEF MarketInv, RestInv
    <2>2. max \in Nat \ {0}
        BY <2>1, ClampFacts
    <2> HIDE DEF max
    <2> QED BY <2>2, MarketAssumption
<1>3. result' = [kind |-> "series", from |-> n, points |-> s]
    BY DEF AskedSeries
<1> HIDE DEF max
<1>4. s \in Seq(1..n)
    BY <1>2, SampledSeries
<1> HIDE DEF s
<1>5. s \in Seq(1..MaxLength)
    BY <1>2, <1>4, 1..n \subseteq 1..MaxLength, SeqMonotonic
<1>6. result' \in Results /\ result'.kind = "series" /\ result'.from = n /\ result'.points = s
    BY <1>3, <1>5 DEF Results
<1>7. ResultInv'
    BY <1>1, <1>2, <1>6 DEF ResultInv, s, max
<1> QED BY <1>1, <1>6, <1>7, AskedOnce

LEMMA AskedPlainStep ==
    ASSUME MarketInv, AskedPlain
    PROVE  MarketInv'
<1>1. op.name = "plain" /\ Asking(op.name) /\ Note(op.name, "list") /\ UNCHANGED <<left, error>>
    BY DEF AskedPlain, Asking
<1>2. result' \in Results /\ result'.kind = "data"
    BY DEF AskedPlain, Results
<1>3. ResultInv'
    BY <1>2 DEF ResultInv
<1> QED BY <1>1, <1>2, <1>3, AskedOnce

LEMMA AskFailedStep ==
    ASSUME MarketInv, NEW end \in Failures, AskFailed(end)
    PROVE  MarketInv'
<1>1. result' \in Results /\ result'.kind = "raise"
    BY DEF AskFailed, Raise, Results
<1>2. ResultInv'
    BY <1>1 DEF ResultInv
<1>3. Note(Head(left), end) /\ UNCHANGED <<left, error>>
    BY DEF AskFailed
<1>4. CASE Asking("top_movers") /\ Head(left) = "markets"
    BY <1>1, <1>2, <1>3, <1>4, MarketsStep
<1>5. CASE Asking("series") \/ Asking("plain")
    <2>1. op.name \in {"series", "plain"} /\ Asking(op.name)
        BY <1>5 DEF Asking
    <2>2. left = <<op.name>>
        BY <2>1 DEF MarketInv, RestInv
    <2>3. Head(left) = op.name
        BY <2>2
    <2> QED BY <1>1, <1>2, <1>3, <2>1, <2>3, AskedOnce
<1> QED BY <1>4, <1>5 DEF AskFailed

LEMMA ReturnStep ==
    ASSUME MarketInv, Return
    PROVE  MarketInv'
<1>1. /\ op'.name = "idle" /\ error' = "none" /\ asked' = <<>> /\ result' = None
      /\ enabled' \in BOOLEAN
    BY DEF Return, MarketInv, MarketTypeOK
<1>2. result' \in Results /\ result'.kind = "none" /\ asked' \in Seq(Get)
    BY <1>1, EmptySeq DEF None, Results
<1>3. MarketTypeOK'
    BY <1>1, <1>2 DEF MarketTypeOK, Results, MarketLists
<1>4. SearchInv' /\ MoversInv' /\ RestInv' /\ ResultInv'
    BY <1>1, <1>2 DEF SearchInv, MoversInv, RestInv, ResultInv
<1> QED BY <1>2, <1>3, <1>4 DEF MarketInv

-----------------------------------------------------------------------------
LEMMA MarketInvInit == MarketInit => MarketInv
<1> SUFFICES ASSUME MarketInit PROVE MarketInv
    OBVIOUS
<1> USE DEF MarketInit
<1>1. op.name = "idle" /\ result \in Results /\ result.kind = "none" /\ asked \in Seq(Get)
    BY EmptySeq DEF None, Results
<1>2. MarketTypeOK
    BY <1>1 DEF MarketTypeOK
<1>3. SearchInv /\ MoversInv /\ RestInv /\ ResultInv
    BY <1>1 DEF SearchInv, MoversInv, RestInv, ResultInv
<1> QED BY <1>1, <1>2, <1>3 DEF MarketInv

LEMMA MarketInvStep == MarketInv /\ [MarketNext]_vars => MarketInv'
<1> SUFFICES ASSUME MarketInv, [MarketNext]_vars PROVE MarketInv'
    OBVIOUS
<1>1. ASSUME NEW lookup \in Lookups, NEW blank \in BOOLEAN, SearchCoinMarket(lookup, blank)
      PROVE  MarketInv'
    <2> DEFINE o == [name |-> "search_coin_market", lookup |-> lookup]
    <2>1. o.name = "search_coin_market" /\ o.lookup \in Lookups /\ o.lookup = lookup
        OBVIOUS
    <2>2. Begin(o, blank, Attempts(lookup))
        BY <1>1 DEF SearchCoinMarket
    <2> HIDE DEF o
    <2> QED BY <2>1, <2>2, BeginStep
<1>2. ASSUME NEW max \in 0..MostPoints + 1, NEW blank \in BOOLEAN, SeriesOf(max, blank)
      PROVE  MarketInv'
    <2> DEFINE o == [name |-> "series", max |-> max]
    <2>1. o.name = "series" /\ o.max \in Nat
        BY MarketAssumption
    <2>2. Begin(o, blank, <<"series">>)
        BY <1>2 DEF SeriesOf
    <2> HIDE DEF o
    <2> QED BY <2>1, <2>2, BeginStep
<1>3. ASSUME NEW blank \in BOOLEAN, PlainOperation(blank)
      PROVE  MarketInv'
    <2> DEFINE o == [name |-> "plain"]
    <2>1. o.name = "plain"
        OBVIOUS
    <2>2. Begin(o, blank, <<"plain">>)
        BY <1>3 DEF PlainOperation
    <2> HIDE DEF o
    <2> QED BY <2>1, <2>2, BeginStep
<1>4. ASSUME NEW duration \in Durations, TopMovers(duration)
      PROVE  MarketInv'
    <2> DEFINE o == [name |-> "top_movers", duration |-> duration]
    <2>1. o.name = "top_movers" /\ o.duration \in Durations
        OBVIOUS
    <2>2. Begin(o, FALSE, <<"premium", "markets">>)
        BY <1>4 DEF TopMovers
    <2> HIDE DEF o
    <2> QED BY <2>1, <2>2, BeginStep
<1>5. CASE UNCHANGED vars
    BY <1>5 DEF vars, MarketInv, MarketTypeOK, SearchInv, MoversInv, RestInv, ResultInv, InVain,
                Results, MarketLists
<1> QED BY <1>1, <1>2, <1>3, <1>4, <1>5, SearchedStep, AskedPremiumStep, AskedMarketsStep,
           AskedSeriesStep, AskedPlainStep, AskFailedStep, ReturnStep DEF MarketNext

LEMMA MarketInvHolds == MarketSpec => []MarketInv
BY MarketInvInit, MarketInvStep, PTL DEF MarketSpec

-----------------------------------------------------------------------------
(* Every state has its type; in particular the lists of movers are lists of  *)
(* places of the answer and a sample is made of points of its series         *)
(* (service.py:48-195).                                                      *)
THEOREM MarketTypeCorrect == MarketSpec => []MarketTypeOK
<1>1. MarketInv => MarketTypeOK
    BY DEF MarketInv
<1> QED BY <1>1, MarketInvHolds, PTL

(* A coin is found by the most precise way of looking that lists it: the     *)
(* ways before it were all tried, and none of them was rate limited          *)
(* (service.py:59-94).                                                       *)
THEOREM FirstMatchWins == MarketSpec => []MatchIsTheFirst
<1>1. MarketInv => MatchIsTheFirst
    <2> SUFFICES ASSUME MarketInv, result.kind = "match"
                 PROVE  MatchIsTheFirst
        BY DEF MatchIsTheFirst
    <2>1. op.name = "search_coin_market"
        BY DEF MarketInv, ResultInv
    <2> QED BY <2>1 DEF MarketInv, SearchInv, MatchIsTheFirst
<1> QED BY <1>1, MarketInvHolds, PTL

(* An empty answer is honest: all ways were tried, none was rate limited,    *)
(* and "no error" is said only when all were answered (service.py:82-103).  *)
THEOREM EmptyAnswersAreHonest == MarketSpec => []EmptyIsHonest
<1>1. MarketInv => EmptyIsHonest
    <2> SUFFICES ASSUME MarketInv, result.kind = "empty"
                 PROVE  EmptyIsHonest
        BY DEF EmptyIsHonest
    <2>1. op.name = "search_coin_market"
        BY DEF MarketInv, ResultInv
    <2> QED BY <2>1 DEF MarketInv, SearchInv, InVain, EmptyIsHonest
<1> QED BY <1>1, MarketInvHolds, PTL

(* The fallback of top_movers is asked only after a 401 or 403, so no outage *)
(* and no 429 is answered with it (service.py:154-172).                      *)
THEOREM FallbackNeedsRefusal == MarketSpec => []FallbackOnlyWhenForbidden
<1>1. MarketInv => FallbackOnlyWhenForbidden
    <2> SUFFICES ASSUME MarketInv
                 PROVE  FallbackOnlyWhenForbidden
        OBVIOUS
    <2>1. ASSUME NEW i \in 1..Len(asked), asked[i].how = "markets"
          PROVE  Ends({"premium"}) \in {{"401"}, {"403"}}
        <3>1. op.name = "top_movers"
            <4>1. op.name # "search_coin_market"
                BY <2>1 DEF MarketInv, SearchInv, Ways
            <4>2. op.name \notin {"series", "plain"}
                BY <2>1 DEF MarketInv, RestInv
            <4>3. op.name # "idle"
                BY <2>1, EmptySeq DEF MarketInv, RestInv
            <4> QED BY <4>1, <4>2, <4>3 DEF MarketInv, MarketTypeOK
        <3>2. /\ Len(asked) \in {1, 2} /\ asked[1].how = "premium" /\ asked[1].end \in Forbidden
              /\ Len(asked) = 2 => asked[2].how = "markets"
            BY <2>1, <3>1 DEF MarketInv, MoversInv
        <3>3. {k \in 1..Len(asked) : asked[k].how \in {"premium"}} = {1}
            BY <3>2
        <3>4. Ends({"premium"}) = {asked[1].end}
            BY <3>3 DEF Ends
        <3> QED BY <3>2, <3>4 DEF Forbidden
    <2>2. Ends({"markets"}) # {} => \E i \in 1..Len(asked) : asked[i].how = "markets"
        BY DEF Ends
    <2>3. result.kind = "movers" => result.window \in MarketsWindows \cap {op.duration, "30d"}
        BY DEF MarketInv, ResultInv, Window, MarketsWindows
    <2> QED BY <2>1, <2>2, <2>3 DEF FallbackOnlyWhenForbidden
<1> QED BY <1>1, MarketInvHolds, PTL

(* A list without repetition has as many members as places.                  *)
LEMMA DistinctMembers ==
    ASSUME NEW D, NEW s \in Seq(D), \A j, k \in 1..Len(s) : j # k => s[j] # s[k]
    PROVE  Cardinality({s[k] : k \in 1..Len(s)}) = Len(s)
<1> DEFINE N == 1..Len(s)
           M == {s[k] : k \in N}
           f == [k \in N |-> s[k]]
<1>1. Len(s) \in Nat
    BY LenProperties
<1>2. IsFiniteSet(N) /\ Cardinality(N) = Len(s)
    <2>1. \A n \in Nat : IsFiniteSet(1..n) /\ Cardinality(1..n) = n
        BY FS_Interval
    <2> QED BY <1>1, <2>1
<1>3. f \in [N -> M] /\ \A j, k \in N : j # k => f[j] # f[k]
    OBVIOUS
<1>4. \A m \in M : \E k \in N : f[k] = m
    OBVIOUS
<1> HIDE DEF N, M, f
<1>5. f \in Surjection(N, M) /\ f \in Injection(N, M)
    BY <1>3, <1>4 DEF Surjection, Injection, IsInjective
<1>6. IsFiniteSet(M) /\ (Cardinality(M) = Cardinality(N) <=> f \in Injection(N, M))
    BY <1>2, <1>5, FS_Surjection
<1> QED BY <1>2, <1>5, <1>6 DEF M, N

(* The derived lists say what they claim: no coin left out would deserve a   *)
(* place, none is listed twice, none lacks a figure (service.py:178-184).    *)
THEOREM MoversDeserveTheirPlace == MarketSpec => []MoversAreExtreme
<1>1. MarketInv => MoversAreExtreme
    <2> SUFFICES ASSUME MarketInv, result.kind = "movers"
                 PROVE  MoversAreExtreme
        BY DEF MoversAreExtreme
    <2> DEFINE coins == result.coins
               D == Rated(coins)
               up == [i \in D |-> coins[i]]
               down == [i \in D |-> -coins[i]]
    <2>1. /\ coins \in MarketLists
          /\ result.gainers = Gainers(coins) /\ result.losers = Losers(coins)
        BY DEF MarketInv, ResultInv
    <2>2. FairList(result.gainers, down, D) /\ FairList(result.losers, up, D)
        BY <2>1, MoversFacts
    <2>3. result.gainers \in Seq(1..Coins) /\ result.losers \in Seq(1..Coins)
        BY <2>1, MoversFacts
    <2>4. \A i \in D : coins[i] \in Int
        <3>1. PICK n \in 0..Coins : coins \in [1..n -> Changes \cup {NoChange}]
            BY <2>1 DEF MarketLists
        <3>2. n \in Nat
            BY <3>1, MarketAssumption
        <3>3. Len(coins) = n
            BY <3>1, <3>2
        <3> QED BY <3>1, <3>3, MarketAssumption DEF Rated
    <2>5. \A i, j \in D : /\ down[i] < down[j] <=> coins[i] > coins[j]
                          /\ up[i] < up[j] <=> coins[i] < coins[j]
        BY <2>4
    <2>6. D = {i \in 1..Len(coins) : coins[i] # NoChange}
        BY DEF Rated
    <2>7. /\ Cardinality({result.gainers[k] : k \in 1..Len(result.gainers)}) = Len(result.gainers)
          /\ Cardinality({result.losers[k] : k \in 1..Len(result.losers)}) = Len(result.losers)
        BY <2>2, <2>3, DistinctMembers DEF FairList
    <2> HIDE DEF D, up, down, coins
    <2> DEFINE Members(s) == {s[k] : k \in 1..Len(s)}
    <2>8. LET s == result.gainers
          IN /\ Members(s) \subseteq D
             /\ Cardinality(Members(s)) = Len(s)
             /\ Len(s) = Smaller(TopN, Cardinality(D))
             /\ \A j, k \in 1..Len(s) : j < k => ~(coins[s[k]] > coins[s[j]])
             /\ \A i \in D \ Members(s), k \in 1..Len(s) : ~(coins[i] > coins[s[k]])
        BY <2>2, <2>5, <2>7 DEF FairList
    <2>9. LET s == result.losers
          IN /\ Members(s) \subseteq D
             /\ Cardinality(Members(s)) = Len(s)
             /\ Len(s) = Smaller(TopN, Cardinality(D))
             /\ \A j, k \in 1..Len(s) : j < k => ~(coins[s[k]] < coins[s[j]])
             /\ \A i \in D \ Members(s), k \in 1..Len(s) : ~(coins[i] < coins[s[k]])
        BY <2>2, <2>5, <2>7 DEF FairList
    <2> QED BY <2>6, <2>8, <2>9 DEF MoversAreExtreme, coins
<1> QED BY <1>1, MarketInvHolds, PTL

(* A cut series has max_points points in their order, without repetition,    *)
(* and it ends in the current price (models.py:33-47).                       *)
THEOREM SamplesKeepTheirEnd == MarketSpec => []SeriesKeepsItsEnd
<1>1. MarketInv => SeriesKeepsItsEnd
    <2> SUFFICES ASSUME MarketInv, result.kind = "series"
                 PROVE  SeriesKeepsItsEnd
        BY DEF SeriesKeepsItsEnd
    <2> DEFINE max == Clamp(op.max, LeastPoints, MostPoints)
    <2>1. op.name = "series" /\ result.from \in Nat /\ result.points = SamplePoints(Series(result.from), max)
        BY DEF MarketInv, ResultInv
    <2>2. max \in Nat \ {0}
        <3>1. op.max \in Nat
            BY <2>1 DEF MarketInv, RestInv
        <3> QED BY <3>1, ClampFacts
    <2> HIDE DEF max
    <2> QED BY <2>1, <2>2, SampledSeries DEF SeriesKeepsItsEnd, max
<1> QED BY <1>1, MarketInvHolds, PTL
=============================================================================
