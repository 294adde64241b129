----------------------------- MODULE SiteProofs ------------------------------
(* Proofs about Site and the modules it brings together, for any names, trees, *)
(* documents, URLs and headers.                                                 *)
EXTENDS Site, FiniteSetTheorems, SequenceTheorems, TLAPS

-----------------------------------------------------------------------------
(* Least elements and places. *)

\* A set of numbers has a least element.
LEMMA LeastNat ==
    ASSUME NEW T, T \subseteq Nat, T # {}
    PROVE  \E x \in T : \A y \in T : x <= y
<1> DEFINE R == OpToRel(<, Nat)
<1>1. IsWellFoundedOn(R, Nat)
  BY NatLessThanWellFounded
<1>2. \A y \in Nat, x \in Nat : <<y, x>> \in R <=> y < x
  BY DEF OpToRel
<1> HIDE DEF R
<1>3. PICK x \in T : \A y \in T : ~(<<y, x>> \in R)
  BY <1>1, WFMin
<1>4. ASSUME NEW y \in T PROVE x <= y
  <2>1. ~(y < x) /\ x \in Nat /\ y \in Nat
    BY <1>2, <1>3
  <2> QED
    BY <2>1
<1> QED
  BY <1>4

\* First is the least index, or 0.
LEMMA FirstIs ==
    ASSUME NEW T, T \subseteq Nat \ {0}
    PROVE  /\ T = {} <=> First(T) = 0
           /\ T # {} => First(T) \in T /\ \A j \in T : First(T) <= j
<1>1. CASE T = {}
  BY <1>1 DEF First
<1>2. CASE T # {}
  <2>1. \E x \in T : \A y \in T : x <= y
    BY <1>2, LeastNat
  <2>2. First(T) \in T /\ \A j \in T : First(T) <= j
    BY <1>2, <2>1 DEF First
  <2> QED
    BY <1>2, <2>2
<1> QED
  BY <1>1, <1>2

\* Sets of indices are finite.
LEMMA SubsetsFinite ==
    ASSUME NEW n \in Nat, NEW K, K \subseteq 1 .. n
    PROVE  IsFiniteSet(K) /\ Cardinality(K) \in Nat
<1>1. IsFiniteSet(1 .. n)
  BY FS_Interval
<1>2. IsFiniteSet(K)
  BY <1>1, FS_Subset
<1> QED
  BY <1>2, FS_CardinalityType

\* Every place is that of some index.
LEMMA PlaceTaken ==
    ASSUME NEW n \in Nat, NEW K, K \subseteq 1 .. n,
           NEW m \in 1 .. Cardinality(K)
    PROVE  \E i \in K : Rank(i, K) = m
<1> DEFINE Upto(i) == {j \in K : j <= i}
<1>1. IsFiniteSet(K) /\ Cardinality(K) \in Nat
  BY SubsetsFinite
<1>2. ASSUME NEW i PROVE IsFiniteSet(Upto(i)) /\ Cardinality(Upto(i)) \in Nat
  <2>1. Upto(i) \subseteq K
    OBVIOUS
  <2> HIDE DEF Upto
  <2> QED
    BY <2>1, SubsetsFinite
<1>3. Upto(n) = K /\ Upto(0) = {}
  <2>1. \A j \in K : j \in Nat /\ j <= n /\ j >= 1
    OBVIOUS
  <2>2. \A j \in K : j <= n /\ ~(j <= 0)
    BY <2>1
  <2> QED
    BY <2>2
<1>4. ASSUME NEW i \in 1 .. n
      PROVE  /\ Upto(i) = Upto(i - 1) \cup (IF i \in K THEN {i} ELSE {})
             /\ i \notin Upto(i - 1)
  <2>1. \A j \in K : j <= i <=> j <= i - 1 \/ j = i
    OBVIOUS
  <2>2. ~(i <= i - 1)
    OBVIOUS
  <2> QED
    BY <2>1, <2>2
<1> DEFINE T == {i \in 1 .. n : Cardinality(Upto(i)) >= m}
<1> HIDE DEF Upto
<1>6. n \in T
  <2>1. n \in 1 .. n /\ Cardinality(K) >= m
    <3>1. m \in Nat /\ m >= 1 /\ Cardinality(K) >= m
      BY <1>1
    <3>2. K # {}
      <4>1. Cardinality(K) # 0
        BY <1>1, <3>1
      <4>2. K = {} => Cardinality(K) = 0
        BY FS_EmptySet
      <4> QED
        BY <4>1, <4>2
    <3>3. n >= 1
      <4>1. PICK x \in K : x \in 1 .. n
        BY <3>2
      <4> QED
        BY <4>1
    <3> QED
      BY <3>1, <3>3
  <2> QED
    BY <1>3, <2>1
<1>7. PICK i \in T : \A y \in T : i <= y
  <2>1. T \subseteq Nat
    OBVIOUS
  <2> QED
    BY <1>6, <2>1, LeastNat
<1>8. Cardinality(Upto(i - 1)) < m
  <2>1. CASE i = 1
    BY <1>3, <2>1, FS_EmptySet
  <2>2. CASE i # 1
    <3>1. i - 1 \in 1 .. n /\ i - 1 \notin T
      BY <1>7, <2>2
    <3> QED
      BY <1>2, <3>1
  <2> QED
    BY <2>1, <2>2
<1>9. Cardinality(Upto(i)) >= m /\ i \in 1 .. n
  BY <1>7
<1>10. i \in K
  BY <1>2, <1>4, <1>8, <1>9
<1>11. Cardinality(Upto(i)) = Cardinality(Upto(i - 1)) + 1
  <2>1. Upto(i) = Upto(i - 1) \cup {i}
    BY <1>4, <1>9, <1>10
  <2> QED
    BY <1>2, <1>4, <1>9, <2>1, FS_AddElement
<1>12. Cardinality(Upto(i)) = m
  BY <1>2, <1>8, <1>9, <1>11
<1> QED
  BY <1>10, <1>12 DEF Upto, Rank

\* What is kept was there.
LEMMA Kept ==
    ASSUME NEW s \in Seq(Names), NEW K \in SUBSET (1 .. Len(s))
    PROVE  /\ Keep(s, K) \in Seq(Names)
           /\ \A m \in 1 .. Len(Keep(s, K)) : \E i \in K : Keep(s, K)[m] = s[i]
<1>1. PICK n \in Nat, c \in Nat : n = Len(s) /\ c = Cardinality(K)
  <2>1. Len(s) \in Nat
    OBVIOUS
  <2> QED
    BY <2>1, SubsetsFinite
<1> DEFINE spot(m) == CHOOSE i \in K : Rank(i, K) = m
<1>2. \A m \in 1 .. c : spot(m) \in K
  BY <1>1, PlaceTaken
<1>3. Keep(s, K) = [m \in 1 .. c |-> s[spot(m)]]
  BY <1>1 DEF Keep
<1> HIDE DEF spot
<1>4. \A i \in K : s[i] \in Names
  OBVIOUS
<1>5. Keep(s, K) \in [1 .. c -> Names]
  BY <1>2, <1>3, <1>4
<1>6. Keep(s, K) \in Seq(Names) /\ Len(Keep(s, K)) = c
  BY <1>1, <1>5, SeqDef
<1> QED
  BY <1>2, <1>3, <1>6

\* No two indices have the same place.
LEMMA PlaceUnique ==
    ASSUME NEW n \in Nat, NEW K, K \subseteq 1 .. n, NEW i \in K, NEW k \in K,
           Rank(i, K) = Rank(k, K)
    PROVE  i = k
<1> DEFINE Upto(x) == {j \in K : j <= x}
<1>1. ASSUME NEW x \in K, NEW y \in K, x < y
      PROVE  Cardinality(Upto(x)) < Cardinality(Upto(y))
  <2>1. \A j \in K : j \in Nat
    OBVIOUS
  <2>2. /\ Upto(x) \subseteq Upto(y) /\ y \in Upto(y) /\ y \notin Upto(x)
        /\ Upto(y) \subseteq K
    <3>1. /\ \A j \in K : j <= x => j <= y
          /\ y <= y /\ ~(y <= x)
      BY <1>1, <2>1
    <3> QED
      BY <3>1, Zenon
  <2> HIDE DEF Upto
  <2>3. IsFiniteSet(Upto(y))
    BY <2>2, SubsetsFinite
  <2>4. /\ IsFiniteSet(Upto(x)) /\ Cardinality(Upto(x)) <= Cardinality(Upto(y))
        /\ Upto(x) # Upto(y) => Cardinality(Upto(x)) # Cardinality(Upto(y))
    BY <2>2, <2>3, FS_Subset
  <2>5. Cardinality(Upto(x)) \in Nat /\ Cardinality(Upto(y)) \in Nat
    BY <2>3, <2>4, FS_CardinalityType
  <2>6. Upto(x) # Upto(y)
    BY <2>2
  <2> QED
    BY <2>4, <2>5, <2>6
<1>2. /\ Cardinality(Upto(i)) = Cardinality(Upto(k)) /\ i \in Nat /\ k \in Nat
      /\ Cardinality(Upto(i)) \in Nat
  <2>0. Cardinality(Upto(i)) = Cardinality(Upto(k))
    BY DEF Rank
  <2>1. Upto(i) \subseteq K
    OBVIOUS
  <2>2. Cardinality(Upto(i)) \in Nat
    <3> HIDE DEF Upto
    <3> QED
      BY <2>1, SubsetsFinite
  <2>3. i \in Nat /\ k \in Nat
    OBVIOUS
  <2> QED
    BY <2>0, <2>2, <2>3
<1> HIDE DEF Upto
<1>3. ~(i < k) /\ ~(k < i)
  BY <1>1, <1>2
<1> QED
  BY <1>2, <1>3

\* What Keep has at each place.
LEMMA KeepAt ==
    ASSUME NEW s \in Seq(Names), NEW K \in SUBSET (1 .. Len(s))
    PROVE  /\ Keep(s, K) \in Seq(Names) /\ Len(Keep(s, K)) = Cardinality(K)
           /\ \A i \in K : /\ Rank(i, K) \in 1 .. Cardinality(K)
                           /\ Keep(s, K)[Rank(i, K)] = s[i]
<1>1. PICK n \in Nat, c \in Nat : n = Len(s) /\ c = Cardinality(K)
  <2>1. Len(s) \in Nat
    OBVIOUS
  <2> QED
    BY <2>1, SubsetsFinite
<1>2. K \subseteq 1 .. n
  BY <1>1
<1>3. \A m \in 1 .. c : \E i \in K : Rank(i, K) = m
  BY <1>2, <1>1, PlaceTaken
<1> DEFINE spot(m) == CHOOSE i \in K : Rank(i, K) = m
<1>4. Keep(s, K) = [m \in 1 .. c |-> s[spot(m)]]
  BY <1>1 DEF Keep
<1>5. \A m \in 1 .. c : spot(m) \in K /\ Rank(spot(m), K) = m
  BY <1>3
<1>6. ASSUME NEW i \in K PROVE Rank(i, K) \in 1 .. c
  <2>1. PICK U : U = {j \in K : j <= i}
    OBVIOUS
  <2>2. U \subseteq K /\ i \in U
    BY <1>1, <2>1
  <2>3. IsFiniteSet(K)
    BY <1>1, SubsetsFinite
  <2>4. IsFiniteSet(U) /\ Cardinality(U) <= Cardinality(K)
    BY <2>2, <2>3, FS_Subset
  <2>5. Cardinality(U) \in Nat /\ Cardinality(U) # 0
    BY <2>2, <2>4, FS_CardinalityType, FS_EmptySet
  <2>6. Rank(i, K) = Cardinality(U)
    BY <2>1 DEF Rank
  <2> QED
    BY <1>1, <2>4, <2>5, <2>6
<1>7. \A i, k \in K : Rank(i, K) = Rank(k, K) => i = k
  BY <1>2, <1>1, PlaceUnique
<1>8. Keep(s, K) \in Seq(Names) /\ Len(Keep(s, K)) = c
  <2> HIDE DEF spot
  <2>1. \A i \in K : s[i] \in Names
    OBVIOUS
  <2>2. Keep(s, K) \in [1 .. c -> Names]
    BY <1>4, <1>5, <2>1
  <2> QED
    BY <1>1, <2>2, SeqDef
<1> HIDE DEF spot
<1>9. \A i \in K : spot(Rank(i, K)) = i
  BY <1>5, <1>6, <1>7
<1>10. \A i \in K : Rank(i, K) \in 1 .. c /\ Keep(s, K)[Rank(i, K)] = s[i]
  BY <1>4, <1>6, <1>9
<1> QED
  BY <1>1, <1>8, <1>10

\* Keep, when one more element is appended that is not kept, or that is.
LEMMA KeepGrows ==
    ASSUME NEW s \in Seq(Names), NEW K \in SUBSET (1 .. Len(s)), NEW x \in Names
    PROVE  /\ Keep(Append(s, x), K) = Keep(s, K)
           /\ Keep(Append(s, x), K \cup {Len(s) + 1}) = Append(Keep(s, K), x)
<1>1. PICK n \in Nat, c \in Nat : n = Len(s) /\ c = Cardinality(K)
  <2>1. Len(s) \in Nat
    OBVIOUS
  <2> QED
    BY <2>1, SubsetsFinite
<1>2. PICK t \in Seq(Names) : /\ t = Append(s, x) /\ Len(t) = n + 1 /\ t[n + 1] = x
                              /\ \A i \in 1 .. n : t[i] = s[i]
  <2>1. Append(s, x) \in Seq(Names) /\ Len(Append(s, x)) = n + 1
    BY <1>1
  <2>2. Append(s, x)[n + 1] = x /\ \A i \in 1 .. n : Append(s, x)[i] = s[i]
    BY <1>1
  <2> QED
    BY <2>1, <2>2
<1> DEFINE L == K \cup {n + 1}
<1>3. K \subseteq 1 .. n /\ K \subseteq 1 .. n + 1 /\ L \subseteq 1 .. n + 1 /\ n + 1 \notin K
  <2>1. K \subseteq 1 .. n
    BY <1>1
  <2>2. 1 .. n \subseteq 1 .. n + 1 /\ n + 1 \in 1 .. n + 1 /\ n + 1 \notin 1 .. n
    OBVIOUS
  <2> QED
    BY <2>1, <2>2, Zenon
<1>4. Cardinality(L) = c + 1
  <2>1. IsFiniteSet(K)
    BY <1>3, SubsetsFinite
  <2> QED
    BY <1>1, <1>3, <2>1, FS_AddElement
<1>5. (\A i \in K : Rank(i, L) = Rank(i, K)) /\ Rank(n + 1, L) = c + 1
  <2>1. \A i \in K : i \in 1 .. n
    BY <1>3
  <2>2. (\A i \in K : ~(n + 1 <= i) /\ i <= n + 1) /\ n + 1 <= n + 1
    BY <2>1
  <2>3. /\ \A i \in K : {j \in L : j <= i} = {j \in K : j <= i}
        /\ {j \in L : j <= n + 1} = L
    BY <2>2, Zenon
  <2> QED
    BY <1>4, <2>3, Zenon DEF Rank
<1> HIDE DEF L
<1>6. /\ Keep(s, K) \in Seq(Names) /\ Len(Keep(s, K)) = c
      /\ \A i \in K : /\ Rank(i, K) \in 1 .. c
                      /\ Keep(s, K)[Rank(i, K)] = s[i]
  BY <1>1, <1>3, KeepAt
<1>7. /\ Keep(t, K) \in Seq(Names) /\ Len(Keep(t, K)) = c
      /\ \A i \in K : Keep(t, K)[Rank(i, K)] = t[i]
  <2>1. K \in SUBSET (1 .. Len(t))
    BY <1>2, <1>3
  <2> QED
    BY <1>1, <2>1, KeepAt, Zenon
<1>8. /\ Keep(t, L) \in Seq(Names) /\ Len(Keep(t, L)) = c + 1
      /\ \A i \in L : Keep(t, L)[Rank(i, L)] = t[i]
  <2>1. L \in SUBSET (1 .. Len(t))
    BY <1>2, <1>3
  <2> QED
    BY <1>4, <2>1, KeepAt, Zenon
<1>9. \A m \in 1 .. c : \E i \in K : Rank(i, K) = m
  BY <1>1, <1>3, PlaceTaken
<1>10. \A m \in 1 .. c : Keep(t, K)[m] = Keep(s, K)[m]
  <2> TAKE m \in 1 .. c
  <2>1. PICK i \in K : Rank(i, K) = m
    BY <1>9
  <2> QED
    BY <1>2, <1>3, <1>6, <1>7, <2>1
<1>11. \A m \in 1 .. c : Keep(t, L)[m] = Keep(s, K)[m]
  <2> TAKE m \in 1 .. c
  <2>1. PICK i \in K : Rank(i, K) = m
    BY <1>9
  <2>2. i \in L /\ Rank(i, L) = m /\ i \in 1 .. n
    BY <1>3, <1>5, <2>1 DEF L
  <2>3. Keep(t, L)[m] = t[i] /\ Keep(s, K)[m] = s[i] /\ t[i] = s[i]
    BY <1>2, <1>6, <1>8, <2>1, <2>2
  <2> QED
    BY <2>3
<1>12. Keep(t, L)[c + 1] = x
  <2>1. n + 1 \in L /\ Rank(n + 1, L) = c + 1
    BY <1>4, <1>5 DEF L
  <2> QED
    BY <1>2, <1>8, <2>1
<1>13. Keep(t, K) = Keep(s, K)
  BY <1>6, <1>7, <1>10, SeqEqual
<1>14. Keep(t, L) = Append(Keep(s, K), x)
  <2>1. PICK a \in Seq(Names) : a = Keep(s, K) /\ Len(a) = c
    BY <1>6
  <2>2. PICK b \in Seq(Names) : b = Keep(t, L) /\ Len(b) = c + 1
    BY <1>8
  <2>3. /\ Append(a, x) \in Seq(Names) /\ Len(Append(a, x)) = c + 1
        /\ Append(a, x)[c + 1] = x /\ \A m \in 1 .. c : Append(a, x)[m] = a[m]
    BY <2>1
  <2>4. \A m \in 1 .. c + 1 : b[m] = Append(a, x)[m]
    <3> TAKE m \in 1 .. c + 1
    <3>1. m \in 1 .. c \/ m = c + 1
      OBVIOUS
    <3> QED
      BY <1>11, <1>12, <2>1, <2>2, <2>3, <3>1
  <2>5. b = Append(a, x)
    BY <2>2, <2>3, <2>4, SeqEqual
  <2> QED
    BY <2>1, <2>2, <2>5
<1> QED
  BY <1>1, <1>2, <1>13, <1>14 DEF L

\* Keep of all is all.
LEMMA KeepAll ==
    ASSUME NEW s \in Seq(Names)
    PROVE  Keep(s, 1 .. Len(s)) = s
<1>1. PICK n \in Nat : n = Len(s)
  OBVIOUS
<1>2. \A i \in 1 .. n : {j \in 1 .. n : j <= i} = 1 .. i
  OBVIOUS
<1>3. \A i \in 0 .. n : Cardinality(1 .. i) = i
  BY FS_Interval
<1>4. \A i \in 1 .. n : Rank(i, 1 .. n) = i
  <2> TAKE i \in 1 .. n
  <2>1. {j \in 1 .. n : j <= i} = 1 .. i /\ i \in 0 .. n
    BY <1>2
  <2> QED
    BY <1>3, <2>1, Zenon DEF Rank
<1>5. Cardinality(1 .. n) = n
  BY <1>3
<1>6. /\ Keep(s, 1 .. n) \in Seq(Names) /\ Len(Keep(s, 1 .. n)) = n
      /\ \A i \in 1 .. n : Keep(s, 1 .. n)[Rank(i, 1 .. n)] = s[i]
  BY <1>1, <1>5, KeepAt
<1>7. \A i \in 1 .. n : Keep(s, 1 .. n)[i] = s[i]
  BY <1>4, <1>6
<1> QED
  BY <1>1, <1>6, <1>7, SeqEqual

-----------------------------------------------------------------------------
(* Paths. *)

\* What stands behind a trailing slash.
LEMMA EmptySegment ==
    /\ Empty \in Segments /\ ~Cut(Empty)
    /\ percent_decode_segment(Empty) = NoName
  BY PathAssumption DEF Empty, Raw, Segments, Cut, percent_decode_segment

\* The path of a URL.
LEMMA Stripped ==
    ASSUME NEW url \in Seq(Segments), url # <<>>
    PROVE  /\ strip_query_and_fragment(url) \in Seq(Segments)
           /\ strip_query_and_fragment(url) # <<>>
<1> DEFINE cuts == {j \in 1 .. Len(url) : Cut(url[j])}
           i == First(cuts)
<1>1. PICK n \in Nat : n = Len(url) /\ n >= 1
  OBVIOUS
<1>2. cuts \subseteq Nat \ {0}
  BY <1>1
<1>3. CASE i = 0
  BY <1>3 DEF strip_query_and_fragment
<1>4. CASE i # 0
  <2>1. i \in cuts
    BY <1>2, <1>4, FirstIs
  <2>2. i \in 1 .. n
    BY <1>1, <2>1
  <2>3. strip_query_and_fragment(url) = SubSeq(url, 1, i)
    BY <1>4 DEF strip_query_and_fragment
  <2> HIDE DEF i
  <2>4. SubSeq(url, 1, i) \in Seq(Segments) /\ Len(SubSeq(url, 1, i)) = i
    BY <1>1, <2>2
  <2> QED
    BY <2>2, <2>3, <2>4
<1> QED
  BY <1>3, <1>4

\* A name that can be served.
Servable(name, dotfiles) ==
    /\ Rule[name] \notin {"DotDot", "Slash", "BadUtf8", "BadCharacter", "Reserved"}
    /\ Rule[name] = "Dotfile" => dotfiles

\* A segment that is not rejected has a name that can be served.
LEMMA NotRejected ==
    ASSUME NEW segment \in Segments, NEW dotfiles, Reject(segment, dotfiles) = "None"
    PROVE  Servable(percent_decode_segment(segment), dotfiles)
  BY DEF Reject, Servable

\* A name that is neither empty nor a dot.
Stays(name) == name # NoName /\ Rule[name] # "Dot"

\* What a path resolves to: names, all of them servable if it is not rejected.
LEMMA Resolved ==
    ASSUME NEW url \in Seq(Segments), url # <<>>, NEW dotfiles,
           NEW r, r = resolve_request_path(url, dotfiles)
    PROVE  /\ r.relative \in Seq(Names)
           /\ \A m \in 1 .. Len(r.relative) : Stays(r.relative[m])
           /\ r.verdict = "Ok" =>
                 \A m \in 1 .. Len(r.relative) : Servable(r.relative[m], dotfiles)
<1> DEFINE path == strip_query_and_fragment(url)
           bad == {i \in 1 .. Len(path) : Reject(path[i], dotfiles) # "None"}
           names == [i \in 1 .. Len(path) |-> percent_decode_segment(path[i])]
           kept == {i \in 1 .. Len(path) : names[i] # NoName /\ Rule[names[i]] # "Dot"}
<1>1. path \in Seq(Segments) /\ Len(path) \in Nat
  BY Stripped
<1>2. /\ r.relative = Keep(names, kept)
      /\ r.verdict = IF Len(url) > MaxPathLen THEN "TooLong"
                     ELSE IF First(bad) # 0 THEN Reject(path[First(bad)], dotfiles) ELSE "Ok"
  BY DEF resolve_request_path
<1> HIDE DEF path
<1>3. \A i \in 1 .. Len(path) : path[i] \in Segments
  BY <1>1
<1>4. \A segment \in Segments : percent_decode_segment(segment) \in Names
  BY PathAssumption DEF Segments, percent_decode_segment
<1>5. names \in Seq(Names) /\ Len(names) = Len(path)
  <2>1. names \in [1 .. Len(path) -> Names]
    BY <1>3, <1>4
  <2> HIDE DEF names
  <2> QED
    BY <1>1, <2>1, SeqDef
<1>6. kept \subseteq 1 .. Len(path)
  OBVIOUS
<1>7. /\ \A i \in 1 .. Len(path) : names[i] = percent_decode_segment(path[i])
      /\ \A i \in kept : Stays(names[i])
  BY DEF Stays
<1> HIDE DEF names, kept
<1>8. /\ Keep(names, kept) \in Seq(Names)
      /\ \A m \in 1 .. Len(Keep(names, kept)) : \E i \in kept : Keep(names, kept)[m] = names[i]
  <2>1. kept \subseteq 1 .. Len(names)
    BY <1>5, <1>6
  <2>2. names \in Seq(Names) /\ kept \in SUBSET (1 .. Len(names))
    BY <1>5, <2>1
  <2> QED
    BY <2>2, Kept, Zenon
<1>9. ASSUME r.verdict = "Ok", NEW m \in 1 .. Len(r.relative)
      PROVE  Servable(r.relative[m], dotfiles)
  <2>1. PICK i \in kept : r.relative[m] = names[i]
    BY <1>2, <1>8
  <2>2. i \in 1 .. Len(path)
    BY <1>6
  <2>3. bad \subseteq Nat \ {0}
    BY <1>1
  <2>4. bad = {}
    <3>1. First(bad) = 0
      <4>1. ASSUME NEW segment PROVE Reject(segment, dotfiles) # "Ok"
        BY DEF Reject
      <4> HIDE DEF bad
      <4> QED
        BY <1>2, <1>9, <4>1
    <3> HIDE DEF bad
    <3> QED
      BY <2>3, <3>1, FirstIs
  <2>5. Reject(path[i], dotfiles) = "None"
    BY <2>2, <2>4
  <2> QED
    BY <1>3, <1>7, <2>1, <2>2, <2>5, NotRejected
<1>10. \A m \in 1 .. Len(r.relative) : Stays(r.relative[m])
  BY <1>2, <1>7, <1>8, Zenon
<1> QED
  BY <1>2, <1>8, <1>9, <1>10

\* What is left of a URL behind the mount.
LEMMA Unmounted ==
    ASSUME NEW url \in Seq(Segments), NEW prefix \in Seq(Names)
    PROVE  strip_mount_prefix(url, prefix) \in Seq(Segments)
<1>1. <<Empty>> \in Seq(Segments)
  <2>1. Empty \in Segments
    BY EmptySegment
  <2>2. \A segment \in Segments : <<segment>> \in Seq(Segments)
    OBVIOUS
  <2> QED
    BY <2>1, <2>2
<1>2. <<>> \in Seq(Segments)
  OBVIOUS
<1>3. PICK n \in Nat : n = Len(prefix)
  OBVIOUS
<1>4. SubSeq(url, n + 1, Len(url)) \in Seq(Segments)
  BY <1>3
<1>5. \/ strip_mount_prefix(url, prefix) = <<>>
      \/ strip_mount_prefix(url, prefix) = <<Empty>>
      \/ strip_mount_prefix(url, prefix) = SubSeq(url, n + 1, Len(url))
  BY <1>3, Zenon DEF strip_mount_prefix
<1> QED
  BY <1>1, <1>2, <1>4, <1>5

\* A Location is a URL.
LEMMA LocationIsUrl ==
    ASSUME NEW relative \in Seq(Names), NEW prefix \in Seq(Names)
    PROVE  /\ Append(url_for(relative, prefix), Empty) \in Seq(Segments)
           /\ Append(url_for(relative, prefix), Empty) # <<>>
<1> DEFINE names == prefix \o (IF relative = <<>> THEN <<NoName>> ELSE relative)
<1>1. names \in Seq(Names) /\ Len(names) \in Nat
  <2>1. <<NoName>> \in Seq(Names)
    <3>1. \A name \in Names : <<name>> \in Seq(Names)
      OBVIOUS
    <3>2. NoName \in Names
      BY PathAssumption
    <3> QED
      BY <3>1, <3>2, Zenon
  <2>2. PICK tail \in Seq(Names) : names = prefix \o tail
    BY <2>1
  <2> HIDE DEF names
  <2> QED
    BY <2>2
<1>2. url_for(relative, prefix) = [i \in 1 .. Len(names) |-> Raw(names[i])]
  BY DEF url_for
<1> HIDE DEF names
<1>3. [i \in 1 .. Len(names) |-> Raw(names[i])] \in [1 .. Len(names) -> Segments]
  BY <1>1 DEF Raw, Segments
<1>4. url_for(relative, prefix) \in Seq(Segments)
  BY <1>1, <1>2, <1>3, SeqDef
<1>5. PICK last \in Segments : last = Empty
  BY EmptySegment
<1>6. PICK url \in Seq(Segments) : url = url_for(relative, prefix)
  BY <1>4
<1>7. Append(url, last) \in Seq(Segments) /\ Append(url, last) # <<>>
  BY AppendProperties
<1> QED
  BY <1>5, <1>6, <1>7

-----------------------------------------------------------------------------
(* Negotiation. *)

\* How much a client wants an encoding, and that it asked for it.
LEMMA Acceptance ==
    ASSUME NEW asked \in Seq(Items), NEW coding
    PROVE  /\ acceptance_for(asked, coding) \in Int
           /\ acceptance_for(asked, coding) > 0 => AcceptsEncoding(asked, coding)
<1> DEFINE own == {i \in 1 .. Len(asked) : asked[i].coding = coding}
           any == {i \in 1 .. Len(asked) : asked[i].coding = "*"}
           items == IF own # {} THEN own ELSE any
           first == CHOOSE i \in items : \A j \in items : i <= j
<1>1. acceptance_for(asked, coding) = IF items = {} THEN 0 ELSE asked[first].q
  BY DEF acceptance_for
<1>2. AcceptsEncoding(asked, coding) <=> \E i \in items : asked[i].q > 0
  BY DEF AcceptsEncoding
<1>3. items \subseteq 1 .. Len(asked) /\ Len(asked) \in Nat
  OBVIOUS
<1> HIDE DEF items
<1>4. CASE items = {}
  BY <1>1, <1>4
<1>5. CASE items # {}
  <2>1. items \subseteq Nat
    BY <1>3
  <2>2. \E i \in items : \A j \in items : i <= j
    BY <1>5, <2>1, LeastNat
  <2>3. first \in items
    BY <2>2
  <2> HIDE DEF first
  <2>4. asked[first] \in Items
    BY <1>3, <2>3
  <2>5. asked[first].q \in Int
    <3>1. \A item \in Items : item.q \in -1 .. 10
      BY DEF Items
    <3>2. \A q \in -1 .. 10 : q \in Int
      OBVIOUS
    <3> QED
      BY <2>4, <3>1, <3>2, Zenon
  <2>6. acceptance_for(asked, coding) = asked[first].q
    BY <1>1, <1>5
  <2>7. asked[first].q > 0 => AcceptsEncoding(asked, coding)
    BY <1>2, <2>3
  <2> QED
    BY <2>5, <2>6, <2>7
<1> QED
  BY <1>4, <1>5

\* Sorting puts each accepted encoding at one place, no two at the same and none
\* before one that the client wants more.
LEMMA Places ==
    ASSUME NEW asked \in Seq(Items), NEW order \in Seq(Encodings),
           NEW R, R = Accepted(asked, order), NEW c, c = Cardinality(R)
    PROVE  /\ IsFiniteSet(R) /\ c \in Nat /\ R \subseteq 1 .. Len(order)
           /\ \A i \in R : Place(asked, order, i) \in 1 .. c
           /\ \A i, j \in R : Place(asked, order, i) = Place(asked, order, j) => i = j
           /\ \A n \in 1 .. c : \E i \in R : Place(asked, order, i) = n
           /\ \A i, j \in R :
                 Place(asked, order, i) < Place(asked, order, j) =>
                    acceptance_for(asked, order[j]) <= acceptance_for(asked, order[i])
<1> DEFINE Wish(i) == acceptance_for(asked, order[i])
           Less(i, j) == Before(asked, order, i, j)
           Below(i) == {j \in R : Less(j, i)}
           P(i) == Place(asked, order, i)
<1>1. R \subseteq 1 .. Len(order) /\ Len(order) \in Nat
  BY DEF Accepted
<1>2. IsFiniteSet(R) /\ c \in Nat
  BY <1>1, SubsetsFinite
<1>3. \A i : Wish(i) \in Int
  BY Acceptance
<1>4. \A i, j : Less(i, j) <=> Wish(i) > Wish(j) \/ (Wish(i) = Wish(j) /\ i < j)
  BY DEF Before
<1>5. \A i : P(i) = 1 + Cardinality(Below(i))
  BY DEF Place
<1> HIDE DEF Wish, Less, P
<1>6. \A i \in R : i \in Int
  BY <1>1
<1>7. \A i \in R : ~Less(i, i)
  BY <1>3, <1>4, <1>6
<1>8. \A i, j \in R : i = j \/ Less(i, j) \/ Less(j, i)
  BY <1>3, <1>4, <1>6
<1>9. ASSUME NEW i \in R, NEW j \in R, NEW k \in R, Less(i, j), Less(j, k)
      PROVE  Less(i, k)
  BY <1>3, <1>4, <1>6, <1>9
<1>10. ASSUME NEW i \in R
       PROVE  /\ IsFiniteSet(Below(i)) /\ Cardinality(Below(i)) \in Nat
              /\ Below(i) \in SUBSET R /\ i \notin Below(i)
  <2>1. Below(i) \in SUBSET R /\ i \notin Below(i)
    BY <1>7
  <2> HIDE DEF Below
  <2> QED
    BY <1>2, <2>1, FS_Subset, FS_CardinalityType
<1>11. ASSUME NEW i \in R, NEW j \in R, Less(i, j)
       PROVE  Cardinality(Below(i)) < Cardinality(Below(j))
  <2>1. Below(i) \in SUBSET Below(j) /\ i \in Below(j)
    BY <1>9, <1>11
  <2> HIDE DEF Below
  <2>2. Below(i) # Below(j)
    BY <1>10, <2>1
  <2>3. /\ Cardinality(Below(i)) <= Cardinality(Below(j))
        /\ Cardinality(Below(j)) = Cardinality(Below(i)) => Below(j) = Below(i)
    BY <1>10, <2>1, FS_Subset
  <2> QED
    BY <1>10, <2>2, <2>3
<1>12. ASSUME NEW i \in R PROVE P(i) \in 1 .. c
  <2> HIDE DEF Below
  <2>1. Below(i) # R
    BY <1>10
  <2>2. Cardinality(Below(i)) <= c /\ (c = Cardinality(Below(i)) => R = Below(i))
    BY <1>2, <1>10, FS_Subset
  <2> QED
    BY <1>2, <1>5, <1>10, <2>1, <2>2
<1> HIDE DEF Below
<1>13. ASSUME NEW i \in R, NEW j \in R, Less(i, j) PROVE P(i) < P(j)
  BY <1>5, <1>10, <1>11, <1>13
<1>14. ASSUME NEW i \in R, NEW j \in R, P(i) = P(j) PROVE i = j
  <2>1. P(i) \in Int
    BY <1>12
  <2> QED
    BY <1>8, <1>13, <1>14, <2>1
<1>15. ASSUME NEW n \in 1 .. c PROVE \E i \in R : P(i) = n
  <2> DEFINE f == [i \in R |-> P(i)]
  <2>1. f \in Injection(R, 1 .. c)
    BY <1>12, <1>14 DEF Injection, IsInjective
  <2>2. IsFiniteSet(1 .. c) /\ Cardinality(1 .. c) = c
    BY <1>2, FS_Interval
  <2>3. \A i \in R : f[i] = P(i)
    OBVIOUS
  <2> HIDE DEF f
  <2>4. f \in Surjection(R, 1 .. c)
    BY <2>1, <2>2, FS_Injection
  <2>5. \E i \in R : f[i] = n
    BY <2>4 DEF Surjection
  <2> QED
    BY <2>3, <2>5
<1>16. ASSUME NEW i \in R, NEW j \in R, P(i) < P(j) PROVE Wish(j) <= Wish(i)
  <2>1. P(i) \in Int /\ P(j) \in Int
    BY <1>12
  <2>2. ~Less(j, i)
    BY <1>13, <1>16, <2>1
  <2> QED
    BY <1>3, <1>4, <1>6, <2>2
<1> QED
  BY <1>1, <1>2, <1>12, <1>14, <1>15, <1>16 DEF P, Wish

\* An offer has encodings of the configuration that the client accepts, all of
\* them, the ones it wants most first.
Offers(asked, order, offer) ==
    /\ Len(offer) \in Nat /\ (Len(offer) # 0 => offer # <<>>)
    /\ \A n \in 1 .. Len(offer) :
          /\ acceptance_for(asked, offer[n]) > 0
          /\ \E i \in 1 .. Len(order) : offer[n] = order[i]
    /\ \A n, m \in 1 .. Len(offer) :
          n < m => acceptance_for(asked, offer[m]) <= acceptance_for(asked, offer[n])
    /\ \A i \in 1 .. Len(order) :
          (acceptance_for(asked, order[i]) > 0 /\ ~Malformed(asked)) =>
              \E n \in 1 .. Len(offer) : offer[n] = order[i]
    /\ Len(offer) # 0 => ~Malformed(asked)

\* That is what negotiation offers.
LEMMA Negotiated ==
    ASSUME NEW asked \in Seq(Items), NEW order \in Seq(Encodings),
           NEW offer, offer = negotiate_precompressed(asked, order)
    PROVE  Offers(asked, order, offer)
<1>1. PICK R, c : R = Accepted(asked, order) /\ c = Cardinality(R)
  OBVIOUS
<1> DEFINE P(i) == Place(asked, order, i)
           spot(n) == CHOOSE i \in R : P(i) = n
<1>2. /\ IsFiniteSet(R) /\ c \in Nat /\ R \subseteq 1 .. Len(order)
      /\ \A i \in R : P(i) \in 1 .. c
      /\ \A i, j \in R : P(i) = P(j) => i = j
      /\ \A n \in 1 .. c : \E i \in R : P(i) = n
      /\ \A i, j \in R :
            P(i) < P(j) => acceptance_for(asked, order[j]) <= acceptance_for(asked, order[i])
  BY <1>1, Places
<1>3. offer = [n \in 1 .. c |-> order[spot(n)]]
  BY <1>1 DEF negotiate_precompressed
<1> HIDE DEF P
<1>4. \A n \in 1 .. c : spot(n) \in R /\ P(spot(n)) = n
  BY <1>2
<1>5. \A i \in R : spot(P(i)) = i
  BY <1>2, <1>4
<1> HIDE DEF spot
<1>6. \A n \in 1 .. c : offer[n] = order[spot(n)]
  BY <1>3
<1>7. Len(offer) = c
  <2>1. \A i \in R : order[i] \in Encodings
    BY <1>2
  <2>2. offer \in [1 .. c -> Encodings]
    BY <1>3, <1>4, <2>1
  <2> QED
    BY <1>2, <2>2, SeqDef
<1>8. \A i \in R : acceptance_for(asked, order[i]) > 0 /\ ~Malformed(asked)
  BY <1>1 DEF Accepted
<1>9. ASSUME NEW n \in 1 .. c
      PROVE  /\ acceptance_for(asked, offer[n]) > 0
             /\ \E i \in 1 .. Len(order) : offer[n] = order[i]
  BY <1>2, <1>4, <1>6, <1>8
<1>10. ASSUME NEW n \in 1 .. c, NEW m \in 1 .. c, n < m
       PROVE  acceptance_for(asked, offer[m]) <= acceptance_for(asked, offer[n])
  BY <1>2, <1>4, <1>6, <1>10
<1>11. ASSUME NEW i \in 1 .. Len(order), acceptance_for(asked, order[i]) > 0, ~Malformed(asked)
       PROVE  \E n \in 1 .. c : offer[n] = order[i]
  <2>1. i \in R
    BY <1>1, <1>11 DEF Accepted
  <2>2. P(i) \in 1 .. c /\ offer[P(i)] = order[i]
    BY <1>2, <1>5, <1>6, <2>1
  <2> QED
    BY <2>2
<1>12. Len(offer) # 0 => ~Malformed(asked) /\ offer # <<>>
  <2>1. SUFFICES ASSUME c # 0 PROVE ~Malformed(asked) /\ offer # <<>>
    BY <1>7
  <2>2. 1 \in 1 .. c
    BY <1>2, <2>1
  <2>3. ~Malformed(asked)
    BY <1>4, <1>8, <2>2
  <2>4. offer # <<>>
    BY <1>7, <2>1
  <2> QED
    BY <2>3, <2>4
<1> QED
  BY <1>2, <1>7, <1>9, <1>10, <1>11, <1>12 DEF Offers

-----------------------------------------------------------------------------
(* Configurations and answers. *)

\* What holds of a configuration that was accepted.
Configured(c) ==
    /\ c.prefix \in Seq(Names)
    /\ c.prefix # <<>> => LastName(c.prefix) # NoName
    /\ c.index_files \in Seq(Names)
    /\ c.directory \in {"index", "listing", "deny"}
    /\ c.chunk_size \in MinChunk .. MaxChunk
    /\ c.max_inflight_reads \in 1 .. 8
    /\ c.precompressed \in Seq(Encodings)

\* A list of strings that are all in a set.
LEMMA ItemsIn ==
    ASSUME NEW items \in Seq(STRING), NEW S, \A i \in 1 .. Len(items) : items[i] \in S
    PROVE  items \in Seq(S)
<1>1. Len(items) \in Nat /\ items \in [1 .. Len(items) -> STRING]
  OBVIOUS
<1>2. items \in [1 .. Len(items) -> S]
  BY <1>1
<1> QED
  BY <1>1, <1>2, SeqDef

\* Trimming leaves a path that does not end in a slash.
LEMMA Trimmed ==
    ASSUME NEW names \in Seq(Names)
    PROVE  /\ TrimEnd(names) \in Seq(Names)
           /\ TrimEnd(names) # <<>> => LastName(TrimEnd(names)) # NoName
<1>1. PICK len \in Nat : len = Len(names)
  OBVIOUS
<1> DEFINE Clear(n) == \A i \in n + 1 .. len : names[i] = NoText
           T == {n \in 0 .. len : Clear(n)}
<1>2. len \in T /\ T \subseteq Nat
  OBVIOUS
<1>3. PICK n \in T : \A m \in T : n <= m
  BY <1>2, LeastNat
<1>4. n \in 0 .. len /\ Clear(n)
  BY <1>3
<1>5. n > 0 => names[n] # NoText
  <2> SUFFICES ASSUME n > 0, names[n] = NoText PROVE FALSE
    OBVIOUS
  <2>1. n - 1 \in 0 .. len
    BY <1>4
  <2>2. Clear(n - 1)
    <3> SUFFICES ASSUME NEW i \in (n - 1) + 1 .. len PROVE names[i] = NoText
      OBVIOUS
    <3>1. i = n \/ i \in n + 1 .. len
      BY <1>4
    <3> QED
      BY <1>4, <3>1
  <2>3. n <= n - 1
    BY <1>3, <2>1, <2>2
  <2> QED
    BY <1>4, <2>3
<1> HIDE DEF T
<1> DEFINE Ends(m) == Clear(m) /\ (m > 0 => names[m] # NoText)
           k == CHOOSE m \in 0 .. len : Ends(m)
<1>6. k \in 0 .. len /\ Ends(k)
  BY <1>4, <1>5
<1>7. TrimEnd(names) = SubSeq(names, 1, k)
  BY <1>1 DEF TrimEnd
<1>8. PICK m \in 0 .. len : m = k /\ (m > 0 => names[m] # NoText)
  BY <1>6
<1> HIDE DEF k
<1>9. SubSeq(names, 1, m) \in Seq(Names) /\ Len(SubSeq(names, 1, m)) = m
  BY <1>1
<1>10. m > 0 => SubSeq(names, 1, m)[m] = names[m]
  BY <1>1
<1>11. SubSeq(names, 1, m) # <<>> => m > 0
  BY <1>9
<1>12. NoText = NoName
  BY Zenon DEF NoText, NoName
<1> QED
  BY <1>7, <1>8, <1>9, <1>10, <1>11, <1>12 DEF LastName

\* A document that parse does not refuse gives such a configuration.
LEMMA Parsed ==
    ASSUME NEW doc \in Documents, NEW root, ~Refused(doc, root, Names)
    PROVE  Configured(parse(doc, <<Index>>))
<1> DEFINE V(key) == Value(doc, key)
           c == parse(doc, <<Index>>)
<1>1. /\ V("strip_prefix").items \in Seq(Names)
      /\ V("index_files").items \in Seq(STRING) /\ V("precompressed").items \in Seq(STRING)
      /\ V("chunk_size").n \in Int /\ V("max_inflight_reads").n \in Int
  BY SiteAssumption
<1>2. /\ ~BadList(doc, "index_files", Names) /\ ~BadList(doc, "precompressed", Encodings)
      /\ ~BadMode(doc, "directory", {"index", "listing", "deny"})
      /\ ~BadInt(doc, "chunk_size", MinChunk, MaxChunk)
      /\ ~BadInt(doc, "max_inflight_reads", 1, 8)
  BY DEF Refused, Encodings
<1>3. /\ c.prefix = TrimEnd(V("strip_prefix").items)
      /\ c.index_files = IF V("index_files").type = "List" THEN V("index_files").items ELSE <<Index>>
      /\ c.directory = IF V("directory").type = "String" THEN V("directory").text ELSE "index"
      /\ c.chunk_size = IF V("chunk_size").type = "Int" THEN V("chunk_size").n ELSE DefaultChunk
      /\ c.max_inflight_reads =
           IF V("max_inflight_reads").type = "Int" THEN V("max_inflight_reads").n ELSE 2
      /\ c.precompressed =
           IF V("precompressed").type = "List" THEN V("precompressed").items ELSE <<"br", "gzip">>
  BY DEF parse, Prefix, ListOf, Mode, int_in_range
<1> HIDE DEF c
<1>4. c.index_files \in Seq(Names)
  <2>1. CASE V("index_files").type = "List"
    <3>1. PICK items \in Seq(STRING) : items = V("index_files").items
      BY <1>1
    <3>2. V("index_files").type # "Absent" /\ c.index_files = items
      BY <1>3, <2>1, <3>1
    <3>3. \A i \in 1 .. Len(items) : items[i] \in Names
      BY <1>2, <2>1, <3>1, <3>2 DEF BadList
    <3> QED
      BY <3>2, <3>3, ItemsIn
  <2>2. CASE V("index_files").type # "List"
    <3>1. <<Index>> \in Seq(Names)
      <4>1. \A name \in Names : <<name>> \in Seq(Names)
        OBVIOUS
      <4> QED
        BY <4>1, SiteAssumption, Zenon
    <3> QED
      BY <1>3, <2>2, <3>1
  <2> QED
    BY <2>1, <2>2
<1>5. c.directory \in {"index", "listing", "deny"}
  BY <1>2, <1>3 DEF BadMode
<1>6. c.chunk_size \in MinChunk .. MaxChunk
  <2>1. /\ MinChunk \in Int /\ MaxChunk \in Int /\ DefaultChunk \in Int
        /\ MinChunk <= DefaultChunk /\ DefaultChunk <= MaxChunk
    BY SMT DEF MinChunk, MaxChunk, DefaultChunk
  <2>2. CASE V("chunk_size").type = "Int"
    <3>1. MinChunk <= V("chunk_size").n /\ V("chunk_size").n <= MaxChunk
      BY <1>2, <2>2 DEF BadInt
    <3> QED
      BY <1>1, <1>3, <2>1, <2>2, <3>1
  <2>3. CASE V("chunk_size").type # "Int"
    BY <1>3, <2>1, <2>3
  <2> QED
    BY <2>2, <2>3
<1>7. c.max_inflight_reads \in 1 .. 8
  <2>1. CASE V("max_inflight_reads").type = "Int"
    <3>1. 1 <= V("max_inflight_reads").n /\ V("max_inflight_reads").n <= 8
      BY <1>2, <2>1 DEF BadInt
    <3>2. \A n \in Int : 1 <= n /\ n <= 8 => n \in 1 .. 8
      OBVIOUS
    <3>3. c.max_inflight_reads = V("max_inflight_reads").n
      BY <1>3, <2>1
    <3> QED
      BY <1>1, <3>1, <3>2, <3>3, Zenon
  <2>2. CASE V("max_inflight_reads").type # "Int"
    BY <1>3, <2>2
  <2> QED
    BY <2>1, <2>2
<1>8. c.precompressed \in Seq(Encodings)
  <2>1. CASE V("precompressed").type = "List"
    <3>1. PICK items \in Seq(STRING) : items = V("precompressed").items
      BY <1>1
    <3>2. V("precompressed").type # "Absent" /\ c.precompressed = items
      BY <1>3, <2>1, <3>1
    <3>3. \A i \in 1 .. Len(items) : items[i] \in Encodings
      BY <1>2, <2>1, <3>1, <3>2 DEF BadList
    <3> QED
      BY <3>2, <3>3, ItemsIn
  <2>2. CASE V("precompressed").type # "List"
    <3>1. <<"br", "gzip">> \in Seq(Encodings)
      <4>1. \A a, b \in Encodings : <<a, b>> \in Seq(Encodings)
        OBVIOUS
      <4>2. "br" \in Encodings /\ "gzip" \in Encodings
        BY DEF Encodings
      <4> QED
        BY <4>1, <4>2, Zenon
    <3> QED
      BY <1>3, <2>2, <3>1
  <2> QED
    BY <2>1, <2>2
<1>9. c.prefix \in Seq(Names) /\ (c.prefix # <<>> => LastName(c.prefix) # NoName)
  BY <1>1, <1>3, Trimmed
<1> QED
  BY <1>4, <1>5, <1>6, <1>7, <1>8, <1>9 DEF Configured, c

\* An index file that the configuration names.
IsIndex(name) == \E k \in 1 .. Len(config.index_files) : config.index_files[k] = name

\* What holds of a page that was made for a client with a given header.
Fine(p, asked) ==
    /\ p.path \in Seq(Names) /\ p.file \in Seq(Names)
    /\ p.kind = "Redirect" => p.location \in Seq(Segments) /\ p.location # <<>>
    /\ p.kind \in {"Redirect", "Listing", "File"} =>
          \A i \in 1 .. Len(p.file) :
              Forbidden(p.file[i]) =>
                  /\ p.kind = "File" /\ i = Len(p.file)
                  /\ IsIndex(p.file[i]) \/ (p.path = <<>> /\ p.encoding # "identity")
    /\ p.kind = "File" => p.type = TypeOf(LastName(p.path))
    /\ (p.kind = "File" /\ p.encoding # "identity") =>
          /\ p.vary
          /\ AcceptsEncoding(asked, p.encoding)
          /\ \A i \in 1 .. Len(config.precompressed) :
                VariantsOf(p.path, config.precompressed[i]) # {} =>
                    acceptance_for(asked, config.precompressed[i])
                        <= acceptance_for(asked, p.encoding)

\* Fine is about what a page shows.
LEMMA StatusFine == ASSUME NEW status, NEW asked PROVE Fine(Status(status), asked)
  BY DEF Status, Page, Fine

\* The first encoding of an offer that exists is one that the client wants most.
LEMMA FirstOffered ==
    ASSUME NEW asked \in Seq(Items), NEW order \in Seq(Encodings),
           NEW offer, offer = negotiate_precompressed(asked, order), NEW existing,
           NEW found, found = First({i \in 1 .. Len(offer) : offer[i] \in existing}),
           found # 0
    PROVE  /\ offer # <<>>
           /\ AcceptsEncoding(asked, offer[found])
           /\ \A i \in 1 .. Len(order) :
                 order[i] \in existing =>
                     acceptance_for(asked, order[i]) <= acceptance_for(asked, offer[found])
<1> DEFINE there == {i \in 1 .. Len(offer) : offer[i] \in existing}
           Wish(coding) == acceptance_for(asked, coding)
<1>1. /\ Len(offer) \in Nat /\ (Len(offer) # 0 => offer # <<>>)
      /\ \A n \in 1 .. Len(offer) :
            /\ acceptance_for(asked, offer[n]) > 0
            /\ \E i \in 1 .. Len(order) : offer[n] = order[i]
      /\ \A n, m \in 1 .. Len(offer) :
            n < m => acceptance_for(asked, offer[m]) <= acceptance_for(asked, offer[n])
      /\ \A i \in 1 .. Len(order) :
            (acceptance_for(asked, order[i]) > 0 /\ ~Malformed(asked)) =>
                \E n \in 1 .. Len(offer) : offer[n] = order[i]
      /\ Len(offer) # 0 => ~Malformed(asked)
  <2>1. Offers(asked, order, offer)
    BY Negotiated
  <2> QED
    BY <2>1 DEF Offers
<1>2. \A coding : Wish(coding) \in Int
  BY Acceptance
<1>3. acceptance_for(asked, offer[found]) > 0 => AcceptsEncoding(asked, offer[found])
  BY Acceptance
<1> HIDE DEF Wish
<1>4. there \subseteq Nat \ {0} /\ there \subseteq 1 .. Len(offer)
  BY <1>1
<1>5. found \in there /\ \A j \in there : found <= j
  <2>1. found = First(there)
    OBVIOUS
  <2> HIDE DEF there
  <2>2. there = {} <=> First(there) = 0
    BY <1>4, FirstIs
  <2>3. there # {} => First(there) \in there /\ \A j \in there : First(there) <= j
    BY <1>4, FirstIs
  <2>4. there # {}
    BY <2>1, <2>2, Zenon
  <2> QED
    BY <2>1, <2>3, <2>4, Zenon
<1>6. found \in 1 .. Len(offer) /\ Len(offer) # 0
  BY <1>1, <1>4, <1>5
<1>7. offer # <<>> /\ Wish(offer[found]) > 0 /\ ~Malformed(asked)
  BY <1>1, <1>6 DEF Wish
<1>8. ASSUME NEW i \in 1 .. Len(order), order[i] \in existing
      PROVE  Wish(order[i]) <= Wish(offer[found])
  <2>1. CASE Wish(order[i]) > 0
    <3>1. PICK n \in 1 .. Len(offer) : offer[n] = order[i]
      BY <1>1, <1>7, <2>1 DEF Wish
    <3>2. n \in there
      BY <1>8, <3>1
    <3>3. found <= n /\ found \in Int /\ n \in Int
      <4>1. found <= n
        BY <1>5, <3>2
      <4> QED
        BY <1>1, <1>6, <4>1
    <3>4. CASE found = n
      BY <1>2, <3>1, <3>4
    <3>5. CASE found < n
      BY <1>1, <1>6, <3>1, <3>5 DEF Wish
    <3> QED
      BY <3>3, <3>4, <3>5
  <2>2. CASE ~(Wish(order[i]) > 0)
    BY <1>2, <1>7, <2>2
  <2> QED
    BY <2>1, <2>2
<1> QED
  BY <1>3, <1>7, <1>8 DEF Wish

\* So is the variant that is served.
LEMMA VariantFine ==
    ASSUME Configured(config), header \in Seq(Items), NEW path, NEW slash,
           NEW v, v = Variant(path, slash), v.encoding # "identity"
    PROVE  /\ v.vary
           /\ AcceptsEncoding(header, v.encoding)
           /\ \A i \in 1 .. Len(config.precompressed) :
                 VariantsOf(path, config.precompressed[i]) # {} =>
                     acceptance_for(header, config.precompressed[i])
                         <= acceptance_for(header, v.encoding)
<1>1. PICK order \in Seq(Encodings) : order = config.precompressed
  BY Zenon DEF Configured
<1>2. PICK asked \in Seq(Items) : asked = header
  OBVIOUS
<1>3. PICK offer : offer = negotiate_precompressed(asked, order)
  OBVIOUS
<1> DEFINE existing == {e \in Encodings : VariantsOf(path, e) # {}}
           Found(s) == First({i \in 1 .. Len(s) :
                                VariantsOf(path, s[i]) # {}})
<1>4. ~slash
  <2>1. SUFFICES ASSUME slash PROVE FALSE
    OBVIOUS
  <2>2. {i \in 1 .. Len(<<>>) : VariantsOf(path, <<>>[i]) # {}} = {}
    OBVIOUS
  <2>3. v.encoding = IF First({}) = 0 THEN "identity" ELSE <<>>[First({})]
    BY <2>1, <2>2 DEF Variant
  <2> QED
    BY <2>3 DEF First
<1>5. v.encoding = (IF Found(offer) = 0 THEN "identity" ELSE offer[Found(offer)])
  BY <1>1, <1>2, <1>3, <1>4 DEF Variant
<1>6. v.vary = (offer # <<>>)
  BY <1>1, <1>2, <1>3, <1>4 DEF Variant, Vary
<1>7. Found(offer) # 0 /\ v.encoding = offer[Found(offer)]
  BY <1>5
<1>8. \A i \in 1 .. Len(offer) :
        offer[i] \in existing <=> VariantsOf(path, offer[i]) # {}
  <2>1. \A i \in 1 .. Len(offer) : \E j \in 1 .. Len(order) : offer[i] = order[j]
    <3>1. Offers(asked, order, offer)
      BY <1>3, Negotiated
    <3> QED
      BY <3>1, Zenon DEF Offers
  <2>2. \A i \in 1 .. Len(offer) : offer[i] \in Encodings
    BY <2>1
  <2> QED
    BY <2>2
<1>9. PICK found : found = First({i \in 1 .. Len(offer) : offer[i] \in existing})
  OBVIOUS
<1>10. found = Found(offer)
  <2>1. {i \in 1 .. Len(offer) : offer[i] \in existing}
          = {i \in 1 .. Len(offer) : VariantsOf(path, offer[i]) # {}}
    BY <1>8
  <2> QED
    BY <1>9, <2>1
<1>11. /\ offer # <<>>
       /\ AcceptsEncoding(asked, offer[found])
       /\ \A i \in 1 .. Len(order) :
             order[i] \in existing =>
                 acceptance_for(asked, order[i]) <= acceptance_for(asked, offer[found])
  <2> HIDE DEF existing, Found
  <2> QED
    BY <1>3, <1>7, <1>9, <1>10, FirstOffered
<1>12. \A i \in 1 .. Len(order) :
         VariantsOf(path, order[i]) # {} => order[i] \in existing
  OBVIOUS
<1> HIDE DEF existing, Found
<1> QED
  BY <1>1, <1>2, <1>6, <1>7, <1>10, <1>11, <1>12

\* The file that is opened is the path's own, or a variant in that encoding.
LEMMA VariantFile ==
    ASSUME Configured(config), header \in Seq(Items), NEW path, NEW slash,
           NEW v, v = Variant(path, slash)
    PROVE  /\ v.encoding = "identity" => v.file = path
           /\ v.encoding # "identity" =>
                 v.encoding \in Encodings /\ v.file \in VariantsOf(path, v.encoding)
<1>1. PICK order \in Seq(Encodings) : order = config.precompressed
  BY Zenon DEF Configured
<1>2. PICK asked \in Seq(Items) : asked = header
  OBVIOUS
<1>3. PICK offer : offer = IF slash THEN <<>> ELSE negotiate_precompressed(asked, order)
  OBVIOUS
<1> DEFINE there == {i \in 1 .. Len(offer) : VariantsOf(path, offer[i]) # {}}
           found == First(there)
<1>4. /\ v.encoding = (IF found = 0 THEN "identity" ELSE offer[found])
      /\ v.file = (IF found = 0 THEN path
                   ELSE CHOOSE file \in VariantsOf(path, offer[found]) : TRUE)
  BY <1>1, <1>2, <1>3 DEF Variant
<1>5. Len(offer) \in Nat /\ \A i \in 1 .. Len(offer) : offer[i] \in Encodings
  <2>1. CASE slash
    <3>1. offer = <<>>
      BY <1>3, <2>1
    <3> QED
      BY <3>1
  <2>2. CASE ~slash
    <3>1. Offers(asked, order, offer)
      BY <1>3, <2>2, Negotiated
    <3>2. Len(offer) \in Nat /\ \A i \in 1 .. Len(offer) : \E j \in 1 .. Len(order) : offer[i] = order[j]
      BY <3>1, Zenon DEF Offers
    <3> QED
      BY <3>2
  <2> QED
    BY <2>1, <2>2
<1>6. there \subseteq Nat \ {0} /\ there \subseteq 1 .. Len(offer)
  BY <1>5
<1>7. ASSUME found # 0
      PROVE  offer[found] \in Encodings /\ VariantsOf(path, offer[found]) # {}
  <2>1. found \in there
    <3> HIDE DEF there
    <3> QED
      BY <1>6, <1>7, FirstIs
  <2> QED
    BY <1>5, <1>6, <2>1
<1>8. "identity" \notin Encodings
  BY DEF Encodings
<1> HIDE DEF found
<1> QED
  BY <1>4, <1>7, <1>8

\* The variant of a path that may be served has a name that may be served, unless it
\* is the suffix alone.
LEMMA VariantAllowed ==
    ASSUME tree \in Trees, NEW path \in Seq(Names),
           \A i \in 1 .. Len(path) : Stays(path[i]) /\ ~Forbidden(path[i]),
           NEW encoding \in Encodings, NEW file \in VariantsOf(path, encoding)
    PROVE  /\ file \in Seq(Names)
           /\ \A i \in 1 .. Len(file) : Forbidden(file[i]) => i = Len(file) /\ path = <<>>
<1>1. /\ file \in tree.files /\ file # <<>> /\ Front(file) = Front(path)
      /\ Stem[LastName(file)] = LastName(path) /\ Suffix[LastName(file)] = encoding
  BY DEF VariantsOf
<1>2. file \in Seq({name \in FileNames : Rule[name] # "Dot"})
  BY <1>1, SiteAssumption DEF IsTree
<1>3. file \in Seq(Names)
  BY <1>2 DEF FileNames
<1>4. PICK n \in Nat, l \in Nat : n = Len(file) /\ n >= 1 /\ l = Len(path)
  BY <1>1, <1>3
<1>5. LastName(file) = file[n] /\ file[n] \in Names
  BY <1>1, <1>3, <1>4 DEF LastName
<1>6. ASSUME NEW i \in 1 .. n, i # n PROVE ~Forbidden(file[i])
  <2>1. Len(Front(file)) = n - 1 /\ Front(file)[i] = file[i]
    BY <1>3, <1>4, <1>6 DEF Front
  <2>2. l # 0
    <3> SUFFICES ASSUME l = 0 PROVE FALSE
      OBVIOUS
    <3>1. path = <<>>
      BY <1>4
    <3>2. Len(Front(path)) = 0
      BY <3>1 DEF Front
    <3>3. n - 1 = 0 /\ n \in Nat
      BY <1>1, <2>1, <3>2
    <3>4. n = 1
      BY <3>3
    <3>5. i \in 1 .. 1 /\ i # 1
      BY <1>6, <3>4
    <3> QED
      BY <3>5
  <2>3. Len(Front(path)) = l - 1 /\ \A j \in 1 .. l - 1 : Front(path)[j] = path[j]
    BY <1>4, <2>2 DEF Front
  <2>4. i \in 1 .. l - 1 /\ file[i] = path[i]
    BY <1>1, <1>4, <1>6, <2>1, <2>3
  <2> QED
    BY <1>4, <2>4
<1>7. ASSUME path # <<>> PROVE ~Forbidden(file[n])
  <2>1. l >= 1 /\ LastName(path) = path[l] /\ path[l] \in Names
    BY <1>4, <1>7 DEF LastName
  <2>2. Stem[file[n]] = path[l] /\ path[l] # NoName /\ Rule[path[l]] # "Dot" /\ ~Forbidden(path[l])
    BY <1>1, <1>4, <1>5, <2>1 DEF Stays
  <2>3. Suffix[file[n]] # "none"
    BY <1>1, <1>5 DEF Encodings
  <2>4. SuffixRule(file[n])
    BY <1>5, <2>3, SiteAssumption
  <2>5. Rule[path[l]] \in {"Plain", "Dotfile"}
    BY <2>1, <2>2, PathAssumption DEF Rules, Forbidden
  <2>6. Rule[file[n]] = Rule[path[l]]
    BY <2>2, <2>4, <2>5 DEF SuffixRule
  <2> QED
    BY <2>2, <2>6 DEF Forbidden
<1> QED
  BY <1>3, <1>4, <1>6, <1>7

\* A name that may be served is not forbidden.
LEMMA ServableAllowed ==
    ASSUME NEW name, Servable(name, config.serve_dotfiles)
    PROVE  ~Forbidden(name)
  BY DEF Servable, Forbidden

\* The redirect of a directory, its listing and the status instead of it.
LEMMA DirectoryFine ==
    ASSUME Configured(config), NEW path \in Seq(Names), NEW slash,
           \A i \in 1 .. Len(path) : ~Forbidden(path[i]), NEW asked
    PROVE  Fine(Directory(path, slash), asked)
<1> DEFINE indexes == {i \in 1 .. Len(config.index_files) :
                         IndexPath(path, config.index_files[i]) \in tree.files \cup tree.dirs}
           index == IndexPath(path, config.index_files[First(indexes)])
           redirect == [Page("Redirect", 301, path) EXCEPT
                          !.location = Append(url_for(path, config.prefix), Empty)]
           file == [Page("File", 200, index) EXCEPT !.type = TypeOf(LastName(index))]
           listing == [Page("Listing", 200, path) EXCEPT !.up = ~AtRoot(path)]
           endless == Page("Endless", 0, path)
<1>1. \/ Directory(path, slash) \in {redirect, listing, endless, Status(403), Status(404)}
      \/ First(indexes) # 0 /\ Directory(path, slash) = file
  BY DEF Directory
<1>2. Fine(redirect, asked)
  <2>1. config.prefix \in Seq(Names)
    BY Zenon DEF Configured
  <2>2. PICK location \in Seq(Segments) :
          location = Append(url_for(path, config.prefix), Empty) /\ location # <<>>
    BY <2>1, LocationIsUrl
  <2>3. /\ redirect.kind = "Redirect" /\ redirect.path = path /\ redirect.file = path
        /\ redirect.location = location
    BY <2>2 DEF Page
  <2> HIDE DEF redirect
  <2> QED
    BY <2>2, <2>3 DEF Fine
<1>3. Fine(listing, asked)
  <2>1. listing.kind = "Listing" /\ listing.path = path /\ listing.file = path
    BY DEF Page
  <2> HIDE DEF listing
  <2> QED
    BY <2>1 DEF Fine
<1>4. ASSUME First(indexes) # 0 PROVE Fine(file, asked)
  <2>1. PICK k \in 1 .. Len(config.index_files) : k = First(indexes)
    <3>1. PICK names \in Seq(Names) : names = config.index_files
      BY Zenon DEF Configured
    <3>2. indexes \subseteq 1 .. Len(config.index_files) /\ indexes \subseteq Nat \ {0}
      BY <3>1
    <3> HIDE DEF indexes
    <3> QED
      BY <1>4, <3>2, FirstIs
  <2>2. PICK name \in Names : name = config.index_files[k] /\ IsIndex(name)
    <3>1. config.index_files \in Seq(Names)
      BY Zenon DEF Configured
    <3> QED
      BY <3>1 DEF IsIndex
  <2>3. /\ file.kind = "File" /\ file.path = index /\ file.file = index
        /\ file.type = TypeOf(LastName(index)) /\ file.encoding = "identity"
    BY DEF Page
  <2>4. index = path \/ index = Append(path, name)
    BY <2>1, <2>2 DEF IndexPath
  <2> HIDE DEF file, index
  <2>5. CASE index = path
    BY <2>3, <2>5 DEF Fine
  <2>6. CASE index = Append(path, name)
    <3>1. PICK whole \in Seq(Names) : whole = Append(path, name)
      <4>1. Append(path, name) \in Seq(Names)
        BY AppendProperties
      <4> QED
        BY <4>1, Zenon
    <3>2. Len(whole) = Len(path) + 1 /\ whole[Len(whole)] = name /\ Len(path) \in Nat
      BY <3>1
    <3>3. \A i \in 1 .. Len(whole) : Forbidden(whole[i]) => i = Len(whole) /\ IsIndex(whole[i])
      <4>1. SUFFICES ASSUME NEW i \in 1 .. Len(whole), Forbidden(whole[i])
                     PROVE  i = Len(whole)
        BY <2>2, <3>2
      <4>2. i \in 1 .. Len(path) => whole[i] = path[i]
        BY <3>1
      <4>3. i \notin 1 .. Len(path)
        BY <4>1, <4>2
      <4> QED
        BY <3>2, <4>3
    <3> QED
      BY <2>3, <2>6, <3>1, <3>2, <3>3 DEF Fine
  <2> QED
    BY <2>4, <2>5, <2>6
<1>5. Fine(Status(403), asked) /\ Fine(Status(404), asked)
  BY StatusFine
<1>6. Fine(endless, asked)
  <2>1. endless.kind = "Endless" /\ endless.path = path /\ endless.file = path
    BY DEF Page
  <2> HIDE DEF endless
  <2> QED
    BY <2>1 DEF Fine
<1> HIDE DEF indexes, redirect, file, listing, endless
<1> QED
  BY <1>1, <1>2, <1>3, <1>4, <1>5, <1>6

\* Every answer is fine for the client that asks.
LEMMA AnswerFine ==
    ASSUME config = Down \/ Configured(config), header \in Seq(Items), tree \in Trees,
           NEW url \in Seq(Segments), url # <<>>
    PROVE  Fine(Answer(url), header)
<1>1. CASE config = Down
  <2>1. Answer(url) = Status(404)
    BY <1>1 DEF Answer
  <2> QED
    BY <2>1, StatusFine
<1>2. CASE config # Down
  <2>1. Configured(config)
    BY <1>2
  <2>2. config.prefix \in Seq(Names)
    BY <2>1, Zenon DEF Configured
  <2>3. PICK rest \in Seq(Segments) : rest = strip_mount_prefix(url, config.prefix)
    BY <2>2, Unmounted
  <2>4. PICK r : r = resolve_request_path(rest, config.serve_dotfiles)
    OBVIOUS
  <2>5. PICK path, slash : path = r.relative /\ slash = r.trailing_slash
    OBVIOUS
  <2>6. PICK v : v = Variant(path, slash)
    OBVIOUS
  <2> DEFINE file == [Page("File", 200, path) EXCEPT
                        !.file = v.file,
                        !.encoding = v.encoding, !.vary = v.vary,
                        !.type = VariantType(path, v.encoding)]
  <2>7. \/ \E status : Answer(url) = Status(status)
        \/ rest # <<>> /\ r.verdict = "Ok" /\ Answer(url) \in {file, Directory(path, slash)}
    BY <1>2, <2>3, <2>4, <2>5, <2>6 DEF Answer
  <2>8. CASE \E status : Answer(url) = Status(status)
    BY <2>8, StatusFine
  <2>9. ASSUME rest # <<>>, r.verdict = "Ok"
        PROVE  Fine(file, header) /\ Fine(Directory(path, slash), header)
    <3>1. path \in Seq(Names)
      BY <2>4, <2>5, <2>9, Resolved
    <3>2. \A i \in 1 .. Len(path) : Stays(path[i]) /\ ~Forbidden(path[i])
      <4>1. \A i \in 1 .. Len(path) : Stays(path[i]) /\ Servable(path[i], config.serve_dotfiles)
        BY <2>4, <2>5, <2>9, Resolved
      <4> QED
        BY <4>1, ServableAllowed
    <3>3. Fine(Directory(path, slash), header)
      BY <2>1, <3>1, <3>2, DirectoryFine
    <3>4. /\ file.kind = "File" /\ file.path = path /\ file.type = TypeOf(LastName(path))
          /\ file.encoding = v.encoding /\ file.vary = v.vary /\ file.file = v.file
      BY DEF Page, VariantType
    <3>5. v.encoding # "identity" =>
            /\ v.vary
            /\ AcceptsEncoding(header, v.encoding)
            /\ \A i \in 1 .. Len(config.precompressed) :
                  VariantsOf(path, config.precompressed[i]) # {} =>
                      acceptance_for(header, config.precompressed[i])
                          <= acceptance_for(header, v.encoding)
      BY <2>1, <2>6, VariantFine
    <3>6. /\ v.encoding = "identity" => v.file = path
          /\ v.encoding # "identity" =>
                v.encoding \in Encodings /\ v.file \in VariantsOf(path, v.encoding)
      BY <2>1, <2>6, VariantFile
    <3>7. /\ v.file \in Seq(Names)
          /\ \A i \in 1 .. Len(v.file) :
                Forbidden(v.file[i]) =>
                    i = Len(v.file) /\ path = <<>> /\ v.encoding # "identity"
      <4>1. CASE v.encoding = "identity"
        BY <3>1, <3>2, <3>6, <4>1
      <4>2. CASE v.encoding # "identity"
        BY <3>1, <3>2, <3>6, <4>2, VariantAllowed
      <4> QED
        BY <4>1, <4>2
    <3> HIDE DEF file
    <3>8. Fine(file, header)
      BY <3>1, <3>4, <3>5, <3>7 DEF Fine
    <3> QED
      BY <3>3, <3>8
  <2> HIDE DEF file
  <2> QED
    BY <2>7, <2>8, <2>9
<1> QED
  BY <1>1, <1>2

\* What was sent to one client is fine for another, unless it varies.
LEMMA FineForOther ==
    ASSUME NEW p, NEW one, NEW other, Fine(p, one), p.vary => one = other
    PROVE  Fine(p, other)
  BY DEF Fine

-----------------------------------------------------------------------------
(* The inductive invariant. *)

Sound ==
    /\ config = Down \/ Configured(config)
    /\ header \in Headers /\ tree \in Trees
    /\ at \in Seq(Segments) /\ at # <<>>
    /\ Fine(page, header)
    /\ IsFiniteSet(cache) /\ Cardinality(cache) <= MaxStored
    /\ \A entry \in cache : entry.page.kind = "File" /\ Fine(entry.page, entry.header)

\* The invariant holds at first.
LEMMA InitSound == Init => Sound
<1> SUFFICES ASSUME Init PROVE Sound
  OBVIOUS
<1>1. config = Down \/ Configured(config)
  <2>1. PICK doc \in Documents, root \in BOOLEAN :
          config = IF Refused(doc, root, Names) THEN Down ELSE parse(doc, <<Index>>)
    BY DEF Init
  <2>2. CASE Refused(doc, root, Names)
    BY <2>1, <2>2
  <2>3. CASE ~Refused(doc, root, Names)
    BY <2>1, <2>3, Parsed
  <2> QED
    BY <2>2, <2>3
<1>2. at \in Seq(Segments) /\ at # <<>>
  <2>1. Empty \in Segments
    BY EmptySegment
  <2>2. \A segment \in Segments : <<segment>> \in Seq(Segments) /\ <<segment>> # <<>>
    OBVIOUS
  <2>3. at = <<Empty>>
    BY DEF Init
  <2> QED
    BY <2>1, <2>2, <2>3, Zenon
<1>3. Fine(page, header)
  <2>1. page.kind = "Blank" /\ page.path = <<>> /\ page.file = <<>>
    BY DEF Init, Blank, Page
  <2> QED
    BY <2>1 DEF Fine
<1>4. cache = {} /\ header \in Headers /\ tree \in Trees
  BY DEF Init
<1>5. IsFiniteSet(cache) /\ Cardinality(cache) <= MaxStored
  <2>1. IsFiniteSet({}) /\ Cardinality({}) = 0
    BY FS_EmptySet
  <2> QED
    BY <1>4, <2>1, SiteAssumption
<1> QED
  BY <1>1, <1>2, <1>3, <1>4, <1>5 DEF Sound

\* A fetch keeps the invariant.
LEMMA ShowSound ==
    ASSUME Sound, NEW url \in Seq(Segments), url # <<>>, Show(url)
    PROVE  Sound'
<1>1. UNCHANGED <<config, tree, header>> /\ at' = url
  BY DEF Show
<1>2. header \in Seq(Items)
  BY SiteAssumption DEF Sound
<1>3. \/ \E entry \in cache : /\ entry.page.vary => entry.header = header
                              /\ page' = entry.page /\ cache' = cache
      \/ page' = Answer(url) /\ cache' = cache
      \/ /\ page' = Answer(url) /\ page'.kind = "File" /\ Cardinality(cache) < MaxStored
         /\ cache' = cache \cup {[url |-> url, header |-> header, page |-> page']}
  BY DEF Show
<1>4. Fine(page', header)
  <2>1. CASE \E entry \in cache : /\ entry.page.vary => entry.header = header
                                  /\ page' = entry.page
    <3>1. PICK entry \in cache : (entry.page.vary => entry.header = header)
                                   /\ page' = entry.page
      BY <2>1
    <3>2. Fine(entry.page, entry.header)
      BY DEF Sound
    <3>3. Fine(entry.page, header)
      BY <3>1, <3>2, FineForOther
    <3> QED
      BY <3>1, <3>3
  <2>2. CASE page' = Answer(url)
    <3>1. Fine(Answer(url), header)
      BY <1>2, AnswerFine DEF Sound
    <3> QED
      BY <2>2, <3>1
  <2> QED
    BY <1>3, <2>1, <2>2
<1>5. \A entry \in cache' : entry.page.kind = "File" /\ Fine(entry.page, entry.header)
  <2>1. CASE cache' = cache
    BY <2>1 DEF Sound
  <2>2. CASE /\ page'.kind = "File"
             /\ cache' = cache \cup {[url |-> url, header |-> header, page |-> page']}
    <3>1. PICK new : new = [url |-> url, header |-> header, page |-> page']
      OBVIOUS
    <3>2. new.header = header /\ new.page = page'
      BY <3>1
    <3>3. new.page.kind = "File" /\ Fine(new.page, new.header)
      BY <1>4, <2>2, <3>2
    <3> QED
      BY <2>2, <3>1, <3>3, Zenon DEF Sound
  <2> QED
    BY <1>3, <2>1, <2>2
<1>6. IsFiniteSet(cache') /\ Cardinality(cache') <= MaxStored
  <2>1. CASE cache' = cache
    BY <2>1 DEF Sound
  <2>2. CASE /\ Cardinality(cache) < MaxStored
             /\ cache' = cache \cup {[url |-> url, header |-> header, page |-> page']}
    <3>1. PICK new : new = [url |-> url, header |-> header, page |-> page']
      OBVIOUS
    <3>2. IsFiniteSet(cache) /\ Cardinality(cache) \in Nat
      BY FS_CardinalityType DEF Sound
    <3>3. /\ IsFiniteSet(cache \cup {new})
          /\ Cardinality(cache \cup {new})
               = IF new \in cache THEN Cardinality(cache) ELSE Cardinality(cache) + 1
      BY <3>2, FS_AddElement
    <3> QED
      BY <2>2, <3>1, <3>2, <3>3, SiteAssumption
  <2> QED
    BY <1>3, <2>1, <2>2
<1>7. (config = Down \/ Configured(config))' /\ (header \in Headers /\ tree \in Trees)'
  BY <1>1 DEF Sound, Configured
<1>8. Fine(page, header)'
  BY <1>1, <1>4 DEF Fine, Forbidden, IsIndex, TypeOf, VariantsOf
<1>9. (\A entry \in cache : entry.page.kind = "File" /\ Fine(entry.page, entry.header))'
  BY <1>1, <1>5 DEF Fine, Forbidden, IsIndex, TypeOf, VariantsOf
<1> QED
  BY <1>1, <1>6, <1>7, <1>8, <1>9 DEF Sound

\* The links of a page are URLs.
LEMMA LinksAreUrls ==
    ASSUME at \in Seq(Segments), at # <<>>
    PROVE  /\ Parent \in Seq(Segments) /\ Parent # <<>>
           /\ \A child \in FileNames : Link(child) \in Seq(Segments) /\ Link(child) # <<>>
<1>1. PICK base \in Seq(Segments) : base = Base
  <2>1. PICK path \in Seq(Segments) : path = strip_query_and_fragment(at)
    BY Stripped
  <2>2. PICK n \in Int : n = Len(path) - 1 /\ n <= Len(path)
    <3>1. Len(path) \in Nat
      OBVIOUS
    <3> QED
      BY <3>1
  <2>3. SubSeq(path, 1, n) \in Seq(Segments)
    BY <2>2
  <2>4. Base = SubSeq(path, 1, n)
    BY <2>1, <2>2 DEF Base
  <2> QED
    BY <2>3, <2>4
<1>2. Empty \in Segments /\ \A child \in FileNames : Encoded(child) \in Segments
  BY PathAssumption, Zenon DEF Empty, Raw, Encoded, Segments, FileNames
<1>3. Parent \in Seq(Segments) /\ Parent # <<>>
  <2>1. PICK front \in Seq(Segments) :
          front = IF base = <<>> THEN <<>> ELSE SubSeq(base, 1, Len(base) - 1)
    <3>1. Len(base) - 1 \in Int /\ Len(base) - 1 <= Len(base)
      OBVIOUS
    <3>2. SubSeq(base, 1, Len(base) - 1) \in Seq(Segments) /\ <<>> \in Seq(Segments)
      BY <3>1
    <3> QED
      BY <3>2, Zenon
  <2>2. Parent = Append(front, Empty)
    BY <1>1, <2>1 DEF Parent
  <2>3. PICK last \in Segments : last = Empty
    BY <1>2
  <2>4. Append(front, last) \in Seq(Segments) /\ Append(front, last) # <<>>
    BY AppendProperties
  <2> QED
    BY <2>2, <2>3, <2>4
<1>4. ASSUME NEW child \in FileNames
      PROVE  Link(child) \in Seq(Segments) /\ Link(child) # <<>>
  <2>1. PICK name \in Segments : name = Encoded(child)
    BY <1>2
  <2>2. PICK slash \in Segments : slash = Empty
    BY <1>2
  <2>3. Link(child) \in {base \o <<name>> \o <<slash>>, base \o <<name>> \o <<>>}
    BY <1>1, <2>1, <2>2 DEF Link, percent_encode_path_segment
  <2>4. /\ base \o <<name>> \o <<slash>> \in Seq(Segments)
        /\ base \o <<name>> \o <<slash>> # <<>>
    OBVIOUS
  <2>5. base \o <<name>> \o <<>> \in Seq(Segments) /\ base \o <<name>> \o <<>> # <<>>
    OBVIOUS
  <2> QED
    BY <2>3, <2>4, <2>5
<1> QED
  BY <1>3, <1>4

\* Every step keeps the invariant.
LEMMA NextSound == Sound /\ [Next]_vars => Sound'
<1> SUFFICES ASSUME Sound, [Next]_vars PROVE Sound'
  OBVIOUS
<1>1. CASE Enter
  BY <1>1, ShowSound, SiteAssumption DEF Enter
<1>2. CASE Follow
  <2>1. page.location \in Seq(Segments) /\ page.location # <<>> /\ Show(page.location)
    BY <1>2 DEF Follow, Sound, Fine
  <2> QED
    BY <2>1, ShowSound
<1>3. CASE Click
  <2>1. PICK child \in FileNames : Show(Link(child))
    BY <1>3 DEF Click, Children
  <2>2. Link(child) \in Seq(Segments) /\ Link(child) # <<>>
    BY LinksAreUrls DEF Sound
  <2> QED
    BY <2>1, <2>2, ShowSound
<1>4. CASE Up
  <2>1. Parent \in Seq(Segments) /\ Parent # <<>>
    BY LinksAreUrls DEF Sound
  <2> QED
    BY <1>4, <2>1, ShowSound DEF Up
<1>5. CASE NextClient
  <2>1. /\ UNCHANGED <<config, tree, cache>> /\ header' \in Headers
        /\ at' = <<Empty>> /\ page' = Blank
    BY <1>5 DEF NextClient
  <2>2. at' \in Seq(Segments) /\ at' # <<>>
    <3>1. Empty \in Segments
      BY EmptySegment
    <3>2. \A segment \in Segments : <<segment>> \in Seq(Segments) /\ <<segment>> # <<>>
      OBVIOUS
    <3> QED
      BY <2>1, <3>1, <3>2, Zenon
  <2>3. Fine(page, header)'
    <3>1. page'.kind = "Blank" /\ page'.path = <<>> /\ page'.file = <<>>
      BY <2>1 DEF Blank, Page
    <3> QED
      BY <3>1 DEF Fine
  <2>4. (config = Down \/ Configured(config))'
    BY <2>1 DEF Sound, Configured
  <2>5. (\A entry \in cache : entry.page.kind = "File" /\ Fine(entry.page, entry.header))'
    BY <2>1 DEF Sound, Fine, Forbidden, IsIndex, TypeOf, VariantsOf
  <2>6. (IsFiniteSet(cache) /\ Cardinality(cache) <= MaxStored)'
    BY <2>1 DEF Sound
  <2> QED
    BY <2>1, <2>2, <2>3, <2>4, <2>5, <2>6 DEF Sound
<1>6. CASE Leave
  <2>1. UNCHANGED <<config, tree, header, at, cache>> /\ page' = Page("Elsewhere", 0, <<>>)
    BY <1>6 DEF Leave
  <2>2. Fine(page, header)'
    <3>1. page'.kind = "Elsewhere" /\ page'.path = <<>> /\ page'.file = <<>>
      BY <2>1 DEF Page
    <3> QED
      BY <3>1 DEF Fine
  <2>3. (config = Down \/ Configured(config))'
    BY <2>1 DEF Sound, Configured
  <2>4. (\A entry \in cache : entry.page.kind = "File" /\ Fine(entry.page, entry.header))'
    BY <2>1 DEF Sound, Fine, Forbidden, IsIndex, TypeOf, VariantsOf
  <2>5. (IsFiniteSet(cache) /\ Cardinality(cache) <= MaxStored)'
    BY <2>1 DEF Sound
  <2> QED
    BY <2>1, <2>2, <2>3, <2>4, <2>5 DEF Sound
<1>7. CASE UNCHANGED vars
  BY <1>7 DEF vars, Sound, Configured, Fine, Forbidden, IsIndex, TypeOf, VariantsOf
<1> QED
  BY <1>1, <1>2, <1>3, <1>4, <1>5, <1>6, <1>7 DEF Next

\* The invariant holds in every state.
LEMMA AlwaysSound == Spec => []Sound
<1>1. Init => Sound
  BY InitSound
<1>2. Sound /\ [Next]_vars => Sound'
  BY NextSound
<1> QED
  BY <1>1, <1>2, PTL DEF Spec

-----------------------------------------------------------------------------
(* Where links and redirects lead. *)

Decoded(path) == [i \in 1 .. Len(path) |-> percent_decode_segment(path[i])]

\* The names that a path stands for.
Named(path) == Keep(Decoded(path), {i \in 1 .. Len(path) : Stays(Decoded(path)[i])})

\* Decoding is segment by segment.
LEMMA DecodedNames ==
    ASSUME NEW path \in Seq(Segments)
    PROVE  /\ Decoded(path) \in Seq(Names) /\ Len(Decoded(path)) = Len(path)
           /\ \A i \in 1 .. Len(path) : Decoded(path)[i] = percent_decode_segment(path[i])
<1>1. \A segment \in Segments : percent_decode_segment(segment) \in Names
  BY PathAssumption DEF Segments, percent_decode_segment
<1>2. Len(path) \in Nat /\ \A i \in 1 .. Len(path) : path[i] \in Segments
  OBVIOUS
<1>3. Decoded(path) \in [1 .. Len(path) -> Names]
  BY <1>1, <1>2 DEF Decoded
<1>4. Decoded(path) \in Seq(Names) /\ Len(Decoded(path)) = Len(path)
  BY <1>2, <1>3, SeqDef
<1> QED
  BY <1>4 DEF Decoded

\* One segment more is one name more, or none.
LEMMA NamedMore ==
    ASSUME NEW path \in Seq(Segments), NEW segment \in Segments,
           NEW name, name = percent_decode_segment(segment)
    PROVE  /\ Named(path) \in Seq(Names) /\ name \in Names
           /\ Stays(name) => Named(Append(path, segment)) = Append(Named(path), name)
           /\ ~Stays(name) => Named(Append(path, segment)) = Named(path)
<1>1. PICK n \in Nat : n = Len(path)
  OBVIOUS
<1>2. PICK more \in Seq(Segments) :
        /\ more = Append(path, segment) /\ Len(more) = n + 1 /\ more[n + 1] = segment
        /\ \A i \in 1 .. n : more[i] = path[i]
  <2>1. Append(path, segment) \in Seq(Segments) /\ Len(Append(path, segment)) = n + 1
    BY <1>1
  <2>2. /\ Append(path, segment)[n + 1] = segment
        /\ \A i \in 1 .. n : Append(path, segment)[i] = path[i]
    BY <1>1
  <2> QED
    BY <2>1, <2>2
<1>3. PICK s \in Seq(Names) : /\ s = Decoded(path) /\ Len(s) = n
                              /\ \A i \in 1 .. n : s[i] = percent_decode_segment(path[i])
  BY <1>1, DecodedNames
<1>4. PICK t \in Seq(Names) : /\ t = Decoded(more) /\ Len(t) = n + 1
                              /\ \A i \in 1 .. n + 1 : t[i] = percent_decode_segment(more[i])
  BY <1>2, DecodedNames
<1>5. name \in Names
  BY PathAssumption DEF Segments, percent_decode_segment
<1>6. t = Append(s, name)
  <2>1. /\ Append(s, name) \in Seq(Names) /\ Len(Append(s, name)) = n + 1
        /\ Append(s, name)[n + 1] = name /\ \A i \in 1 .. n : Append(s, name)[i] = s[i]
    BY <1>3, <1>5
  <2>2. t[n + 1] = name /\ \A i \in 1 .. n : t[i] = s[i]
    BY <1>2, <1>3, <1>4
  <2>3. \A i \in 1 .. n + 1 : i \in 1 .. n \/ i = n + 1
    OBVIOUS
  <2>4. \A i \in 1 .. n + 1 : t[i] = Append(s, name)[i]
    BY <2>1, <2>2, <2>3
  <2> QED
    BY <1>4, <2>1, <2>4, SeqEqual
<1> DEFINE K == {i \in 1 .. n : Stays(s[i])}
           L == {i \in 1 .. n + 1 : Stays(t[i])}
<1>7. K \in SUBSET (1 .. Len(s)) /\ Named(path) = Keep(s, K) /\ Named(more) = Keep(t, L)
  BY <1>1, <1>2, <1>3, <1>4 DEF Named
<1>8. L = IF Stays(name) THEN K \cup {n + 1} ELSE K
  <2>1. /\ \A i \in 1 .. n : t[i] = s[i] /\ i \in 1 .. n + 1
        /\ t[n + 1] = name /\ n + 1 \in 1 .. n + 1
        /\ \A i \in 1 .. n + 1 : i \in 1 .. n \/ i = n + 1
    BY <1>2, <1>3, <1>4
  <2> QED
    BY <2>1, Zenon
<1> HIDE DEF K, L
<1>9. Keep(t, K) = Keep(s, K) /\ Keep(t, K \cup {n + 1}) = Append(Keep(s, K), name)
  BY <1>3, <1>5, <1>6, <1>7, KeepGrows
<1>10. Keep(s, K) \in Seq(Names)
  BY <1>7, KeepAt
<1> QED
  BY <1>2, <1>5, <1>7, <1>8, <1>9, <1>10

\* A path of which nothing is dropped.
LEMMA NamedAll ==
    ASSUME NEW path \in Seq(Segments),
           \A i \in 1 .. Len(path) : Stays(percent_decode_segment(path[i]))
    PROVE  Named(path) = Decoded(path)
<1>1. /\ Decoded(path) \in Seq(Names) /\ Len(Decoded(path)) = Len(path)
      /\ \A i \in 1 .. Len(path) : Stays(Decoded(path)[i])
  BY DecodedNames
<1>2. {i \in 1 .. Len(path) : Stays(Decoded(path)[i])} = 1 .. Len(path)
  BY <1>1
<1> QED
  BY <1>1, <1>2, KeepAll DEF Named

\* A path of which everything is dropped.
LEMMA NamedNone ==
    ASSUME NEW path \in Seq(Segments),
           \A i \in 1 .. Len(path) : percent_decode_segment(path[i]) = NoName
    PROVE  Named(path) = <<>>
<1>1. /\ Decoded(path) \in Seq(Names) /\ Len(Decoded(path)) = Len(path)
      /\ \A i \in 1 .. Len(path) : ~Stays(Decoded(path)[i])
  BY DecodedNames DEF Stays
<1>2. {i \in 1 .. Len(path) : Stays(Decoded(path)[i])} = {}
  BY <1>1
<1>3. Named(path) = Keep(Decoded(path), {})
  BY <1>2 DEF Named
<1>4. {} \in SUBSET (1 .. Len(Decoded(path))) /\ Cardinality({}) = 0
  BY FS_EmptySet
<1>5. Keep(Decoded(path), {}) \in Seq(Names) /\ Len(Keep(Decoded(path), {})) = 0
  BY <1>1, <1>4, KeepAt
<1> QED
  BY <1>3, <1>5

\* The path of a URL ends at the first cut, or with the URL.
LEMMA PathUpTo ==
    ASSUME NEW url \in Seq(Segments), NEW c \in 1 .. Len(url),
           \A i \in 1 .. c - 1 : ~Cut(url[i]), c = Len(url) \/ Cut(url[c])
    PROVE  strip_query_and_fragment(url) = SubSeq(url, 1, c)
<1> DEFINE cuts == {j \in 1 .. Len(url) : Cut(url[j])}
<1>1. PICK n \in Nat : n = Len(url)
  OBVIOUS
<1>2. cuts \subseteq Nat \ {0}
  BY <1>1
<1>3. strip_query_and_fragment(url)
        = IF First(cuts) = 0 THEN url ELSE SubSeq(url, 1, First(cuts))
  BY DEF strip_query_and_fragment
<1>4. CASE cuts = {}
  <2>1. c = Len(url) /\ First(cuts) = 0
    BY <1>2, <1>4, FirstIs
  <2>2. SubSeq(url, 1, Len(url)) = url
    BY SubSeqFull
  <2> QED
    BY <1>3, <2>1, <2>2
<1>5. CASE cuts # {}
  <2>1. PICK f \in cuts : f = First(cuts) /\ \A j \in cuts : f <= j
    <3> HIDE DEF cuts
    <3> QED
      BY <1>2, <1>5, FirstIs
  <2>2. f \in 1 .. n /\ Cut(url[f])
    BY <1>1, <2>1
  <2>3. ~(f < c)
    BY <1>1, <2>2
  <2>4. ~(c < f)
    <3>1. c = Len(url) => ~(c < f)
      BY <1>1, <2>2
    <3>2. Cut(url[c]) => c \in cuts
      BY <1>1
    <3>3. c \in cuts => ~(c < f)
      BY <1>1, <2>1, <2>2
    <3> QED
      BY <3>1, <3>2, <3>3
  <2>5. f = c /\ f # 0
    BY <1>1, <2>2, <2>3, <2>4
  <2> QED
    BY <1>3, <2>1, <2>5
<1> QED
  BY <1>4, <1>5

\* Every URL has a path.
LEMMA PathEnds ==
    ASSUME NEW url \in Seq(Segments), url # <<>>
    PROVE  \E c \in 1 .. Len(url) : /\ \A i \in 1 .. c - 1 : ~Cut(url[i])
                                    /\ c = Len(url) \/ Cut(url[c])
                                    /\ strip_query_and_fragment(url) = SubSeq(url, 1, c)
<1> DEFINE ends == {j \in 1 .. Len(url) : j = Len(url) \/ Cut(url[j])}
<1>1. PICK n \in Nat : n = Len(url) /\ n >= 1
  OBVIOUS
<1>2. ends \subseteq Nat /\ n \in ends
  BY <1>1
<1>3. PICK c \in ends : \A j \in ends : c <= j
  <2> HIDE DEF ends
  <2> QED
    BY <1>2, LeastNat
<1>4. c \in 1 .. n /\ (c = Len(url) \/ Cut(url[c]))
  BY <1>1, <1>3
<1>5. \A i \in 1 .. c - 1 : ~Cut(url[i])
  <2> TAKE i \in 1 .. c - 1
  <2>1. i \in 1 .. n /\ ~(c <= i)
    BY <1>4
  <2> QED
    BY <1>1, <1>3, <2>1
<1>6. strip_query_and_fragment(url) = SubSeq(url, 1, c)
  BY <1>1, <1>4, <1>5, PathUpTo
<1> QED
  BY <1>1, <1>4, <1>5, <1>6

\* resolve_request_path, by the path of its URL.
LEMMA ResolvedAs ==
    ASSUME NEW url \in Seq(Segments), url # <<>>, NEW dotfiles,
           NEW path \in Seq(Segments), path = strip_query_and_fragment(url),
           NEW r, r = resolve_request_path(url, dotfiles)
    PROVE  /\ r.relative = Named(path)
           /\ r.trailing_slash = (percent_decode_segment(path[Len(path)]) = NoName)
           /\ r.verdict = "Ok" <=> /\ ~(Len(url) > MaxPathLen)
                                   /\ \A i \in 1 .. Len(path) : Reject(path[i], dotfiles) = "None"
           /\ Len(url) > MaxPathLen => r.verdict = "TooLong"
<1> DEFINE bad == {i \in 1 .. Len(path) : Reject(path[i], dotfiles) # "None"}
<1>1. r.trailing_slash = (percent_decode_segment(path[Len(path)]) = NoName)
  BY DEF resolve_request_path
<1>2. r.relative = Named(path)
  BY DEF resolve_request_path, Named, Decoded, Stays
<1>3. r.verdict = IF Len(url) > MaxPathLen THEN "TooLong"
                  ELSE IF First(bad) # 0 THEN Reject(path[First(bad)], dotfiles) ELSE "Ok"
  BY DEF resolve_request_path
<1>4. \A segment : Reject(segment, dotfiles) # "Ok"
  BY DEF Reject
<1>5. First(bad) = 0 <=> bad = {}
  <2>1. bad \subseteq Nat \ {0}
    OBVIOUS
  <2> HIDE DEF bad
  <2> QED
    BY <2>1, FirstIs
<1>6. bad = {} <=> \A i \in 1 .. Len(path) : Reject(path[i], dotfiles) = "None"
  OBVIOUS
<1> HIDE DEF bad
<1> QED
  BY <1>1, <1>2, <1>3, <1>4, <1>5, <1>6

\* A path without a cut is all of its URL.
LEMMA Uncut ==
    ASSUME NEW url \in Seq(Segments), url # <<>>, \A i \in 1 .. Len(url) : ~Cut(url[i])
    PROVE  strip_query_and_fragment(url) = url
<1>1. PICK n \in Nat : n = Len(url) /\ n >= 1
  OBVIOUS
<1>2. n \in 1 .. Len(url) /\ \A i \in 1 .. n - 1 : ~Cut(url[i])
  BY <1>1
<1>3. strip_query_and_fragment(url) = SubSeq(url, 1, n)
  BY <1>1, <1>2, PathUpTo
<1> QED
  BY <1>1, <1>3, SubSeqFull

\* A part of a sequence.
IsPart(t, s, a, b) ==
    /\ t = SubSeq(s, a + 1, b) /\ Len(t) = b - a
    /\ \A i \in 1 .. b - a : t[i] = s[a + i]

\* It is a sequence.
LEMMA Part ==
    ASSUME NEW S, NEW s \in Seq(S), NEW a \in Nat, NEW b \in Nat, a <= b, b <= Len(s)
    PROVE  \E t \in Seq(S) : IsPart(t, s, a, b)
<1>1. \A i \in a + 1 .. b : s[i] \in S
  OBVIOUS
<1>2. PICK k \in Int : k = a + 1
  OBVIOUS
<1>3. b \in Int
  OBVIOUS
<1>4. /\ SubSeq(s, k, b) \in Seq(S)
      /\ Len(SubSeq(s, k, b)) = IF k <= b THEN b - k + 1 ELSE 0
      /\ \A i \in 1 .. b - k + 1 : SubSeq(s, k, b)[i] = s[k + i - 1]
  <2>1. \A i \in k .. b : s[i] \in S
    BY <1>1, <1>2
  <2> QED
    BY <1>3, <2>1, SubSeqProperties
<1>5. b - k + 1 = b - a /\ (IF k <= b THEN b - k + 1 ELSE 0) = b - a
  BY <1>2
<1>6. \A i \in 1 .. b - a : k + i - 1 = a + i
  BY <1>2
<1>7. PICK t \in Seq(S) : t = SubSeq(s, k, b)
  BY <1>4
<1>8. IsPart(t, s, a, b)
  BY <1>2, <1>4, <1>5, <1>6, <1>7 DEF IsPart
<1> QED
  BY <1>8

\* The segments of a URL that spell the mount prefix.
Mounts(front, prefix) ==
    /\ front \in Seq(Segments) /\ Len(front) = Len(prefix)
    /\ \A i \in 1 .. Len(prefix) : Spells(front[i], prefix[i])

\* What follows them is what is left.
LEMMA MountedRest ==
    ASSUME NEW prefix \in Seq(Names), NEW front, Mounts(front, prefix),
           NEW rest \in Seq(Segments), rest # <<>>
    PROVE  /\ strip_mount_prefix(front \o rest, prefix) = rest
           /\ front \o rest \in Seq(Segments)
<1>1. PICK n \in Nat : n = Len(prefix)
  OBVIOUS
<1>2. PICK m \in Nat : m = Len(rest) /\ m >= 1
  OBVIOUS
<1>3. PICK f \in Seq(Segments) : f = front /\ Len(f) = n
  BY <1>1 DEF Mounts
<1>4. PICK url \in Seq(Segments) :
        /\ url = f \o rest /\ Len(url) = n + m
        /\ \A i \in 1 .. n : url[i] = f[i]
        /\ \A i \in 1 .. m : url[n + i] = rest[i]
  <2>1. /\ f \o rest \in Seq(Segments) /\ Len(f \o rest) = n + m
        /\ \A i \in 1 .. n + m : (f \o rest)[i] = IF i <= n THEN f[i] ELSE rest[i - n]
    BY <1>2, <1>3, ConcatProperties
  <2>2. /\ \A i \in 1 .. n : (f \o rest)[i] = f[i]
        /\ \A i \in 1 .. m : (f \o rest)[n + i] = rest[i]
    BY <2>1
  <2> QED
    BY <2>1, <2>2, Zenon
<1>5. SubSeq(url, n + 1, n + m) = rest
  <2>1. PICK s \in Seq(Segments) :
          /\ s = SubSeq(url, n + 1, n + m) /\ Len(s) = m
          /\ \A i \in 1 .. m : s[i] = url[n + i]
    <3>1. PICK k \in Nat : k = n + m /\ n <= k /\ k <= Len(url) /\ k - n = m
      BY <1>4
    <3>2. PICK s \in Seq(Segments) : IsPart(s, url, n, k)
      BY <3>1, Part
    <3>3. /\ s = SubSeq(url, n + 1, n + m) /\ Len(s) = m
          /\ \A i \in 1 .. m : s[i] = url[n + i]
      BY <3>1, <3>2 DEF IsPart
    <3> QED
      BY <3>3, Zenon
  <2>2. \A i \in 1 .. m : s[i] = rest[i]
    BY <1>4, <2>1
  <2> QED
    BY <1>2, <2>1, <2>2, SeqEqual
<1>6. \A i \in 1 .. n : Spells(url[i], prefix[i])
  BY <1>1, <1>3, <1>4 DEF Mounts
<1>7. Len(url) >= n /\ Len(url) # n
  BY <1>2, <1>4
<1>8. n > 0 => Spells(url[n], prefix[n])
  BY <1>6
<1>9. strip_mount_prefix(url, prefix) = SubSeq(url, n + 1, Len(url))
  BY <1>1, <1>6, <1>7, <1>8 DEF strip_mount_prefix
<1> QED
  BY <1>3, <1>4, <1>5, <1>9

\* A URL whose path has the mount, what follows it and a last segment without a
\* name; what is left of the URL behind the mount has the same without the mount.
Splits(url, rest, prefix, front, path, last) ==
    /\ Mounts(front, prefix)
    /\ strip_query_and_fragment(url) = Append(front \o path, last)
    /\ strip_query_and_fragment(rest) = Append(path, last)
    /\ \A i \in 1 .. Len(path) : ~Cut(path[i])
    /\ percent_decode_segment(last) = NoName
    /\ Len(rest) > Len(path)

\* So does one that ends in a slash and is under a prefix without cuts.
LEMMA MountedFrom ==
    ASSUME NEW url \in Seq(Segments), url # <<>>, NEW prefix \in Seq(Names),
           prefix # <<>> => LastName(prefix) # NoName,
           \A i \in 1 .. Len(prefix) : prefix[i] \notin Cuts,
           NEW rest, rest = strip_mount_prefix(url, prefix), rest # <<>>, EndsInSlash(url)
    PROVE  \E front, path \in Seq(Segments), last \in Segments :
              Splits(url, rest, prefix, front, path, last)
<1>1. PICK c \in 1 .. Len(url) : /\ \A i \in 1 .. c - 1 : ~Cut(url[i])
                                 /\ c = Len(url) \/ Cut(url[c])
                                 /\ strip_query_and_fragment(url) = SubSeq(url, 1, c)
  BY PathEnds
<1>2. PICK n \in Nat, k \in Nat : n = Len(prefix) /\ k = Len(url) /\ c \in 1 .. k
  OBVIOUS
<1>3. PICK last \in Segments : last = url[c]
  OBVIOUS
<1>4. percent_decode_segment(last) = NoName
  <2>1. Len(SubSeq(url, 1, c)) = c /\ SubSeq(url, 1, c)[c] = url[c]
    BY <1>2
  <2> QED
    BY <1>1, <1>3, <2>1 DEF EndsInSlash
<1>5. /\ k >= n
      /\ \A i \in 1 .. n : \/ Spells(url[i], prefix[i])
                           \/ i = n /\ Cut(url[i]) /\ ReadsAs[url[i].name] = prefix[i]
  BY <1>2 DEF strip_mount_prefix
<1>6. /\ \A i \in 1 .. n : prefix[i] \in Names /\ prefix[i] \notin Cuts
      /\ n > 0 => prefix[n] # NoName
  BY <1>2 DEF LastName
<1>7. ~(c <= n)
  <2>1. SUFFICES ASSUME c <= n PROVE FALSE
    OBVIOUS
  <2>2. c \in 1 .. n
    BY <1>2, <2>1
  <2>3. CASE Spells(last, prefix[c])
    <3>1. last.name = prefix[c] /\ last.name \notin Cuts /\ last.name \in Names
      BY <1>6, <2>2, <2>3 DEF Spells
    <3>2. c = n
      <4>1. ~Cut(url[c])
        BY <1>3, <3>1 DEF Cut
      <4>2. c = k
        BY <1>1, <1>2, <4>1
      <4> QED
        BY <1>2, <1>5, <2>1, <4>2
    <3>3. last.name # NoName
      BY <1>6, <2>2, <3>1, <3>2
    <3>4. percent_decode_segment(last) # NoName
      BY <3>1, <3>3, PathAssumption DEF percent_decode_segment
    <3> QED
      BY <1>4, <3>4
  <2>4. CASE c = n /\ Cut(last) /\ ReadsAs[last.name] = prefix[c]
    <3>1. percent_decode_segment(last) = prefix[c]
      BY <2>4 DEF Cut, percent_decode_segment
    <3> QED
      BY <1>4, <1>6, <2>2, <2>4, <3>1
  <2> QED
    BY <1>3, <1>5, <2>2, <2>3, <2>4
<1>8. c \in n + 1 .. k
  BY <1>2, <1>7
<1>9. \A i \in 1 .. n : Spells(url[i], prefix[i])
  <2> TAKE i \in 1 .. n
  <2>1. i \in 1 .. c - 1
    BY <1>8
  <2> QED
    BY <1>1, <1>5, <2>1
<1>10. rest = SubSeq(url, n + 1, k)
  <2>1. n > 0 => Spells(url[n], prefix[n])
    BY <1>9
  <2>2. k # n
    BY <1>2, <1>8
  <2> QED
    BY <1>2, <1>5, <1>9, <2>1, <2>2 DEF strip_mount_prefix
<1>11. PICK front \in Seq(Segments) :
         front = SubSeq(url, 1, n) /\ Len(front) = n /\ \A i \in 1 .. n : front[i] = url[i]
  <2>1. /\ SubSeq(url, 1, n) \in Seq(Segments) /\ Len(SubSeq(url, 1, n)) = n
        /\ \A i \in 1 .. n : SubSeq(url, 1, n)[i] = url[i]
    BY <1>2, <1>8
  <2> QED
    BY <2>1, Zenon
<1>12. PICK path \in Seq(Segments) :
         /\ path = SubSeq(url, n + 1, c - 1) /\ Len(path) = c - 1 - n
         /\ \A i \in 1 .. Len(path) : path[i] = url[n + i]
  <2>1. PICK b \in Nat : b = c - 1 /\ n <= b /\ b <= Len(url) /\ b - n = c - 1 - n
    BY <1>2, <1>8
  <2>2. PICK path \in Seq(Segments) : IsPart(path, url, n, b)
    BY <2>1, Part
  <2>3. /\ path = SubSeq(url, n + 1, c - 1) /\ Len(path) = c - 1 - n
        /\ \A i \in 1 .. Len(path) : path[i] = url[n + i]
    BY <2>1, <2>2 DEF IsPart
  <2> QED
    BY <2>3, Zenon
<1>13. Mounts(front, prefix)
  BY <1>2, <1>9, <1>11 DEF Mounts
<1>14. SubSeq(url, 1, c) = Append(front \o path, last)
  <2>1. SubSeq(url, 1, c) = SubSeq(url, 1, c - 1) \o <<last>>
    <3>1. 1 \in 1 .. Len(url) /\ c \in 1 .. Len(url)
      BY <1>2
    <3> QED
      BY <1>3, <3>1, SubSeqRecursiveSecond
  <2>2. front \o path = SubSeq(url, 1, c - 1)
    <3>1. 1 \in 1 .. Len(url) + 1 /\ n \in 1 - 1 .. Len(url) /\ c - 1 \in n .. Len(url)
      BY <1>2, <1>8
    <3> QED
      BY <1>11, <1>12, <3>1, ConcatAdjacentSubSeq
  <2>3. front \o path \in Seq(Segments)
    BY ConcatProperties
  <2> QED
    BY <2>1, <2>2, <2>3, AppendIsConcat
<1>15. rest \in Seq(Segments) /\ Len(rest) = k - n /\ \A i \in 1 .. k - n : rest[i] = url[n + i]
  <2>1. k \in Nat /\ n <= k /\ k <= Len(url)
    BY <1>2, <1>8
  <2>2. PICK part \in Seq(Segments) : IsPart(part, url, n, k)
    BY <2>1, Part
  <2> QED
    BY <1>10, <2>2 DEF IsPart
<1>16. strip_query_and_fragment(rest) = SubSeq(rest, 1, c - n)
  <2>1. c - n \in 1 .. Len(rest)
    BY <1>8, <1>15
  <2>2. \A i \in 1 .. (c - n) - 1 : ~Cut(rest[i])
    <3> TAKE i \in 1 .. (c - n) - 1
    <3>1. i \in 1 .. k - n /\ n + i \in 1 .. c - 1
      BY <1>8
    <3> QED
      BY <1>1, <1>15, <3>1
  <2>3. c - n = Len(rest) \/ Cut(rest[c - n])
    <3>1. c - n \in 1 .. k - n /\ n + (c - n) = c
      BY <1>8
    <3> QED
      BY <1>1, <1>2, <1>15, <3>1
  <2> QED
    BY <1>15, <2>1, <2>2, <2>3, PathUpTo
<1>17. SubSeq(rest, 1, c - n) = Append(path, last)
  <2>1. PICK s \in Seq(Segments) :
          /\ s = SubSeq(rest, 1, c - n) /\ Len(s) = c - n
          /\ \A i \in 1 .. c - n : s[i] = rest[i]
    <3>1. c - n \in 1 .. Len(rest)
      BY <1>8, <1>15
    <3>2. /\ SubSeq(rest, 1, c - n) \in Seq(Segments) /\ Len(SubSeq(rest, 1, c - n)) = c - n
          /\ \A i \in 1 .. c - n : SubSeq(rest, 1, c - n)[i] = rest[i]
      BY <1>15, <3>1
    <3> QED
      BY <3>2, Zenon
  <2>2. PICK t \in Seq(Segments) :
          /\ t = Append(path, last) /\ Len(t) = c - n /\ t[c - n] = last
          /\ \A i \in 1 .. c - 1 - n : t[i] = path[i]
    <3>1. /\ Append(path, last) \in Seq(Segments) /\ Len(Append(path, last)) = Len(path) + 1
          /\ \A i \in 1 .. Len(path) : Append(path, last)[i] = path[i]
          /\ Append(path, last)[Len(path) + 1] = last
      BY AppendProperties
    <3>2. Len(path) + 1 = c - n
      BY <1>8, <1>12
    <3> QED
      BY <1>12, <3>1, <3>2
  <2>3. \A i \in 1 .. c - n : s[i] = t[i]
    <3> TAKE i \in 1 .. c - n
    <3>1. i \in 1 .. k - n /\ rest[i] = url[n + i]
      BY <1>8, <1>15
    <3>2. CASE i = c - n
      <4>1. n + i = c
        BY <1>8, <3>2
      <4> QED
        BY <1>3, <2>1, <2>2, <3>1, <3>2, <4>1
    <3>3. CASE i # c - n
      <4>1. i \in 1 .. c - 1 - n
        BY <1>8, <3>3
      <4> QED
        BY <1>12, <2>1, <2>2, <3>1, <4>1
    <3> QED
      BY <3>2, <3>3
  <2> QED
    BY <2>1, <2>2, <2>3, SeqEqual
<1>18. \A i \in 1 .. Len(path) : ~Cut(path[i])
  <2> TAKE i \in 1 .. Len(path)
  <2>1. n + i \in 1 .. c - 1
    BY <1>8, <1>12
  <2> QED
    BY <1>1, <1>12, <2>1
<1>19. Len(rest) > Len(path)
  BY <1>8, <1>12, <1>15
<1> QED
  BY <1>1, <1>4, <1>13, <1>14, <1>16, <1>17, <1>18, <1>19 DEF Splits

\* A segment is rejected for the name that it stands for.
LEMMA RejectedNames ==
    ASSUME NEW segment \in Segments
    PROVE  Reject(segment, config.serve_dotfiles) = "None"
              <=> ~Forbidden(percent_decode_segment(segment))
  BY DEF Reject, Forbidden

\* The empty name is not, and is dropped.
LEMMA EmptyServed == ~Forbidden(NoName) /\ ~Stays(NoName)
  BY PathAssumption DEF Forbidden, Stays

\* The answer to a URL, by what its path resolves to.
LEMMA AnswerTo ==
    ASSUME NEW url, NEW rest, rest = strip_mount_prefix(url, config.prefix),
           NEW r, r = resolve_request_path(rest, config.serve_dotfiles)
    PROVE  /\ (config # Down /\ rest # <<>>) =>
                 /\ r.verdict # "Ok" => Answer(url) = Status(reject_status(r.verdict))
                 /\ (r.verdict = "Ok" /\ r.relative \in tree.files) =>
                       Answer(url).kind = "File" /\ Answer(url).path = r.relative
                 /\ (r.verdict = "Ok" /\ r.trailing_slash = TRUE
                       /\ r.relative \in tree.dirs /\ r.relative \notin tree.files) =>
                       Answer(url) = Directory(r.relative, TRUE)
           /\ Answer(url).kind \in {"Redirect", "Listing"} =>
                 /\ config # Down /\ rest # <<>> /\ r.verdict = "Ok"
                 /\ r.relative \in tree.dirs
                 /\ Answer(url) = Directory(r.relative, r.trailing_slash)
<1>1. PICK path, slash : path = r.relative /\ slash = r.trailing_slash
  OBVIOUS
<1>2. PICK v : v = Variant(path, slash)
  OBVIOUS
<1> DEFINE file == [Page("File", 200, path) EXCEPT
                      !.file = v.file,
                      !.encoding = v.encoding, !.vary = v.vary,
                      !.type = VariantType(path, v.encoding)]
<1>3. Answer(url) =
        IF config = Down \/ rest = <<>> THEN Status(404)
        ELSE IF r.verdict # "Ok" THEN Status(reject_status(r.verdict))
        ELSE IF v.encoding # "identity" \/ path \in tree.files THEN file
        ELSE IF path \in tree.dirs THEN Directory(path, slash)
        ELSE Status(404)
  BY <1>1, <1>2 DEF Answer
<1>4. file.kind = "File" /\ file.path = path
  BY DEF Page
<1>5. \A status : Status(status).kind = "Status"
  BY DEF Status, Page
<1>6. ASSUME slash = TRUE PROVE v.encoding = "identity"
  <2>1. {i \in 1 .. Len(<<>>) : VariantsOf(path, <<>>[i]) # {}} = {}
    OBVIOUS
  <2>2. v.encoding = IF First({}) = 0 THEN "identity" ELSE <<>>[First({})]
    BY <1>2, <1>6, <2>1 DEF Variant
  <2> QED
    BY <2>2 DEF First
<1> HIDE DEF file
<1>7. ASSUME config # Down, rest # <<>>
      PROVE  /\ r.verdict # "Ok" => Answer(url) = Status(reject_status(r.verdict))
             /\ (r.verdict = "Ok" /\ path \in tree.files) =>
                   Answer(url).kind = "File" /\ Answer(url).path = path
             /\ (r.verdict = "Ok" /\ slash = TRUE
                   /\ path \in tree.dirs /\ path \notin tree.files) =>
                   Answer(url) = Directory(path, TRUE)
  BY <1>3, <1>4, <1>6, <1>7
<1>8. ASSUME Answer(url).kind \in {"Redirect", "Listing"}
      PROVE  /\ config # Down /\ rest # <<>> /\ r.verdict = "Ok"
             /\ path \in tree.dirs /\ Answer(url) = Directory(path, slash)
  <2>1. Answer(url).kind # "File" /\ Answer(url).kind # "Status"
    BY <1>8
  <2> QED
    BY <1>3, <1>4, <1>5, <2>1
<1> QED
  BY <1>1, <1>7, <1>8

\* A path without cuts, and one without names that are refused.
Whole(path) == \A i \in 1 .. Len(path) : ~Cut(path[i])

Allowed(path) == \A i \in 1 .. Len(path) : ~Forbidden(percent_decode_segment(path[i]))

\* One segment more.
LEMMA OneMore ==
    ASSUME NEW path \in Seq(Segments), NEW last \in Segments, NEW more,
           more = Append(path, last)
    PROVE  /\ more \in Seq(Segments) /\ more # <<>> /\ Len(more) = Len(path) + 1
           /\ more[Len(more)] = last
           /\ Whole(more) <=> Whole(path) /\ ~Cut(last)
           /\ Allowed(more) <=> Allowed(path) /\ ~Forbidden(percent_decode_segment(last))
<1>1. PICK n \in Nat : n = Len(path)
  OBVIOUS
<1>2. /\ more \in Seq(Segments) /\ more # <<>> /\ Len(more) = n + 1
      /\ \A i \in 1 .. n : more[i] = path[i]
      /\ more[n + 1] = last
  BY <1>1, AppendProperties
<1>3. \A i : i \in 1 .. n + 1 <=> i \in 1 .. n \/ i = n + 1
  OBVIOUS
<1>4. Whole(more) <=> Whole(path) /\ ~Cut(last)
  BY <1>1, <1>2, <1>3, Zenon DEF Whole
<1>5. Allowed(more) <=> Allowed(path) /\ ~Forbidden(percent_decode_segment(last))
  BY <1>1, <1>2, <1>3, Zenon DEF Allowed
<1> QED
  BY <1>1, <1>2, <1>4, <1>5

\* Only a directory one of whose index names is a directory stays without an answer.
LEMMA EndlessIndex ==
    ASSUME Configured(config), NEW path, NEW slash, Directory(path, slash).kind = "Endless"
    PROVE  IndexIsDirectory(path)
<1> DEFINE indexes == {i \in 1 .. Len(config.index_files) :
                         IndexPath(path, config.index_files[i]) \in tree.files \cup tree.dirs}
           index == IndexPath(path, config.index_files[First(indexes)])
           redirect == [Page("Redirect", 301, path) EXCEPT
                          !.location = Append(url_for(path, config.prefix), Empty)]
           file == [Page("File", 200, index) EXCEPT !.type = TypeOf(LastName(index))]
           listing == [Page("Listing", 200, path) EXCEPT !.up = ~AtRoot(path)]
<1>1. \/ Directory(path, slash) \in {redirect, listing, file, Status(403), Status(404)}
      \/ First(indexes) # 0 /\ index \in tree.dirs
  BY DEF Directory
<1>2. /\ redirect.kind = "Redirect" /\ listing.kind = "Listing" /\ file.kind = "File"
      /\ Status(403).kind = "Status" /\ Status(404).kind = "Status"
  BY DEF Status, Page
<1>3. indexes \subseteq 1 .. Len(config.index_files) /\ indexes \subseteq Nat \ {0}
  <2>1. PICK names \in Seq(Names) : names = config.index_files
    BY Zenon DEF Configured
  <2> QED
    BY <2>1
<1> HIDE DEF redirect, file, listing, index
<1>4. First(indexes) # 0 /\ index \in tree.dirs
  BY <1>1, <1>2
<1> HIDE DEF indexes
<1>5. First(indexes) \in 1 .. Len(config.index_files)
  BY <1>3, <1>4, FirstIs
<1> QED
  BY <1>4, <1>5 DEF IndexIsDirectory, index

\* A URL in which nothing is cut and no name is refused leads to what it names.
LEMMA Reaches ==
    ASSUME config # Down, Configured(config), IsTree(tree),
           NEW front, Mounts(front, config.prefix),
           NEW path \in Seq(Segments), path # <<>>, Whole(path), Allowed(path),
           NEW target, target = Named(path), target \in tree.dirs \cup tree.files,
           target \in tree.dirs => percent_decode_segment(path[Len(path)]) = NoName
    PROVE  /\ Leads(front \o path, target)
           /\ ~(Len(path) > MaxPathLen) => Shows(Answer(front \o path), target)
<1>1. PICK url : url = front \o path
  OBVIOUS
<1>2. path = strip_mount_prefix(url, config.prefix)
  <2>1. config.prefix \in Seq(Names)
    BY Zenon DEF Configured
  <2> QED
    BY <1>1, <2>1, MountedRest
<1>3. strip_query_and_fragment(path) = path
  BY Uncut DEF Whole
<1>4. PICK r : r = resolve_request_path(path, config.serve_dotfiles)
  OBVIOUS
<1>5. /\ r.relative = target
      /\ r.trailing_slash = (percent_decode_segment(path[Len(path)]) = NoName)
      /\ r.verdict = "Ok" <=>
            /\ ~(Len(path) > MaxPathLen)
            /\ \A i \in 1 .. Len(path) : Reject(path[i], config.serve_dotfiles) = "None"
      /\ Len(path) > MaxPathLen => r.verdict = "TooLong"
  BY <1>3, <1>4, ResolvedAs
<1>6. \A i \in 1 .. Len(path) : Reject(path[i], config.serve_dotfiles) = "None"
  <2>1. \A i \in 1 .. Len(path) : path[i] \in Segments
    OBVIOUS
  <2> QED
    BY <2>1, RejectedNames DEF Allowed
<1>7. target \in tree.dirs => target \notin tree.files
  BY DEF IsTree
<1>8. /\ r.verdict # "Ok" => Answer(url) = Status(reject_status(r.verdict))
      /\ (r.verdict = "Ok" /\ target \in tree.files) =>
            Answer(url).kind = "File" /\ Answer(url).path = target
      /\ (r.verdict = "Ok" /\ r.trailing_slash = TRUE
            /\ target \in tree.dirs /\ target \notin tree.files) =>
            Answer(url) = Directory(target, TRUE)
  <2>1. /\ r.verdict # "Ok" => Answer(url) = Status(reject_status(r.verdict))
        /\ (r.verdict = "Ok" /\ r.relative \in tree.files) =>
              Answer(url).kind = "File" /\ Answer(url).path = r.relative
        /\ (r.verdict = "Ok" /\ r.trailing_slash = TRUE
              /\ r.relative \in tree.dirs /\ r.relative \notin tree.files) =>
              Answer(url) = Directory(r.relative, TRUE)
    BY <1>2, <1>4, AnswerTo, Zenon
  <2> QED
    BY <1>5, <2>1
<1>9. ASSUME ~(Len(path) > MaxPathLen) PROVE Shows(Answer(url), target)
  <2>1. r.verdict = "Ok"
    BY <1>5, <1>6, <1>9
  <2>2. CASE target \in tree.dirs
    <3>1. r.trailing_slash = TRUE
      BY <1>5, <2>2
    <3> QED
      BY <1>7, <1>8, <2>1, <2>2, <3>1, EndlessIndex DEF Shows
  <2>3. CASE target \notin tree.dirs
    BY <1>8, <2>1, <2>3 DEF Shows
  <2> QED
    BY <2>2, <2>3
<1>10. ASSUME Len(path) > MaxPathLen PROVE Answer(url) = Status(414)
  <2>1. r.verdict = "TooLong"
    BY <1>5, <1>10
  <2>2. reject_status("TooLong") = 414
    BY DEF reject_status
  <2> QED
    BY <1>8, <2>1, <2>2
<1> QED
  BY <1>1, <1>2, <1>9, <1>10 DEF Leads

\* A URL in which nothing is cut and some name is refused leads nowhere.
LEMMA Refuses ==
    ASSUME config # Down, Configured(config),
           NEW front, Mounts(front, config.prefix),
           NEW path \in Seq(Segments), path # <<>>, Whole(path), ~Allowed(path)
    PROVE  Answer(front \o path).kind = "Status"
<1>1. PICK url : url = front \o path
  OBVIOUS
<1>2. PICK k \in 1 .. Len(path) : Forbidden(percent_decode_segment(path[k]))
  BY DEF Allowed
<1>3. path = strip_mount_prefix(url, config.prefix)
  <2>1. config.prefix \in Seq(Names)
    BY Zenon DEF Configured
  <2> QED
    BY <1>1, <2>1, MountedRest
<1>4. strip_query_and_fragment(path) = path
  BY Uncut DEF Whole
<1>5. PICK r : r = resolve_request_path(path, config.serve_dotfiles)
  OBVIOUS
<1>6. r.verdict = "Ok" =>
        \A i \in 1 .. Len(path) : Reject(path[i], config.serve_dotfiles) = "None"
  BY <1>4, <1>5, ResolvedAs
<1>7. path[k] \in Segments
  OBVIOUS
<1>8. r.verdict # "Ok"
  BY <1>2, <1>6, <1>7, RejectedNames
<1>9. Answer(url) = Status(reject_status(r.verdict))
  BY <1>3, <1>5, <1>8, AnswerTo
<1> QED
  BY <1>1, <1>9 DEF Status, Page

\* The page for a directory.
LEMMA DirectoryPage ==
    ASSUME NEW path, NEW slash, NEW p, p = Directory(path, slash)
    PROVE  /\ p.kind \in {"Redirect", "Listing"} => p.path = path /\ p.file = path
           /\ p.kind = "Redirect" =>
                 p.location = Append(url_for(path, config.prefix), Empty)
           /\ p.kind = "Listing" => p.up = (path # <<>>)
<1> DEFINE indexes == {i \in 1 .. Len(config.index_files) :
                         IndexPath(path, config.index_files[i]) \in tree.files \cup tree.dirs}
           index == IndexPath(path, config.index_files[First(indexes)])
           redirect == [Page("Redirect", 301, path) EXCEPT
                          !.location = Append(url_for(path, config.prefix), Empty)]
           file == [Page("File", 200, index) EXCEPT !.type = TypeOf(LastName(index))]
           listing == [Page("Listing", 200, path) EXCEPT !.up = ~AtRoot(path)]
           endless == Page("Endless", 0, path)
<1>1. p \in {redirect, listing, file, endless, Status(403), Status(404)}
  BY DEF Directory
<1>2. /\ redirect.kind = "Redirect" /\ redirect.path = path /\ redirect.file = path
      /\ redirect.location = Append(url_for(path, config.prefix), Empty)
  BY DEF Page
<1>3. /\ listing.kind = "Listing" /\ listing.path = path /\ listing.file = path
      /\ listing.up = (path # <<>>)
  BY DEF Page, AtRoot
<1>4. file.kind = "File" /\ endless.kind = "Endless"
  BY DEF Page
<1>5. Status(403).kind = "Status" /\ Status(404).kind = "Status"
  BY DEF Status, Page
<1> HIDE DEF redirect, file, listing, endless
<1> QED
  BY <1>1, <1>2, <1>3, <1>4, <1>5

\* The page that the client is on, if the server made it from a directory, is the
\* answer to its URL: only files are taken from the cache.
Current ==
    /\ IsTree(tree)
    /\ page.kind \in {"Redirect", "Listing"} => page = Answer(at)

\* A page that is shown is current.
LEMMA ShowCurrent ==
    ASSUME Sound, Current, NEW url, Show(url)
    PROVE  Current'
<1>1. UNCHANGED <<config, tree, header>> /\ at' = url
  BY DEF Show
<1>2. IsTree(tree)'
  BY <1>1 DEF Current, IsTree
<1>3. page'.kind = "File" \/ page' = Answer(url)
  <2>1. CASE \E entry \in cache : page' = entry.page
    BY <2>1 DEF Sound
  <2>2. CASE page' = Answer(url)
    BY <2>2
  <2> QED
    BY <2>1, <2>2 DEF Show
<1>4. (page.kind \in {"Redirect", "Listing"} => page = Answer(at))'
  <2>1. SUFFICES ASSUME page'.kind \in {"Redirect", "Listing"} PROVE page' = Answer(at)'
    OBVIOUS
  <2>2. page' = Answer(url)
    BY <1>3, <2>1
  <2>3. Answer(at)' = Answer(url)
    BY <1>1 DEF Answer, Variant, VariantsOf, Directory, VariantType, TypeOf, Vary, AtRoot
  <2> QED
    BY <2>2, <2>3
<1> QED
  BY <1>2, <1>4 DEF Current

\* The pages of all clients are current.
LEMMA AlwaysCurrent == Spec => []Current
<1>1. Init => Current
  <2> SUFFICES ASSUME Init PROVE Current
    OBVIOUS
  <2>1. IsTree(tree)
    BY SiteAssumption DEF Init
  <2>2. page.kind = "Blank"
    BY DEF Init, Blank, Page
  <2> QED
    BY <2>1, <2>2 DEF Current
<1>2. Sound /\ Current /\ [Next]_vars => Current'
  <2> SUFFICES ASSUME Sound, Current, [Next]_vars PROVE Current'
    OBVIOUS
  <2>1. CASE Enter
    BY <2>1, ShowCurrent DEF Enter
  <2>2. CASE Follow
    BY <2>2, ShowCurrent DEF Follow
  <2>3. CASE Click
    BY <2>3, ShowCurrent DEF Click
  <2>4. CASE Up
    BY <2>4, ShowCurrent DEF Up
  <2>5. CASE NextClient
    <3>1. tree' = tree /\ page' = Blank
      BY <2>5 DEF NextClient
    <3>2. page'.kind = "Blank"
      BY <3>1 DEF Blank, Page
    <3> QED
      BY <3>1, <3>2 DEF Current, IsTree
  <2>6. CASE UNCHANGED vars
    <3>1. UNCHANGED <<config, tree, header, at, page>>
      BY <2>6 DEF vars
    <3>2. Answer(at)' = Answer(at)
      BY <3>1 DEF Answer, Variant, VariantsOf, Directory, VariantType, TypeOf, Vary, AtRoot
    <3> QED
      BY <3>1, <3>2 DEF Current, IsTree
  <2>7. CASE Leave
    <3>1. tree' = tree /\ page' = Page("Elsewhere", 0, <<>>)
      BY <2>7 DEF Leave
    <3>2. page'.kind = "Elsewhere"
      BY <3>1 DEF Page
    <3> QED
      BY <3>1, <3>2 DEF Current, IsTree
  <2> QED
    BY <2>1, <2>2, <2>3, <2>4, <2>5, <2>6, <2>7 DEF Next
<1> QED
  BY <1>1, <1>2, AlwaysSound, PTL DEF Spec

\* Where such a page comes from: a directory, whose names the server serves.
LEMMA FromDirectory ==
    ASSUME Sound, Current, page.kind \in {"Redirect", "Listing"},
           NEW rest, rest = strip_mount_prefix(at, config.prefix)
    PROVE  /\ config # Down /\ Configured(config) /\ IsTree(tree)
           /\ rest \in Seq(Segments) /\ rest # <<>> /\ ~(Len(rest) > MaxPathLen)
           /\ page.path = Named(strip_query_and_fragment(rest))
           /\ Allowed(strip_query_and_fragment(rest))
           /\ page.path \in tree.dirs /\ page.path \in Seq(Names)
           /\ \A i \in 1 .. Len(page.path) : ~Forbidden(page.path[i]) /\ Stays(page.path[i])
           /\ page.kind = "Redirect" =>
                 page.location = Append(url_for(page.path, config.prefix), Empty)
           /\ page.kind = "Listing" => page.up = (page.path # <<>>)
<1>1. page = Answer(at) /\ IsTree(tree)
  BY DEF Current
<1>2. PICK r : r = resolve_request_path(rest, config.serve_dotfiles)
  OBVIOUS
<1>3. /\ config # Down /\ rest # <<>> /\ r.verdict = "Ok" /\ r.relative \in tree.dirs
      /\ page = Directory(r.relative, r.trailing_slash)
  BY <1>1, <1>2, AnswerTo
<1>4. /\ page.path = r.relative /\ page.file = r.relative
      /\ page.kind = "Redirect" =>
            page.location = Append(url_for(page.path, config.prefix), Empty)
      /\ page.kind = "Listing" => page.up = (page.path # <<>>)
  BY <1>3, DirectoryPage
<1>5. Configured(config) /\ at \in Seq(Segments)
  BY <1>3 DEF Sound
<1>6. rest \in Seq(Segments)
  <2>1. config.prefix \in Seq(Names)
    BY <1>5, Zenon DEF Configured
  <2> QED
    BY <1>5, <2>1, Unmounted
<1>7. PICK path \in Seq(Segments) : path = strip_query_and_fragment(rest)
  BY <1>3, <1>6, Stripped
<1>8. /\ r.relative = Named(path) /\ ~(Len(rest) > MaxPathLen)
      /\ \A i \in 1 .. Len(path) : Reject(path[i], config.serve_dotfiles) = "None"
  BY <1>2, <1>3, <1>6, <1>7, ResolvedAs
<1>9. Allowed(path)
  <2>1. \A i \in 1 .. Len(path) : path[i] \in Segments
    OBVIOUS
  <2> QED
    BY <1>8, <2>1, RejectedNames DEF Allowed
<1>10. page.path \in Seq(Names) /\ \A i \in 1 .. Len(page.path) : ~Forbidden(page.path[i])
  <2>1. Fine(page, header)
    BY DEF Sound
  <2>2. page.kind # "File"
    OBVIOUS
  <2> QED
    BY <1>4, <2>1, <2>2 DEF Fine
<1>11. \A i \in 1 .. Len(page.path) : Stays(page.path[i])
  <2>1. page.path \in Seq({name \in FileNames : Rule[name] # "Dot"})
    BY <1>1, <1>3, <1>4 DEF IsTree
  <2>2. \A i \in 1 .. Len(page.path) :
          page.path[i] \in {name \in FileNames : Rule[name] # "Dot"}
    BY <2>1
  <2> QED
    BY <2>2, Zenon DEF FileNames, Stays
<1> QED
  BY <1>1, <1>3, <1>4, <1>5, <1>6, <1>7, <1>8, <1>9, <1>10, <1>11

\* What a name is in a URL, as it stands.
LEMMA RawSegment ==
    ASSUME NEW name \in Names
    PROVE  /\ Raw(name) \in Segments /\ Spells(Raw(name), name)
           /\ percent_decode_segment(Raw(name)) = ReadsAs[name]
           /\ Cut(Raw(name)) <=> name \in Cuts
<1>1. Raw(name).name = name /\ Raw(name).encoded = FALSE /\ Raw(name) \in Segments
  BY DEF Raw, Segments
<1> QED
  BY <1>1 DEF Spells, percent_decode_segment, Cut

\* The mount and what follows it in a Location that has given names.
Locates(location, prefix, names, front, path) ==
    /\ Mounts(front, prefix)
    /\ location = front \o Append(path, Empty)
    /\ Len(path) = Len(names) /\ \A i \in 1 .. Len(names) : path[i] = Raw(names[i])

\* Every Location has them.
LEMMA LocationSplits ==
    ASSUME NEW relative \in Seq(Names), NEW prefix \in Seq(Names),
           NEW names \in Seq(Names),
           names = IF relative = <<>> THEN <<NoName>> ELSE relative
    PROVE  \E front, path \in Seq(Segments) :
              Locates(Append(url_for(relative, prefix), Empty), prefix, names, front, path)
<1>1. PICK n \in Nat, m \in Nat : n = Len(prefix) /\ m = Len(names)
  OBVIOUS
<1>2. \A name \in Names : Raw(name) \in Segments
  BY DEF Raw, Segments
<1>3. PICK front \in Seq(Segments) :
        Len(front) = n /\ \A i \in 1 .. n : front[i] = Raw(prefix[i])
  <2>1. PICK f : f = [i \in 1 .. n |-> Raw(prefix[i])]
    OBVIOUS
  <2>2. \A i \in 1 .. n : f[i] = Raw(prefix[i])
    BY <2>1
  <2>3. f \in [1 .. n -> Segments]
    BY <1>1, <1>2, <2>1
  <2>4. f \in Seq(Segments) /\ Len(f) = n
    BY <2>3, SeqDef
  <2> QED
    BY <2>2, <2>4, Zenon
<1>4. PICK path \in Seq(Segments) :
        Len(path) = m /\ \A i \in 1 .. m : path[i] = Raw(names[i])
  <2>1. PICK f : f = [i \in 1 .. m |-> Raw(names[i])]
    OBVIOUS
  <2>2. \A i \in 1 .. m : f[i] = Raw(names[i])
    BY <2>1
  <2>3. f \in [1 .. m -> Segments]
    BY <1>1, <1>2, <2>1
  <2>4. f \in Seq(Segments) /\ Len(f) = m
    BY <2>3, SeqDef
  <2> QED
    BY <2>2, <2>4, Zenon
<1>5. Mounts(front, prefix)
  <2>1. \A i \in 1 .. n : Spells(front[i], prefix[i])
    BY <1>1, <1>3, RawSegment
  <2> QED
    BY <1>1, <1>3, <2>1 DEF Mounts
<1>6. PICK whole \in Seq(Names) :
        /\ whole = prefix \o names /\ Len(whole) = n + m
        /\ \A i \in 1 .. n + m : whole[i] = IF i <= n THEN prefix[i] ELSE names[i - n]
  <2>1. /\ prefix \o names \in Seq(Names) /\ Len(prefix \o names) = n + m
        /\ \A i \in 1 .. n + m :
              (prefix \o names)[i] = IF i <= n THEN prefix[i] ELSE names[i - n]
    BY <1>1, ConcatProperties
  <2> QED
    BY <2>1, Zenon
<1>7. url_for(relative, prefix) = [i \in 1 .. n + m |-> Raw(whole[i])]
  BY <1>6 DEF url_for
<1>8. PICK url \in Seq(Segments) :
        /\ url = url_for(relative, prefix) /\ Len(url) = n + m
        /\ \A i \in 1 .. n + m : url[i] = Raw(whole[i])
  <2>1. url_for(relative, prefix) \in [1 .. n + m -> Segments]
    BY <1>2, <1>6, <1>7
  <2>2. url_for(relative, prefix) \in Seq(Segments) /\ Len(url_for(relative, prefix)) = n + m
    BY <2>1, SeqDef
  <2>3. \A i \in 1 .. n + m : url_for(relative, prefix)[i] = Raw(whole[i])
    BY <1>7
  <2> QED
    BY <2>2, <2>3, Zenon
<1>9. url = front \o path
  <2>1. PICK both \in Seq(Segments) :
          /\ both = front \o path /\ Len(both) = n + m
          /\ \A i \in 1 .. n + m : both[i] = IF i <= n THEN front[i] ELSE path[i - n]
    <3>1. /\ front \o path \in Seq(Segments) /\ Len(front \o path) = n + m
          /\ \A i \in 1 .. n + m :
                (front \o path)[i] = IF i <= n THEN front[i] ELSE path[i - n]
      BY <1>3, <1>4, ConcatProperties
    <3> QED
      BY <3>1, Zenon
  <2>2. \A i \in 1 .. n + m : url[i] = both[i]
    <3> TAKE i \in 1 .. n + m
    <3>1. CASE i <= n
      <4>1. i \in 1 .. n
        BY <3>1
      <4>2. whole[i] = prefix[i] /\ both[i] = front[i]
        BY <1>6, <2>1, <3>1
      <4> QED
        BY <1>3, <1>8, <4>1, <4>2
    <3>2. CASE ~(i <= n)
      <4>1. i - n \in 1 .. m
        BY <3>2
      <4> QED
        BY <1>4, <1>6, <1>8, <2>1, <3>2, <4>1
    <3> QED
      BY <3>1, <3>2
  <2> QED
    BY <1>8, <2>1, <2>2, SeqEqual
<1>10. Append(url, Empty) = front \o Append(path, Empty)
  <2>1. PICK last \in Segments : last = Empty
    BY EmptySegment
  <2>2. Append(url, last) = url \o <<last>> /\ Append(path, last) = path \o <<last>>
    BY AppendIsConcat
  <2>3. <<last>> \in Seq(Segments)
    OBVIOUS
  <2>4. (front \o path) \o <<last>> = front \o (path \o <<last>>)
    BY <2>3, ConcatAssociative
  <2> QED
    BY <1>9, <2>1, <2>2, <2>4
<1>11. /\ Append(url_for(relative, prefix), Empty) = front \o Append(path, Empty)
       /\ Len(path) = Len(names) /\ \A i \in 1 .. Len(names) : path[i] = Raw(names[i])
  BY <1>1, <1>4, <1>8, <1>10
<1>12. Locates(Append(url_for(relative, prefix), Empty), prefix, names, front, path)
  BY <1>5, <1>11, Zenon DEF Locates
<1> QED
  BY <1>12, Zenon

\* The elements before the one that was appended.
LEMMA BeforeAppended ==
    ASSUME NEW S, NEW s \in Seq(S), NEW x \in S, NEW i \in 1 .. Len(s)
    PROVE  Append(s, x)[i] = s[i] /\ Len(Append(s, x)) = Len(s) + 1
  BY AppendProperties

\* A Location whose first name is not empty does not begin with two slashes.
LEMMA LocationIsPath ==
    ASSUME NEW relative \in Seq(Names), NEW prefix \in Seq(Names),
           IF prefix = <<>> THEN relative # <<>> /\ relative[1] # NoName
           ELSE prefix[1] # NoName
    PROVE  ~NetworkPath(Append(url_for(relative, prefix), Empty))
<1>1. PICK tail \in Seq(Names) : tail = IF relative = <<>> THEN <<NoName>> ELSE relative
  <2>1. \A name \in Names : <<name>> \in Seq(Names)
    OBVIOUS
  <2>2. <<NoName>> \in Seq(Names)
    BY <2>1, PathAssumption, Zenon
  <2> QED
    BY <2>2
<1>2. PICK names \in Seq(Names) : names = prefix \o tail
  BY ConcatProperties
<1>3. PICK n \in Nat : n = Len(names) /\ n >= 1 /\ names[1] \in Names /\ names[1] # NoName
  <2>1. CASE prefix = <<>>
    <3>1. tail = relative /\ names = tail
      BY <1>1, <1>2, <2>1, ConcatEmptySeq
    <3> QED
      BY <2>1, <3>1
  <2>2. CASE prefix # <<>>
    <3>1. Len(prefix) >= 1 /\ Len(names) = Len(prefix) + Len(tail) /\ names[1] = prefix[1]
      BY <1>1, <1>2, <2>2, ConcatProperties
    <3> QED
      BY <2>2, <3>1
  <2> QED
    BY <2>1, <2>2
<1>4. url_for(relative, prefix) = [i \in 1 .. n |-> Raw(names[i])]
  BY <1>1, <1>2, <1>3 DEF url_for
<1>5. [i \in 1 .. n |-> Raw(names[i])] \in [1 .. n -> Segments]
  BY <1>3 DEF Raw, Segments
<1>6. PICK url \in Seq(Segments) :
        url = url_for(relative, prefix) /\ Len(url) = n /\ url[1] = Raw(names[1])
  <2>1. url_for(relative, prefix) \in [1 .. n -> Segments]
    BY <1>4, <1>5
  <2>2. url_for(relative, prefix) \in Seq(Segments) /\ Len(url_for(relative, prefix)) = n
    BY <2>1, SeqDef
  <2>3. url_for(relative, prefix)[1] = Raw(names[1])
    BY <1>3, <1>4
  <2> QED
    BY <2>2, <2>3, Zenon
<1>7. PICK last \in Segments : last = Empty
  BY EmptySegment
<1>8. 1 \in 1 .. Len(url)
  BY <1>3, <1>6
<1>9. Append(url, last)[1] = url[1]
  BY <1>8, BeforeAppended
<1>10. Raw(names[1]) # Empty
  <2>1. Raw(names[1]).name = names[1] /\ Empty.name = NoName
    BY DEF Raw, Empty
  <2> QED
    BY <1>3, <2>1
<1> QED
  BY <1>6, <1>7, <1>9, <1>10 DEF NetworkPath

\* The redirect for a directory leads to it.
LEMMA RedirectLeads ==
    ASSUME Sound, Current, page.kind = "Redirect",
           \A i \in 1 .. Len(page.path) : /\ ReadsAs[page.path[i]] = page.path[i]
                                          /\ page.path[i] \notin Cuts,
           config.prefix = <<>> => page.path # <<>>,
           config.prefix # <<>> => config.prefix[1] # NoName
    PROVE  ~NetworkPath(page.location) /\ Leads(page.location, page.path)
<1>1. PICK rest : rest = strip_mount_prefix(at, config.prefix)
  OBVIOUS
<1>2. /\ config # Down /\ Configured(config) /\ IsTree(tree)
      /\ page.path \in tree.dirs /\ page.path \in Seq(Names)
      /\ \A i \in 1 .. Len(page.path) : ~Forbidden(page.path[i]) /\ Stays(page.path[i])
      /\ page.location = Append(url_for(page.path, config.prefix), Empty)
  BY <1>1, FromDirectory
<1>3. PICK target \in Seq(Names) : target = page.path
  BY <1>2
<1>4. PICK prefix \in Seq(Names) : prefix = config.prefix
  BY <1>2, Zenon DEF Configured
<1>5. PICK names \in Seq(Names) : names = IF target = <<>> THEN <<NoName>> ELSE target
  <2>1. \A name \in Names : <<name>> \in Seq(Names)
    OBVIOUS
  <2>2. <<NoName>> \in Seq(Names)
    BY <2>1, PathAssumption, Zenon
  <2> QED
    BY <2>2
<1>6. PICK front, path \in Seq(Segments) :
        Locates(Append(url_for(target, prefix), Empty), prefix, names, front, path)
  BY <1>5, LocationSplits, Zenon
<1> USE DEF Locates
<1>7. \A i \in 1 .. Len(names) :
        /\ ReadsAs[names[i]] = names[i] /\ names[i] \notin Cuts /\ ~Forbidden(names[i])
  <2>1. CASE target = <<>>
    <3>1. \A i \in 1 .. Len(names) : names[i] = NoName
      BY <1>5, <2>1
    <3> QED
      BY <3>1, EmptyServed, PathAssumption
  <2>2. CASE target # <<>>
    BY <1>2, <1>3, <1>5, <2>2
  <2> QED
    BY <2>1, <2>2
<1>8. \A i \in 1 .. Len(path) :
        /\ path[i] \in Segments /\ percent_decode_segment(path[i]) = names[i]
        /\ ~Cut(path[i]) /\ ~Forbidden(percent_decode_segment(path[i]))
  <2> TAKE i \in 1 .. Len(path)
  <2>1. i \in 1 .. Len(names) /\ names[i] \in Names /\ path[i] = Raw(names[i])
    BY <1>6
  <2>2. PICK name \in Names : name = names[i]
    BY <2>1
  <2>3. path[i] = Raw(name) /\ ReadsAs[name] = name /\ name \notin Cuts /\ ~Forbidden(name)
    BY <1>7, <2>1, <2>2
  <2>4. /\ Raw(name) \in Segments /\ ~Cut(Raw(name))
        /\ percent_decode_segment(Raw(name)) = name
    BY <2>3, RawSegment
  <2> QED
    BY <2>2, <2>3, <2>4
<1>9. Named(path) = target
  <2>1. CASE target # <<>>
    <3>1. names = target
      BY <1>5, <2>1
    <3>2. \A i \in 1 .. Len(path) : Stays(percent_decode_segment(path[i]))
      BY <1>2, <1>3, <1>6, <1>8, <3>1
    <3>3. Named(path) = Decoded(path)
      BY <3>2, NamedAll
    <3>4. /\ Decoded(path) \in Seq(Names) /\ Len(Decoded(path)) = Len(path)
          /\ \A i \in 1 .. Len(path) : Decoded(path)[i] = percent_decode_segment(path[i])
      BY DecodedNames
    <3>5. Len(path) = Len(target) /\ \A i \in 1 .. Len(target) : Decoded(path)[i] = target[i]
      BY <1>6, <1>8, <3>1, <3>4
    <3>6. Decoded(path) = target
      BY <3>4, <3>5, SeqEqual
    <3> QED
      BY <3>3, <3>6
  <2>2. CASE target = <<>>
    <3>1. names = <<NoName>> /\ Len(path) = 1
      BY <1>5, <1>6, <2>2
    <3>2. \A i \in 1 .. Len(path) : percent_decode_segment(path[i]) = NoName
      BY <1>6, <1>8, <3>1
    <3> QED
      BY <2>2, <3>2, NamedNone
  <2> QED
    BY <2>1, <2>2
<1>10. Whole(path) /\ Allowed(path)
  BY <1>8 DEF Whole, Allowed
<1>11. PICK last \in Segments : last = Empty /\ ~Cut(last) /\ percent_decode_segment(last) = NoName
  BY EmptySegment
<1>12. PICK whole \in Seq(Segments) : whole = Append(path, last)
  <2>1. Append(path, last) \in Seq(Segments)
    BY AppendProperties
  <2> QED
    BY <2>1, Zenon
<1>13. /\ whole \in Seq(Segments) /\ whole # <<>> /\ whole[Len(whole)] = last
       /\ Whole(whole) /\ Allowed(whole)
  <2>1. /\ whole \in Seq(Segments) /\ whole # <<>> /\ Len(whole) = Len(path) + 1
        /\ whole[Len(whole)] = last
        /\ Whole(whole) <=> Whole(path) /\ ~Cut(last)
        /\ Allowed(whole) <=> Allowed(path) /\ ~Forbidden(percent_decode_segment(last))
    BY <1>12, OneMore, ZenonT(60)
  <2> QED
    BY <1>10, <1>11, <2>1, EmptyServed
<1>14. Named(whole) = target
  BY <1>9, <1>11, <1>12, NamedMore, EmptyServed
<1>15. Leads(front \o whole, target)
  BY <1>2, <1>3, <1>4, <1>6, <1>11, <1>13, <1>14, Reaches
<1>16. ~NetworkPath(Append(url_for(target, prefix), Empty))
  <2>1. target # <<>> => target[1] # NoName
    <3>1. target # <<>> => 1 \in 1 .. Len(target)
      OBVIOUS
    <3> QED
      BY <1>2, <1>3, <3>1 DEF Stays
  <2> QED
    BY <1>3, <1>4, <2>1, LocationIsPath
<1> QED
  BY <1>2, <1>3, <1>4, <1>6, <1>11, <1>12, <1>15, <1>16

\* A sequence without the element that was appended.
LEMMA FrontOfAppend ==
    ASSUME NEW S, NEW s \in Seq(S), NEW x \in S
    PROVE  SubSeq(Append(s, x), 1, Len(Append(s, x)) - 1) = s
<1>1. PICK n \in Nat : n = Len(s)
  OBVIOUS
<1>2. PICK t \in Seq(S) : /\ t = Append(s, x) /\ Len(t) = n + 1
                          /\ \A i \in 1 .. n : t[i] = s[i]
  <2>1. /\ Append(s, x) \in Seq(S) /\ Len(Append(s, x)) = n + 1
        /\ \A i \in 1 .. n : Append(s, x)[i] = s[i]
    BY <1>1, AppendProperties
  <2> QED
    BY <2>1, Zenon
<1>3. PICK u \in Seq(S) : /\ u = SubSeq(t, 1, n) /\ Len(u) = n
                          /\ \A i \in 1 .. n : u[i] = t[i]
  <2>1. /\ SubSeq(t, 1, n) \in Seq(S) /\ Len(SubSeq(t, 1, n)) = n
        /\ \A i \in 1 .. n : SubSeq(t, 1, n)[i] = t[i]
    BY <1>2
  <2> QED
    BY <2>1, Zenon
<1>4. u = s
  BY <1>1, <1>2, <1>3, SeqEqual
<1>5. Len(t) - 1 = n
  BY <1>2
<1> QED
  BY <1>2, <1>3, <1>4, <1>5

\* Appending to what follows the mount.
LEMMA AppendBehind ==
    ASSUME NEW front \in Seq(Segments), NEW path \in Seq(Segments), NEW last \in Segments
    PROVE  Append(front \o path, last) = front \o Append(path, last)
<1>1. Append(path, last) = path \o <<last>>
  BY AppendIsConcat
<1>2. front \o path \in Seq(Segments)
  BY ConcatProperties
<1>3. Append(front \o path, last) = (front \o path) \o <<last>>
  BY <1>2, AppendIsConcat
<1>4. <<last>> \in Seq(Segments)
  OBVIOUS
<1>5. (front \o path) \o <<last>> = front \o (path \o <<last>>)
  BY <1>4, ConcatAssociative
<1> QED
  BY <1>1, <1>3, <1>5

\* A listing whose URL ends in a slash: the base of its links is the mount and a
\* path that names the directory.
LEMMA ListingBase ==
    ASSUME Sound, Current, page.kind = "Listing", EndsInSlash(at),
           \A i \in 1 .. Len(config.prefix) : config.prefix[i] \notin Cuts
    PROVE  \E front, path \in Seq(Segments) :
              /\ Mounts(front, config.prefix) /\ Base = front \o path
              /\ Whole(path) /\ Allowed(path) /\ Named(path) = page.path
              /\ ~(Len(path) + 1 > MaxPathLen)
              /\ Tidy(at) =>
                    \A i \in 1 .. Len(path) : Stays(percent_decode_segment(path[i]))
<1>1. PICK rest : rest = strip_mount_prefix(at, config.prefix)
  OBVIOUS
<1>2. /\ Configured(config) /\ rest \in Seq(Segments) /\ rest # <<>>
      /\ ~(Len(rest) > MaxPathLen)
      /\ page.path = Named(strip_query_and_fragment(rest))
      /\ Allowed(strip_query_and_fragment(rest))
  BY <1>1, FromDirectory
<1>3. PICK prefix \in Seq(Names) :
        prefix = config.prefix /\ (prefix # <<>> => LastName(prefix) # NoName)
  BY <1>2, Zenon DEF Configured
<1>4. PICK url \in Seq(Segments) : url = at /\ url # <<>> /\ EndsInSlash(url)
  BY DEF Sound
<1>5. PICK front, path \in Seq(Segments), last \in Segments :
        Splits(url, rest, prefix, front, path, last)
  <2>1. rest = strip_mount_prefix(url, prefix)
    BY <1>1, <1>3, <1>4
  <2>2. \A i \in 1 .. Len(prefix) : prefix[i] \notin Cuts
    BY <1>3
  <2> QED
    BY <1>2, <1>3, <1>4, <2>1, <2>2, MountedFrom
<1> USE DEF Splits
<1>6. front \o path \in Seq(Segments)
  BY ConcatProperties
<1>7. Base = front \o path
  <2>1. Base = SubSeq(Append(front \o path, last), 1, Len(Append(front \o path, last)) - 1)
    BY <1>4, <1>5 DEF Base
  <2> QED
    BY <1>6, <2>1, FrontOfAppend
<1>8. Whole(path)
  BY <1>5 DEF Whole
<1>9. Allowed(path)
  <2>1. Allowed(Append(path, last))
    BY <1>2, <1>5
  <2> QED
    BY <2>1, OneMore
<1>10. Named(path) = page.path
  <2>1. page.path = Named(Append(path, last)) /\ ~Stays(NoName)
    BY <1>2, <1>5, EmptyServed
  <2> QED
    BY <1>5, <2>1, NamedMore
<1>11. ~(Len(path) + 1 > MaxPathLen)
  BY <1>2, <1>5, PathAssumption
<1>12. ASSUME Tidy(at), NEW i \in 1 .. Len(path)
       PROVE  Stays(percent_decode_segment(path[i]))
  <2>1. PICK n \in Nat, m \in Nat : n = Len(front) /\ m = Len(path)
    OBVIOUS
  <2>2. PICK both \in Seq(Segments) :
          both = front \o path /\ Len(both) = n + m /\ both[n + i] = path[i]
    <3>1. /\ front \o path \in Seq(Segments) /\ Len(front \o path) = n + m
          /\ \A k \in 1 .. n + m :
                (front \o path)[k] = IF k <= n THEN front[k] ELSE path[k - n]
      BY <2>1, ConcatProperties
    <3>2. n + i \in 1 .. n + m /\ ~(n + i <= n) /\ n + i - n = i
      BY <2>1
    <3>3. (front \o path)[n + i] = path[i]
      BY <3>1, <3>2
    <3> QED
      BY <3>1, <3>3, Zenon
  <2>3. PICK whole : /\ whole = Append(both, last) /\ Len(whole) - 1 = n + m
                     /\ whole[n + i] = path[i]
    <3>1. PICK k \in 1 .. Len(both) : k = n + i
      BY <2>1, <2>2
    <3>2. Append(both, last)[k] = both[k] /\ Len(Append(both, last)) = Len(both) + 1
      BY BeforeAppended
    <3>3. Len(Append(both, last)) - 1 = n + m /\ Append(both, last)[n + i] = path[i]
      BY <2>2, <3>1, <3>2
    <3> QED
      BY <3>3, Zenon
  <2>4. whole = strip_query_and_fragment(at)
    BY <1>4, <1>5, <2>2, <2>3
  <2>5. n + i \in 1 .. Len(whole) - 1
    BY <2>1, <2>3
  <2>6. /\ percent_decode_segment(whole[n + i]) # NoName
        /\ Rule[percent_decode_segment(whole[n + i])] # "Dot"
    BY <1>12, <2>4, <2>5 DEF Tidy
  <2> QED
    BY <2>3, <2>6 DEF Stays
<1> QED
  BY <1>3, <1>5, <1>7, <1>8, <1>9, <1>10, <1>11, <1>12

\* What the link of an entry is written as reads as the entry.
LEMMA EncodedSegment ==
    ASSUME NEW name \in Names
    PROVE  /\ Encoded(name) \in Segments /\ ~Cut(Encoded(name))
           /\ percent_decode_segment(Encoded(name)) = name
<1>1. Encoded(name).name = name /\ Encoded(name).encoded = TRUE /\ Encoded(name) \in Segments
  BY DEF Encoded, Segments
<1> QED
  BY <1>1 DEF Cut, percent_decode_segment

\* The link of an entry.
LEMMA ChildLeads ==
    ASSUME Sound, Current, page.kind = "Listing",
           NEW front, Mounts(front, config.prefix), NEW path \in Seq(Segments),
           Base = front \o path, Whole(path), Allowed(path), Named(path) = page.path,
           NEW child \in Children(page.path)
    PROVE  IF Forbidden(child) THEN Answer(Link(child)).kind = "Status"
           ELSE Leads(Link(child), Append(page.path, child))
<1>1. /\ config # Down /\ Configured(config) /\ IsTree(tree) /\ page.path \in Seq(Names)
  BY FromDirectory
<1>2. PICK target : target = Append(page.path, child)
  OBVIOUS
<1>3. child \in FileNames /\ child \in Names /\ target \in tree.dirs \cup tree.files
  BY <1>2 DEF Children, FileNames
<1>4. Stays(child)
  <2>1. target \in Seq({name \in FileNames : Rule[name] # "Dot"})
    BY <1>1, <1>3 DEF IsTree
  <2>2. Len(target) \in 1 .. Len(target) /\ target[Len(target)] = child
    BY <1>1, <1>2, <1>3
  <2>3. child \in {name \in FileNames : Rule[name] # "Dot"}
    BY <2>1, <2>2
  <2> QED
    BY <2>3, Zenon DEF FileNames, Stays
<1>5. PICK last \in Segments :
        last = Encoded(child) /\ ~Cut(last) /\ percent_decode_segment(last) = child
  BY <1>3, EncodedSegment
<1>6. PICK slash \in Segments :
        slash = Empty /\ ~Cut(slash) /\ percent_decode_segment(slash) = NoName
  BY EmptySegment
<1>7. PICK file, dir : file = Append(path, last) /\ dir = Append(file, slash)
  OBVIOUS
<1>8. /\ file \in Seq(Segments) /\ file # <<>> /\ Whole(file)
      /\ Allowed(file) <=> ~Forbidden(child)
  <2>1. /\ file \in Seq(Segments) /\ file # <<>>
        /\ Whole(file) <=> Whole(path) /\ ~Cut(last)
        /\ Allowed(file) <=> Allowed(path) /\ ~Forbidden(percent_decode_segment(last))
    BY <1>7, OneMore, Zenon
  <2> QED
    BY <1>5, <2>1
<1>9. /\ dir \in Seq(Segments) /\ dir # <<>> /\ Whole(dir) /\ dir[Len(dir)] = slash
      /\ Allowed(dir) <=> ~Forbidden(child)
  <2>1. /\ dir \in Seq(Segments) /\ dir # <<>> /\ dir[Len(dir)] = slash
        /\ Whole(dir) <=> Whole(file) /\ ~Cut(slash)
        /\ Allowed(dir) <=> Allowed(file) /\ ~Forbidden(percent_decode_segment(slash))
    <3>1. PICK g \in Seq(Segments) : g = file
      BY <1>8
    <3>2. dir = Append(g, slash)
      BY <1>7, <3>1
    <3>3. /\ dir \in Seq(Segments) /\ dir # <<>> /\ dir[Len(dir)] = slash
          /\ Whole(dir) <=> Whole(g) /\ ~Cut(slash)
          /\ Allowed(dir) <=> Allowed(g) /\ ~Forbidden(percent_decode_segment(slash))
      BY <3>2, OneMore, Zenon
    <3> QED
      BY <3>1, <3>3
  <2> QED
    BY <1>6, <1>8, <2>1, EmptyServed
<1>10. Named(file) = target
  BY <1>2, <1>4, <1>5, <1>7, NamedMore
<1>11. Named(dir) = target
  <2>1. ~Stays(percent_decode_segment(slash))
    BY <1>6, EmptyServed
  <2> QED
    BY <1>7, <1>8, <1>10, <2>1, NamedMore
<1>12. Link(child) = front \o (IF target \in tree.dirs THEN dir ELSE file)
  <2>1. PICK f \in Seq(Segments) : f = front
    BY DEF Mounts
  <2>2. PICK base \in Seq(Segments) : base = f \o path
    BY ConcatProperties
  <2>3. /\ Append(base, last) = base \o <<last>> /\ Append(base, last) \in Seq(Segments)
    BY AppendIsConcat, AppendProperties
  <2>4. Append(base, last) = f \o file
    BY <1>7, <2>2, AppendBehind
  <2>5. Append(f \o file, slash) = f \o dir /\ f \o file \in Seq(Segments)
    BY <1>7, <1>8, <2>3, <2>4, AppendBehind
  <2>6. (f \o file) \o <<slash>> = f \o dir /\ (f \o file) \o <<>> = f \o file
    BY <2>5, AppendIsConcat, ConcatEmptySeq
  <2>7. Link(child) = (f \o file) \o (IF target \in tree.dirs THEN <<slash>> ELSE <<>>)
    BY <1>2, <1>5, <1>6, <2>1, <2>2, <2>3, <2>4 DEF Link, percent_encode_path_segment
  <2> QED
    BY <2>1, <2>6, <2>7
<1>13. CASE target \in tree.dirs
  <2>1. Forbidden(child) => Answer(front \o dir).kind = "Status"
    BY <1>1, <1>9, Refuses
  <2>2. ~Forbidden(child) => Leads(front \o dir, target)
    BY <1>1, <1>3, <1>6, <1>9, <1>11, Reaches
  <2> QED
    BY <1>2, <1>12, <1>13, <2>1, <2>2
<1>14. CASE target \notin tree.dirs
  <2>1. Forbidden(child) => Answer(front \o file).kind = "Status"
    BY <1>1, <1>8, Refuses
  <2>2. ~Forbidden(child) => Leads(front \o file, target)
    BY <1>1, <1>3, <1>8, <1>10, <1>14, Reaches
  <2> QED
    BY <1>2, <1>12, <1>14, <2>1, <2>2
<1> QED
  BY <1>13, <1>14

\* The link to the parent.
LEMMA ParentLeads ==
    ASSUME Sound, Current, page.kind = "Listing", page.up,
           NEW front, Mounts(front, config.prefix), NEW path \in Seq(Segments),
           Base = front \o path, Whole(path), Allowed(path), Named(path) = page.path,
           ~(Len(path) + 1 > MaxPathLen),
           \A i \in 1 .. Len(path) : Stays(percent_decode_segment(path[i]))
    PROVE  Shows(Answer(Parent), SubSeq(page.path, 1, Len(page.path) - 1))
<1>1. /\ config # Down /\ Configured(config) /\ IsTree(tree)
      /\ page.path \in tree.dirs /\ page.path \in Seq(Names) /\ page.path # <<>>
  BY FromDirectory
<1>2. path # <<>>
  <2>1. SUFFICES ASSUME path = <<>> PROVE FALSE
    OBVIOUS
  <2>2. \A i \in 1 .. Len(path) : percent_decode_segment(path[i]) = NoName
    BY <2>1
  <2>3. Named(path) = <<>>
    BY <2>2, NamedNone
  <2> QED
    BY <1>1, <2>3
<1>3. PICK q \in Seq(Segments), x \in Segments : path = Append(q, x)
  BY <1>2, SequenceEmptyOrAppend
<1>4. Whole(q) /\ Allowed(q) /\ Len(path) = Len(q) + 1 /\ x = path[Len(path)]
  BY <1>3, OneMore
<1>5. PICK name \in Names : name = percent_decode_segment(x)
  BY PathAssumption DEF percent_decode_segment, Segments
<1>6. Stays(name)
  <2>1. Len(path) \in 1 .. Len(path)
    BY <1>2
  <2> QED
    BY <1>4, <1>5, <2>1
<1>7. page.path = Append(Named(q), name) /\ Named(q) \in Seq(Names)
  BY <1>3, <1>5, <1>6, NamedMore
<1>8. PICK target \in Seq(Names) : target = Named(q)
  BY <1>7
<1>9. SubSeq(page.path, 1, Len(page.path) - 1) = target
  BY <1>7, <1>8, FrontOfAppend
<1>10. target \in tree.dirs
  BY <1>1, <1>9 DEF IsTree
<1>11. PICK slash \in Segments :
         slash = Empty /\ ~Cut(slash) /\ percent_decode_segment(slash) = NoName
  BY EmptySegment
<1>12. PICK dir : dir = Append(q, slash)
  OBVIOUS
<1>13. /\ dir \in Seq(Segments) /\ dir # <<>> /\ Whole(dir) /\ Allowed(dir)
       /\ dir[Len(dir)] = slash /\ Len(dir) = Len(path)
  <2>1. /\ dir \in Seq(Segments) /\ dir # <<>> /\ dir[Len(dir)] = slash
        /\ Len(dir) = Len(q) + 1
        /\ Whole(dir) <=> Whole(q) /\ ~Cut(slash)
        /\ Allowed(dir) <=> Allowed(q) /\ ~Forbidden(percent_decode_segment(slash))
    BY <1>12, OneMore, Zenon
  <2> QED
    BY <1>4, <1>11, <2>1, EmptyServed
<1>14. Named(dir) = target
  <2>1. ~Stays(percent_decode_segment(slash))
    BY <1>11, EmptyServed
  <2> QED
    BY <1>8, <1>12, <2>1, NamedMore
<1>15. Parent = front \o dir
  <2>1. PICK f \in Seq(Segments) : f = front
    BY DEF Mounts
  <2>2. PICK both \in Seq(Segments) : both = f \o q
    BY ConcatProperties
  <2>3. Base = Append(both, x)
    BY <1>3, <2>1, <2>2, AppendBehind
  <2>4. Base # <<>>
    BY <2>3, AppendProperties
  <2>5. SubSeq(Base, 1, Len(Base) - 1) = both
    BY <2>3, FrontOfAppend
  <2>6. Parent = Append(both, slash)
    BY <1>11, <2>4, <2>5 DEF Parent
  <2> QED
    BY <1>12, <2>1, <2>2, <2>6, AppendBehind
<1>16. ~(Len(dir) > MaxPathLen)
  BY <1>13, PathAssumption
<1>17. Shows(Answer(front \o dir), target)
  BY <1>1, <1>10, <1>11, <1>13, <1>14, <1>16, Reaches
<1> QED
  BY <1>9, <1>15, <1>17

-----------------------------------------------------------------------------
(* Theorems. *)

\* A configuration that config.rs accepts has values in their ranges, and a prefix
\* without a slash at its end, whatever the document and its slashes; redirects and
\* links are URLs, and a page shows names only.
THEOREM TypeCorrect == Spec => []TypeOK
<1>1. Sound => TypeOK
  <2> SUFFICES ASSUME Sound PROVE TypeOK
    OBVIOUS
  <2>1. page.path \in Seq(Names) /\ page.file \in Seq(Names)
    BY DEF Sound, Fine
  <2>2. config # Down =>
          /\ config.prefix \in Seq(Names)
          /\ config.prefix # <<>> => LastName(config.prefix) # NoName
          /\ config.directory \in {"index", "listing", "deny"}
          /\ config.chunk_size \in MinChunk .. MaxChunk
          /\ config.max_inflight_reads \in 1 .. 8
    BY Zenon DEF Sound, Configured
  <2> QED
    BY <2>1, <2>2 DEF Sound, TypeOK
<1> QED
  BY <1>1, AlwaysSound, PTL

\* However a path is written, path.rs and build_file_candidates let no file be opened
\* under a name that is never served, and no redirect, listing, link or cache gets at
\* one, but for an index file that the configuration names and the variant of the
\* root, whose name is the suffix alone.
THEOREM ForbiddenCorrect == Spec => []NothingForbidden
<1>1. Sound => NothingForbidden
  BY Zenon DEF Sound, NothingForbidden, Fine, IsIndex
<1> QED
  BY <1>1, AlwaysSound, PTL

\* The variant that encoding.rs and the order of the opens select is one that the
\* client accepts and wants most, also from a cache that only knows of Vary.
THEOREM NegotiatedCorrect == Spec => []NegotiatedWell
<1>1. Sound => NegotiatedWell
  <2> SUFFICES ASSUME Sound, page.kind = "File", page.encoding # "identity"
               PROVE  NegotiatedWell
    BY DEF NegotiatedWell
  <2>1. /\ AcceptsEncoding(header, page.encoding)
        /\ \A i \in 1 .. Len(config.precompressed) :
              VariantsOf(page.path, config.precompressed[i]) # {} =>
                  acceptance_for(header, config.precompressed[i])
                      <= acceptance_for(header, page.encoding)
        /\ page.type = TypeOf(LastName(page.path))
    BY Zenon DEF Sound, Fine
  <2>2. \A entry \in cache : entry.page.type = TypeOf(LastName(entry.page.path))
    BY Zenon DEF Sound, Fine
  <2> QED
    BY <2>1, <2>2 DEF NegotiatedWell
<1> QED
  BY <1>1, AlwaysSound, PTL

\* The Location that url_for makes leads back to the directory it was made for,
\* through the mount prefix, decoding and the checks of the path, unless it begins
\* with two slashes: for the root without a prefix, or under a prefix that does; and
\* unless a name or the prefix is changed by being written as it stands.
THEOREM RedirectsCorrect == Spec => []RedirectsLand
<1>1. Sound /\ Current => RedirectsLand
  BY RedirectLeads, Zenon DEF RedirectsLand
<1> QED
  BY <1>1, AlwaysSound, AlwaysCurrent, PTL

\* The links that render_listing writes lead, resolved by a browser, to the entries
\* and to the parent of the directory that is listed, under any prefix that a browser
\* sends as it is; and a directory there stays without an answer only if one of its
\* index names is a directory.
THEOREM LinksCorrect == Spec => []LinksLead
<1>1. Sound /\ Current => LinksLead
  <2> SUFFICES ASSUME Sound, Current, page.kind = "Listing", EndsInSlash(at),
                      SentAsItIs(config.prefix)
               PROVE  /\ \A child \in Children(page.path) :
                            IF Forbidden(child) THEN Answer(Link(child)).kind = "Status"
                            ELSE Leads(Link(child), Append(page.path, child))
                      /\ (page.up /\ Tidy(at)) =>
                            Shows(Answer(Parent), SubSeq(page.path, 1, Len(page.path) - 1))
    BY Zenon DEF LinksLead
  <2>1. PICK front, path \in Seq(Segments) :
          /\ Mounts(front, config.prefix) /\ Base = front \o path
          /\ Whole(path) /\ Allowed(path) /\ Named(path) = page.path
          /\ ~(Len(path) + 1 > MaxPathLen)
          /\ Tidy(at) => \A i \in 1 .. Len(path) : Stays(percent_decode_segment(path[i]))
    BY ListingBase DEF SentAsItIs
  <2>2. ASSUME NEW child \in Children(page.path)
        PROVE  IF Forbidden(child) THEN Answer(Link(child)).kind = "Status"
               ELSE Leads(Link(child), Append(page.path, child))
    BY <2>1, ChildLeads, Zenon
  <2>3. ASSUME page.up, Tidy(at)
        PROVE  Shows(Answer(Parent), SubSeq(page.path, 1, Len(page.path) - 1))
    BY <2>1, <2>3, ParentLeads, Zenon
  <2> QED
    BY <2>2, <2>3, Zenon
<1> QED
  BY <1>1, AlwaysSound, AlwaysCurrent, PTL
=============================================================================
