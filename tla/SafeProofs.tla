----------------------------- MODULE SafeProofs -----------------------------
(***************************************************************************)
(* Proofs about parts that SafeParts composes: who is in which voice       *)
(* channel (VoiceStates), when an entry of a TTLCache goes (TTLCache),     *)
(* which waits an event reaches (Waits), what a guild has when it says it  *)
(* is chunked (GuildChunks), that a cached message keeps in step with the  *)
(* server (Messages), and that GlobalCache does once everything that is on *)
(* its way has arrived (GuildCache, by the proof of GuildCacheProofs).     *)
(***************************************************************************)
EXTENDS SafeParts, Integers, FiniteSetTheorems, SequenceTheorems,
        FunctionTheorems, WellFoundedInduction, TLAPS

-----------------------------------------------------------------------------
(***************************************************************************)
(* Sequences: an entry is taken out, or put at the end.                    *)
(***************************************************************************)
Cut(s, f) == SubSeq(s, 1, f - 1) \o SubSeq(s, f + 1, Len(s))
Absent(u, seq) == \A i \in DOMAIN seq : seq[i] # u
Among(seq) == {seq[i] : i \in DOMAIN seq}
Distinct(s) == \A i, j \in DOMAIN s : s[i] = s[j] => i = j
Rising(s, l) == \A i, j \in DOMAIN s : i < j => l[s[i]] <= l[s[j]]
Once(u, seq) == \E k \in DOMAIN seq : \A i \in DOMAIN seq : seq[i] = u <=> i = k

\* A sequence without its f-th entry.
LEMMA Removed ==
    ASSUME NEW S, NEW s \in Seq(S), NEW f \in 1 .. Len(s)
    PROVE  /\ Cut(s, f) \in Seq(S) /\ Len(Cut(s, f)) = Len(s) - 1
           /\ \A i \in 1 .. Len(s) - 1 : Cut(s, f)[i] = IF i < f THEN s[i] ELSE s[i + 1]
<1>1. Len(s) \in Nat /\ \A i \in 1 .. Len(s) : s[i] \in S
  BY LenProperties, ElementOfSeq
<1> DEFINE a == SubSeq(s, 1, f - 1)
           b == SubSeq(s, f + 1, Len(s))
<1>2. a \in Seq(S) /\ Len(a) = f - 1 /\ \A i \in 1 .. f - 1 : a[i] = s[i]
  <2>1. \A i \in 1 .. f - 1 : s[i] \in S
    BY <1>1
  <2> QED
    BY <1>1, <2>1, SubSeqProperties
<1>3. b \in Seq(S) /\ Len(b) = Len(s) - f /\ \A i \in 1 .. Len(s) - f : b[i] = s[f + i]
  <2>1. \A i \in f + 1 .. Len(s) : s[i] \in S
    BY <1>1
  <2> QED
    BY <1>1, <2>1, SubSeqProperties
<1>4. Cut(s, f) = a \o b
  BY DEF Cut
<1> HIDE DEF a, b
<1>5. /\ a \o b \in Seq(S) /\ Len(a \o b) = Len(a) + Len(b)
      /\ \A i \in 1 .. Len(a) + Len(b) : (a \o b)[i] = IF i <= Len(a) THEN a[i] ELSE b[i - Len(a)]
  BY <1>2, <1>3, ConcatProperties
<1>6. ASSUME NEW i \in 1 .. Len(s) - 1
      PROVE  Cut(s, f)[i] = IF i < f THEN s[i] ELSE s[i + 1]
  <2>1. i \in 1 .. Len(a) + Len(b)
    BY <1>1, <1>2, <1>3
  <2>2. Cut(s, f)[i] = IF i <= Len(a) THEN a[i] ELSE b[i - Len(a)]
    BY <1>4, <1>5, <2>1
  <2>3. CASE i < f
    BY <1>1, <1>2, <2>2, <2>3
  <2>4. CASE ~(i < f)
    <3>1. i - Len(a) \in 1 .. Len(s) - f /\ f + (i - Len(a)) = i + 1 /\ ~(i <= Len(a))
      BY <1>1, <1>2, <2>4
    <3> QED
      BY <1>3, <2>2, <2>4, <3>1
  <2> QED
    BY <2>3, <2>4
<1> QED
  BY <1>1, <1>2, <1>3, <1>4, <1>5, <1>6

\* Another entry that is there once, or not at all, stays so.
LEMMA TakenOnce ==
    ASSUME NEW S, NEW s \in Seq(S), NEW f \in 1 .. Len(s), NEW v, s[f] # v
    PROVE  (Once(v, s) => Once(v, Cut(s, f))) /\ (Absent(v, s) => Absent(v, Cut(s, f)))
<1> DEFINE r == Cut(s, f)
<1>1. /\ r \in Seq(S) /\ Len(r) = Len(s) - 1 /\ Len(s) \in Nat
      /\ \A i \in 1 .. Len(s) - 1 : r[i] = IF i < f THEN s[i] ELSE s[i + 1]
  BY Removed, LenProperties
<1>2. DOMAIN s = 1 .. Len(s) /\ DOMAIN r = 1 .. Len(s) - 1
  BY <1>1, LenProperties
<1> HIDE DEF r
<1>3. Absent(v, s) => Absent(v, r)
  BY <1>1, <1>2 DEF Absent
<1>4. ASSUME Once(v, s)
      PROVE  Once(v, r)
  <2>1. PICK k \in DOMAIN s : \A i \in DOMAIN s : s[i] = v <=> i = k
    BY <1>4 DEF Once
  <2>2. k # f
    BY <1>2, <2>1
  <2>3. PICK l \in Nat : l = IF k < f THEN k ELSE k - 1
    BY <1>2, <2>1
  <2>4. l \in DOMAIN r
    BY <1>1, <1>2, <2>1, <2>2, <2>3
  <2>5. ASSUME NEW i \in DOMAIN r
        PROVE  r[i] = v <=> i = l
    <3>1. CASE i < f
      BY <1>1, <1>2, <2>1, <2>2, <2>3, <2>5, <3>1
    <3>2. CASE ~(i < f)
      <4>1. i + 1 \in DOMAIN s /\ r[i] = s[i + 1]
        BY <1>1, <1>2, <2>5, <3>2
      <4> QED
        BY <1>1, <1>2, <2>1, <2>2, <2>3, <2>5, <3>2, <4>1
    <3> QED
      BY <3>1, <3>2
  <2> QED
    BY <2>4, <2>5 DEF Once
<1> QED
  BY <1>3, <1>4 DEF r

\* The end of a sequence.
LEMMA Suffix ==
    ASSUME NEW S, NEW o \in Seq(S), NEW n \in 1 .. Len(o) + 1
    PROVE  /\ SubSeq(o, n, Len(o)) \in Seq(S)
           /\ Len(SubSeq(o, n, Len(o))) = Len(o) - n + 1
           /\ \A i \in 1 .. Len(o) - n + 1 : SubSeq(o, n, Len(o))[i] = o[n + i - 1]
<1>1. Len(o) \in Nat /\ (~(n <= Len(o)) => Len(o) - n + 1 = 0)
  BY LenProperties
<1>2. \A i \in n .. Len(o) : o[i] \in S
  BY <1>1, ElementOfSeq
<1> QED
  BY <1>1, <1>2, SubSeqProperties

\* What remains is distinct and in its order.
LEMMA CutKeeps ==
    ASSUME NEW S, NEW s \in Seq(S), NEW f \in 1 .. Len(s), NEW l \in [S -> Nat]
    PROVE  /\ Distinct(s) => Distinct(Cut(s, f)) /\ Among(Cut(s, f)) = Among(s) \ {s[f]}
           /\ Rising(s, l) => Rising(Cut(s, f), l)
<1> DEFINE r == Cut(s, f)
<1>1. /\ r \in Seq(S) /\ Len(r) = Len(s) - 1 /\ Len(s) \in Nat
      /\ \A i \in 1 .. Len(s) - 1 : r[i] = IF i < f THEN s[i] ELSE s[i + 1]
  BY Removed, LenProperties
<1>2. DOMAIN s = 1 .. Len(s) /\ DOMAIN r = 1 .. Len(s) - 1
  BY <1>1, LenProperties
<1> HIDE DEF r
<1> DEFINE at(i) == IF i < f THEN i ELSE i + 1
<1>3. ASSUME NEW i \in DOMAIN r
      PROVE  at(i) \in DOMAIN s /\ at(i) # f /\ r[i] = s[at(i)]
  BY SMTT(60), <1>1, <1>2
<1>4. ASSUME NEW i \in DOMAIN r, NEW j \in DOMAIN r, i < j
      PROVE  at(i) < at(j)
  <2>a. Len(s) \in Nat
    BY <1>1
  <2>1. i \in Nat /\ j \in Nat /\ f \in Nat
    BY SMTT(60), <1>2, <2>a
  <2> QED
    BY <1>4, <2>1
<1>5. ASSUME NEW j \in DOMAIN s, j # f
      PROVE  \E i \in DOMAIN r : at(i) = j
  <2>1. CASE j < f
    BY <1>1, <1>2, <1>5, <2>1
  <2>2. CASE ~(j < f)
    <3>1. j \in Int /\ f \in Int /\ f < j /\ j <= Len(s) /\ 1 <= f
      BY <1>1, <1>2, <1>5, <2>2
    <3>2. j - 1 \in DOMAIN r
      BY <1>1, <1>2, <3>1
    <3>3. at(j - 1) = j
      BY <3>1
    <3> QED
      BY <3>2, <3>3
  <2> QED
    BY <2>1, <2>2
<1>6. DOMAIN r \subseteq Int /\ DOMAIN s \subseteq Int /\ f \in DOMAIN s
  BY <1>1, <1>2
<1> HIDE DEF at
<1>7. Distinct(s) => Distinct(r)
  <2> SUFFICES ASSUME Distinct(s), NEW i \in DOMAIN r, NEW j \in DOMAIN r, r[i] = r[j], i < j
               PROVE  FALSE
    BY <1>6 DEF Distinct
  <2>1. at(i) = at(j)
    BY <1>3 DEF Distinct
  <2>2. at(i) < at(j) /\ at(i) \in Int
    BY <1>3, <1>4, <1>6
  <2> QED
    BY <2>1, <2>2
<1>8. Rising(s, l) => Rising(r, l)
  <2> SUFFICES ASSUME Rising(s, l), NEW i \in DOMAIN r, NEW j \in DOMAIN r, i < j
               PROVE  l[r[i]] <= l[r[j]]
    BY DEF Rising
  <2>1. at(i) < at(j) /\ at(i) \in DOMAIN s /\ at(j) \in DOMAIN s
    BY <1>3, <1>4
  <2>2. l[s[at(i)]] <= l[s[at(j)]]
    BY <2>1 DEF Rising
  <2> QED
    BY <1>3, <2>2
<1>9. ASSUME Distinct(s)
      PROVE  Among(r) = Among(s) \ {s[f]}
  <2>1. ASSUME NEW i \in DOMAIN r
        PROVE  r[i] \in Among(s) \ {s[f]}
    <3>1. s[at(i)] # s[f]
      BY <1>3, <1>6, <1>9 DEF Distinct
    <3> QED
      BY <1>3, <3>1 DEF Among
  <2>2. ASSUME NEW j \in DOMAIN s, s[j] # s[f]
        PROVE  s[j] \in Among(r)
    <3>1. PICK i \in DOMAIN r : at(i) = j
      BY <1>5, <2>2
    <3> QED
      BY <1>3, <3>1 DEF Among
  <2> QED
    BY <2>1, <2>2 DEF Among
<1> QED
  BY <1>7, <1>8, <1>9 DEF r

\* An entry that is put at the end is there once, and nothing changes for the others.
LEMMA PutAtEnd ==
    ASSUME NEW S, NEW s \in Seq(S), NEW u \in S
    PROVE  /\ Append(s, u) \in Seq(S)
           /\ Absent(u, s) => Once(u, Append(s, u))
           /\ \A v : v # u => /\ Once(v, s) => Once(v, Append(s, u))
                              /\ Absent(v, s) => Absent(v, Append(s, u))
<1>1. /\ Append(s, u) \in Seq(S) /\ Len(s) \in Nat /\ DOMAIN s = 1 .. Len(s)
      /\ DOMAIN Append(s, u) = 1 .. Len(s) + 1
      /\ \A i \in 1 .. Len(s) + 1 : Append(s, u)[i] = IF i = Len(s) + 1 THEN u ELSE s[i]
  OBVIOUS
<1>2. Absent(u, s) => Once(u, Append(s, u))
  BY <1>1 DEF Absent, Once
<1>3. ASSUME NEW v, v # u
      PROVE  /\ Once(v, s) => Once(v, Append(s, u))
             /\ Absent(v, s) => Absent(v, Append(s, u))
  BY <1>1, <1>3 DEF Absent, Once
<1> QED
  BY <1>1, <1>2, <1>3

\* A set of numbers has a least one.
LEMMA LeastExists ==
    ASSUME NEW S \in SUBSET Nat, S # {}
    PROVE  \E n \in S : \A i \in S : n <= i
<1>1. PICK n \in S : \A k \in S : ~(<<k, n>> \in OpToRel(<, Nat))
  BY NatLessThanWellFounded, WFMin
<1>2. ASSUME NEW k \in Nat, NEW l \in Nat, k < l
      PROVE  <<k, l>> \in OpToRel(<, Nat)
  BY <1>2, Zenon DEF OpToRel
<1>3. \A k \in S : ~(k < n)
  BY <1>1, <1>2
<1> QED
  BY <1>3

\* f lists the numbers of S from the lowest to the highest.
Lists(f, S) ==
    /\ f \in [1 .. Cardinality(S) -> S]
    /\ \A i, j \in 1 .. Cardinality(S) : i < j => f[i] < f[j]

\* A set of places is finite.
LEMMA PlacesFinite ==
    ASSUME NEW m \in Nat, NEW S \in SUBSET (1 .. m)
    PROVE  IsFiniteSet(S) /\ Cardinality(S) \in Nat
<1>1. IsFiniteSet(1 .. m)
  <2>1. 1 \in Int /\ m \in Int
    OBVIOUS
  <2> QED
    BY <2>1, FS_Interval
<1>2. IsFiniteSet(S)
  BY <1>1, FS_Subset
<1> QED
  BY <1>2, FS_CardinalityType

\* A set of places can be listed so: its least one first.
LEMMA ListExists ==
    ASSUME NEW m \in Nat, NEW S \in SUBSET (1 .. m)
    PROVE  \E f : Lists(f, S)
<1>1. \A T \in SUBSET (1 .. m) : IsFiniteSet(T) /\ Cardinality(T) \in Nat
  BY PlacesFinite
<1> DEFINE Bad == {n \in Nat : \E T \in SUBSET (1 .. m) : Cardinality(T) = n /\ ~\E f : Lists(f, T)}
<1>2. SUFFICES ASSUME Bad # {}
               PROVE  FALSE
  BY <1>1
<1>3. PICK n \in Bad : \A k \in Bad : n <= k
  <2>1. Bad \in SUBSET Nat
    OBVIOUS
  <2> HIDE DEF Bad
  <2> QED
    BY <1>2, <2>1, LeastExists
<1>4. PICK T \in SUBSET (1 .. m) : Cardinality(T) = n /\ ~\E f : Lists(f, T)
  OBVIOUS
<1>5. CASE T = {}
  <2>1. n = 0
    BY <1>4, <1>5, FS_EmptySet
  <2>2. Lists(<<>>, T)
    BY <1>4, <1>5, <2>1 DEF Lists
  <2> QED
    BY <1>4, <2>2
<1>6. CASE T # {}
  <2>1. PICK l \in T : \A i \in T : l <= i
    <3>1. T \in SUBSET Nat
      OBVIOUS
    <3> QED
      BY <1>6, <3>1, LeastExists
  <2>2. /\ T \ {l} \in SUBSET (1 .. m) /\ Cardinality(T \ {l}) = n - 1
        /\ n \in Nat /\ n - 1 \in Nat
    BY <1>1, <1>4, FS_RemoveElement
  <2>3. n - 1 \notin Bad
    <3>1. ~(n <= n - 1)
      BY <2>2
    <3> HIDE DEF Bad
    <3> QED
      BY <1>3, <3>1
  <2>4. PICK g : Lists(g, T \ {l})
    BY <2>2, <2>3
  <2>5. /\ g \in [1 .. n - 1 -> T \ {l}]
        /\ \A i, j \in 1 .. n - 1 : i < j => g[i] < g[j]
    BY <2>2, <2>4 DEF Lists
  <2> DEFINE f == [i \in 1 .. n |-> IF i = 1 THEN l ELSE g[i - 1]]
  <2>6. \A i \in 1 .. n : i # 1 => i - 1 \in 1 .. n - 1
    BY <2>2
  <2>7. f \in [1 .. n -> T]
    BY <2>1, <2>5, <2>6
  <2>8. ASSUME NEW i \in 1 .. n, NEW j \in 1 .. n, i < j
        PROVE  f[i] < f[j]
    <3>1. j # 1 /\ j - 1 \in 1 .. n - 1
      BY <2>2, <2>8
    <3>2. CASE i = 1
      <4>1. g[j - 1] \in T /\ g[j - 1] # l
        BY <2>5, <3>1
      <4>2. l \in Nat /\ g[j - 1] \in Nat /\ l <= g[j - 1]
        <5>1. \A v \in T : v \in Nat
          OBVIOUS
        <5> QED
          BY <2>1, <4>1, <5>1
      <4> QED
        BY <3>1, <3>2, <4>1, <4>2
    <3>3. CASE i # 1
      <4>1. i - 1 \in 1 .. n - 1 /\ i - 1 < j - 1
        BY <2>2, <2>8, <3>3
      <4> QED
        BY <2>5, <3>1, <3>3, <4>1
    <3> QED
      BY <3>2, <3>3
  <2>9. Lists(f, T)
    BY <1>4, <2>7, <2>8 DEF Lists
  <2> QED
    BY <1>4, <2>9
<1> QED
  BY <1>5, <1>6

\* It lists all of them, each once.
LEMMA ListIsWhole ==
    ASSUME NEW m \in Nat, NEW S \in SUBSET (1 .. m), NEW f, Lists(f, S)
    PROVE  /\ Cardinality(S) \in Nat /\ f \in [1 .. Cardinality(S) -> S]
           /\ \A i, j \in 1 .. Cardinality(S) : f[i] = f[j] => i = j
           /\ \A v \in S : \E i \in 1 .. Cardinality(S) : f[i] = v
<1>1. IsFiniteSet(S) /\ Cardinality(S) \in Nat
  BY PlacesFinite
<1>2. f \in [1 .. Cardinality(S) -> S] /\ \A i, j \in 1 .. Cardinality(S) : f[i] = f[j] => i = j
  <2>1. \A i, j \in 1 .. Cardinality(S) : i < j => f[i] # f[j]
    <3>1. ASSUME NEW i \in 1 .. Cardinality(S), NEW j \in 1 .. Cardinality(S), i < j
          PROVE  f[i] # f[j]
      <4>1. f[i] \in S /\ f[j] \in S /\ f[i] < f[j]
        BY <3>1 DEF Lists
      <4>2. \A v \in S : v \in Nat
        OBVIOUS
      <4>3. f[i] \in Nat /\ f[j] \in Nat
        BY <4>1, <4>2
      <4> QED
        BY <4>1, <4>3
    <3> QED
      BY <3>1
  <2> QED
    BY <1>1, <2>1 DEF Lists
<1>3. f \in Injection(1 .. Cardinality(S), S)
  BY <1>2, Zenon DEF Injection, IsInjective
<1>4. Cardinality(1 .. Cardinality(S)) = Cardinality(S)
  BY <1>1, FS_Interval
<1>5. f \in Surjection(1 .. Cardinality(S), S)
  BY <1>1, <1>3, <1>4, FS_Injection
<1> QED
  BY <1>1, <1>2, <1>5, Zenon DEF Surjection

-----------------------------------------------------------------------------
(***************************************************************************)
(* Voice states                                                            *)
(***************************************************************************)
Everyone == Vs!Everyone
Fetches(u) == \E f \in fetching : f.user = u
Coming(u) == \E i \in DOMAIN vsEvents : vsEvents[i].user = u

\* A user whose updates did not overlap: at most one of them waits for its channel, and until
\* it has it the user is listed nowhere; otherwise in the channel of its state, which is cached.
Settled(u) ==
    /\ \A e, f \in fetching : e.user = u /\ f.user = u => e = f
    /\ states[u] # None => states[u] \in channels
    /\ \A c \in channels :
        IF ~Fetches(u) /\ c = states[u] THEN Once(u, inside[c]) ELSE Absent(u, inside[c])

\* The last of the user's updates, wherever it is by now, tells where the server has the user.
LastTells(u) ==
    \A i \in DOMAIN vsEvents :
        vsEvents[i].user = u /\ (\A j \in i + 1 .. Len(vsEvents) : vsEvents[j].user # u)
            => vsEvents[i].channel = voice[u]
Heading(u) ==
    /\ LastTells(u)
    /\ ~Coming(u) => \A f \in fetching : f.user = u => f.channel = voice[u]
    /\ ~Coming(u) /\ ~Fetches(u) => states[u] = voice[u]

VoiceInv == Vs!TypeOK /\ \A u \in VoiceUsers \ muddled : Settled(u) /\ Heading(u)

\* A step of the composition is one of VoiceStates, or changes nothing of it.
LEMMA VoiceStep == [Next]_vars => [Vs!Next]_vsVars
BY DEF Next, vars, vsVars

\* Leaving a channel: nobody else is touched, and whoever was listed once is not listed any more.
LEMMA LeftOut ==
    ASSUME NEW s \in Seq(Everyone), NEW u \in Everyone
    PROVE  /\ Vs!Without(s, u) \in Seq(Everyone)
           /\ \A v : v # u => /\ Once(v, s) => Once(v, Vs!Without(s, u))
                              /\ Absent(v, s) => Absent(v, Vs!Without(s, u))
           /\ Once(u, s) \/ Absent(u, s) => Absent(u, Vs!Without(s, u))
<1> DEFINE ahead == {i \in DOMAIN s : s[i] = u /\ \A j \in 1 .. (i - 1) : s[j] # u}
<1>1. DOMAIN s = 1 .. Len(s) /\ Len(s) \in Nat
  BY LenProperties
<1>2. CASE ahead = {}
  <2>1. Vs!Without(s, u) = s
    BY <1>2 DEF Vs!Without
  <2>2. ~Once(u, s)
    <3>1. ASSUME NEW k \in DOMAIN s, \A i \in DOMAIN s : s[i] = u <=> i = k
          PROVE  FALSE
      <4>1. \A j \in 1 .. (k - 1) : j \in DOMAIN s /\ j # k
        BY <1>1
      <4>2. k \in ahead
        BY <3>1, <4>1
      <4> QED
        BY <1>2, <4>2
    <3> QED
      BY <3>1 DEF Once
  <2> QED
    BY <2>1, <2>2
<1>3. CASE ahead # {}
  <2>1. PICK f \in DOMAIN s : f \in ahead /\ Vs!Without(s, u) = Cut(s, f)
    <3> DEFINE f == CHOOSE i \in ahead : TRUE
    <3>1. f \in ahead
      BY <1>3
    <3>2. Vs!Without(s, u) = Cut(s, f)
      BY <1>3 DEF Vs!Without, Cut
    <3> QED
      BY <3>1, <3>2
  <2>2. f \in 1 .. Len(s) /\ s[f] = u
    BY <1>1, <2>1
  <2>3. /\ Cut(s, f) \in Seq(Everyone) /\ Len(Cut(s, f)) = Len(s) - 1
        /\ \A i \in 1 .. Len(s) - 1 : Cut(s, f)[i] = IF i < f THEN s[i] ELSE s[i + 1]
    BY <2>2, Removed
  <2>4. \A v : v # u => /\ Once(v, s) => Once(v, Cut(s, f))
                        /\ Absent(v, s) => Absent(v, Cut(s, f))
    BY <2>2, TakenOnce
  <2>5. ASSUME Once(u, s)
        PROVE  Absent(u, Cut(s, f))
    <3>1. PICK k \in DOMAIN s : \A i \in DOMAIN s : s[i] = u <=> i = k
      BY <2>5 DEF Once
    <3>2. k = f
      BY <1>1, <2>2, <3>1
    <3>3. DOMAIN Cut(s, f) = 1 .. Len(s) - 1
      BY <2>3, LenProperties
    <3>4. ASSUME NEW i \in 1 .. Len(s) - 1
          PROVE  Cut(s, f)[i] # u
      BY <1>1, <2>2, <2>3, <3>1, <3>2, <3>4
    <3> QED
      BY <3>3, <3>4 DEF Absent
  <2>6. ~Absent(u, s)
    BY <1>1, <2>2 DEF Absent
  <2> QED
    BY <2>1, <2>3, <2>4, <2>5, <2>6
<1> QED
  BY <1>2, <1>3

\* A user that is taken out of every channel is in none, and the others stay where they are.
LEMMA TakenFromAll ==
    ASSUME VoiceInv, NEW u \in Everyone
    PROVE  /\ Vs!TakenOut(u) \in [VoiceChannels -> Seq(Everyone)]
           /\ \A c \in VoiceChannels \ channels : Vs!TakenOut(u)[c] = inside[c]
           /\ \A c \in channels :
                /\ \A v : v # u => /\ Once(v, inside[c]) => Once(v, Vs!TakenOut(u)[c])
                                   /\ Absent(v, inside[c]) => Absent(v, Vs!TakenOut(u)[c])
                /\ u \in VoiceUsers \ muddled => Absent(u, Vs!TakenOut(u)[c])
<1>1. inside \in [VoiceChannels -> Seq(Everyone)] /\ channels \subseteq VoiceChannels
  BY DEF VoiceInv, Vs!TypeOK, Everyone
<1>2. u \in VoiceUsers \ muddled => \A c \in channels :
        Absent(u, inside[c]) \/ (c = states[u] /\ Once(u, inside[c]))
  BY DEF VoiceInv, Settled
<1>3. CASE states[u] \notin channels
  <2>1. Vs!TakenOut(u) = inside
    BY <1>3 DEF Vs!TakenOut
  <2> QED
    BY <1>1, <1>2, <1>3, <2>1
<1>4. CASE states[u] \in channels
  <2>1. Vs!TakenOut(u) = [inside EXCEPT ![states[u]] = Vs!Without(inside[states[u]], u)]
    BY <1>4 DEF Vs!TakenOut
  <2>2. inside[states[u]] \in Seq(Everyone)
    BY <1>1, <1>4
  <2> QED
    BY ZenonT(60), <1>1, <1>2, <1>4, <2>1, <2>2, LeftOut
<1> QED
  BY <1>3, <1>4

\* The server moves a user: the update is the last one of that user.
LEMMA MoveKept ==
    ASSUME VoiceInv, NEW u \in Everyone, NEW c \in VoiceChannels \cup {None}, Vs!Move(u, c)
    PROVE  VoiceInv'
<1> DEFINE e == [user |-> u, channel |-> c, number |-> moves']
<1>1. /\ moves \in 0 .. MaxMoves /\ MaxMoves \in Nat /\ moves < MaxMoves /\ moves' = moves + 1
      /\ voice' = [voice EXCEPT ![u] = c] /\ vsEvents' = Append(vsEvents, e)
      /\ UNCHANGED <<fetching, channels, inside, states, muddled>>
  BY VoiceConstants DEF Vs!Move, VoiceInv, Vs!TypeOK, Vs!BoundsAssumption
<1>2. e \in Vs!Updates(VoiceChannels \cup {None})
  BY <1>1 DEF Vs!Updates, Everyone
<1>3. vsEvents \in Seq(Vs!Updates(VoiceChannels \cup {None})) /\ voice \in [Everyone -> VoiceChannels \cup {None}]
  BY DEF VoiceInv, Vs!TypeOK, Everyone
<1>4. /\ Len(vsEvents) \in Nat /\ DOMAIN vsEvents = 1 .. Len(vsEvents)
      /\ Len(vsEvents') = Len(vsEvents) + 1 /\ DOMAIN vsEvents' = 1 .. Len(vsEvents) + 1
      /\ \A i \in 1 .. Len(vsEvents) + 1 : vsEvents'[i] = IF i = Len(vsEvents) + 1 THEN e ELSE vsEvents[i]
      /\ vsEvents' \in Seq(Vs!Updates(VoiceChannels \cup {None}))
  <2>1. ASSUME NEW S, NEW s \in Seq(S), NEW x \in S
        PROVE  /\ Len(s) \in Nat /\ DOMAIN s = 1 .. Len(s) /\ Len(Append(s, x)) = Len(s) + 1
               /\ DOMAIN Append(s, x) = 1 .. Len(s) + 1 /\ Append(s, x) \in Seq(S)
               /\ \A i \in 1 .. Len(s) + 1 : Append(s, x)[i] = IF i = Len(s) + 1 THEN x ELSE s[i]
    OBVIOUS
  <2> HIDE DEF e
  <2> QED
    BY <1>1, <1>2, <1>3, <2>1
<1>5. e.user = u /\ e.channel = c
  OBVIOUS
<1> HIDE DEF e
<1>6. Vs!TypeOK'
  BY <1>1, <1>3, <1>4 DEF VoiceInv, Vs!TypeOK, Everyone, Vs!Updates, Vs!Everyone
<1>7. ASSUME NEW w \in VoiceUsers \ muddled
      PROVE  Settled(w)' /\ Heading(w)'
  <2>1. Settled(w) /\ Heading(w) /\ w \in Everyone
    BY DEF VoiceInv, Everyone, Vs!Everyone
  <2>2. Settled(w)'
    BY <1>1, <2>1 DEF Settled, Fetches
  <2>3. CASE w = u
    <3>1. Coming(w)'
      BY <1>4, <1>5, <2>3 DEF Coming
    <3>2. ASSUME NEW i \in 1 .. Len(vsEvents'), \A j \in i + 1 .. Len(vsEvents') : vsEvents'[j].user # w
          PROVE  vsEvents'[i].channel = voice'[w]
      <4>1. i = Len(vsEvents) + 1
        BY <1>4, <1>5, <2>3, <3>2
      <4> QED
        BY <1>1, <1>3, <1>4, <1>5, <2>1, <2>3, <4>1
    <3> QED
      BY <1>4, <2>2, <3>1, <3>2 DEF Heading, LastTells
  <2>4. CASE w # u
    <3>1. Coming(w)' <=> Coming(w)
      BY <1>4, <1>5, <2>4 DEF Coming
    <3>2. voice'[w] = voice[w] /\ (Fetches(w)' <=> Fetches(w)) /\ UNCHANGED <<fetching, states>>
      BY <1>1, <1>3, <2>1, <2>4 DEF Fetches
    <3>3. ASSUME NEW i \in 1 .. Len(vsEvents'), vsEvents'[i].user = w,
                 \A j \in i + 1 .. Len(vsEvents') : vsEvents'[j].user # w
          PROVE  vsEvents'[i].channel = voice'[w]
      <4>1. i \in DOMAIN vsEvents /\ vsEvents'[i] = vsEvents[i]
        BY <1>4, <1>5, <2>4, <3>3
      <4>2. \A j \in i + 1 .. Len(vsEvents) : vsEvents[j].user # w
        BY <1>4, <3>3
      <4> QED
        BY <2>1, <3>2, <3>3, <4>1, <4>2 DEF Heading, LastTells
    <3> QED
      BY <1>4, <2>1, <2>2, <3>1, <3>2, <3>3 DEF Heading, LastTells
  <2> QED
    BY <2>2, <2>3, <2>4
<1> QED
  BY <1>1, <1>6, <1>7 DEF VoiceInv

\* The first update is taken: it was the user's last one, or another one still tells.
LEMMA UpdateTaken ==
    ASSUME VoiceInv, vsEvents # <<>>, vsEvents' = Tail(vsEvents), voice' = voice,
           NEW e, e = Head(vsEvents)
    PROVE  /\ e \in Vs!Updates(VoiceChannels \cup {None})
           /\ vsEvents' \in Seq(Vs!Updates(VoiceChannels \cup {None}))
           /\ \A w \in VoiceUsers \ muddled :
                /\ LastTells(w)'
                /\ w # e.user => (Coming(w)' <=> Coming(w))
                /\ w = e.user /\ ~Coming(w)' => e.channel = voice[w]
<1>1. vsEvents \in Seq(Vs!Updates(VoiceChannels \cup {None}))
  BY DEF VoiceInv, Vs!TypeOK
<1>2. /\ Len(vsEvents) \in Nat /\ DOMAIN vsEvents = 1 .. Len(vsEvents)
      /\ Len(vsEvents') = Len(vsEvents) - 1 /\ DOMAIN vsEvents' = 1 .. Len(vsEvents) - 1
      /\ \A i \in 1 .. Len(vsEvents) - 1 : vsEvents'[i] = vsEvents[i + 1]
      /\ e \in Vs!Updates(VoiceChannels \cup {None}) /\ e = vsEvents[1] /\ Len(vsEvents) # 0
      /\ vsEvents' \in Seq(Vs!Updates(VoiceChannels \cup {None}))
  BY <1>1, HeadTailProperties, LenProperties
<1>3. ASSUME NEW w \in VoiceUsers \ muddled
      PROVE  /\ LastTells(w)'
             /\ w # e.user => (Coming(w)' <=> Coming(w))
             /\ w = e.user /\ ~Coming(w)' => e.channel = voice[w]
  <2>1. LastTells(w)
    BY DEF VoiceInv, Heading
  <2>2. LastTells(w)'
    <3>1. ASSUME NEW i \in 1 .. Len(vsEvents'), vsEvents'[i].user = w,
                 \A j \in i + 1 .. Len(vsEvents') : vsEvents'[j].user # w
          PROVE  vsEvents'[i].channel = voice'[w]
      <4>1. i + 1 \in 1 .. Len(vsEvents) /\ vsEvents'[i] = vsEvents[i + 1]
        BY <1>2
      <4>2. ASSUME NEW j \in (i + 1) + 1 .. Len(vsEvents)
            PROVE  vsEvents[j].user # w
        <5>1. j - 1 \in i + 1 .. Len(vsEvents') /\ vsEvents'[j - 1] = vsEvents[j]
          BY <1>2
        <5> QED
          BY <3>1, <5>1
      <4> QED
        BY <1>2, <2>1, <3>1, <4>1, <4>2 DEF LastTells
    <3> QED
      BY <1>2, <3>1 DEF LastTells
  <2>3. Coming(w)' <=> \E i \in 2 .. Len(vsEvents) : vsEvents[i].user = w
    <3>1. ASSUME NEW i \in 2 .. Len(vsEvents)
          PROVE  i - 1 \in 1 .. Len(vsEvents) - 1 /\ vsEvents'[i - 1] = vsEvents[i]
      BY <1>2
    <3>2. ASSUME NEW i \in 1 .. Len(vsEvents) - 1
          PROVE  i + 1 \in 2 .. Len(vsEvents) /\ vsEvents'[i] = vsEvents[i + 1]
      BY <1>2
    <3>3. Coming(w)' <=> \E i \in 1 .. Len(vsEvents) - 1 : vsEvents'[i].user = w
      BY <1>2 DEF Coming
    <3> HIDE <1>2
    <3> QED
      BY <3>1, <3>2, <3>3
  <2>4. w # e.user => (Coming(w)' <=> Coming(w))
    BY <1>2, <2>3 DEF Coming
  <2>5. w = e.user /\ ~Coming(w)' => e.channel = voice[w]
    <3>1. 1 \in DOMAIN vsEvents /\ \A j \in 1 + 1 .. Len(vsEvents) : j \in 2 .. Len(vsEvents)
      BY <1>2
    <3> QED
      BY <1>2, <2>1, <2>3, <3>1 DEF LastTells
  <2> QED
    BY <2>2, <2>4, <2>5
<1> QED
  BY <1>2, <1>3

\* An update of a user leaves the others where they are.
LEMMA OthersKept ==
    ASSUME VoiceInv, NEW u \in Everyone, NEW w \in VoiceUsers \ muddled, w # u, voice' = voice,
           channels \subseteq channels', None \notin channels', LastTells(w)', Coming(w)' <=> Coming(w),
           states'[w] = states[w],
           \A f : f.user = w => (f \in fetching' <=> f \in fetching),
           \A c \in channels : /\ Once(w, inside[c]) => Once(w, inside'[c])
                               /\ Absent(w, inside[c]) => Absent(w, inside'[c]),
           \A c \in channels' \ channels : Absent(w, inside'[c])
    PROVE  Settled(w)' /\ Heading(w)'
<1>1. Settled(w) /\ Heading(w)
  BY DEF VoiceInv
<1>2. Fetches(w)' <=> Fetches(w)
  BY DEF Fetches
<1>3. Settled(w)'
  <2>1. \A e, f \in fetching' : e.user = w /\ f.user = w => e = f
    BY <1>1 DEF Settled
  <2>2. states'[w] # None => states'[w] \in channels'
    BY <1>1 DEF Settled
  <2>3. ASSUME NEW c \in channels'
        PROVE  IF ~Fetches(w)' /\ c = states'[w] THEN Once(w, inside'[c]) ELSE Absent(w, inside'[c])
    <3>1. CASE c \in channels
      BY <1>1, <1>2, <3>1 DEF Settled
    <3>2. CASE c \notin channels
      <4>1. c # states[w]
        BY <1>1, <3>2 DEF Settled
      <4> QED
        BY <3>2, <4>1
    <3> QED
      BY <3>1, <3>2
  <2> QED
    BY <2>1, <2>2, <2>3 DEF Settled
<1>4. Heading(w)'
  BY <1>1, <1>2 DEF Heading
<1> QED
  BY <1>3, <1>4

\* An update that arrives.
LEMMA UpdateKept ==
    ASSUME VoiceInv, Vs!UpdateArrives
    PROVE  VoiceInv'
<1> PICK e : e = Head(vsEvents)
  OBVIOUS
<1> DEFINE u == e.user
           T == Vs!TakenOut(u)
<1>1. /\ vsEvents # <<>> /\ vsEvents' = Tail(vsEvents) /\ UNCHANGED <<voice, channels, moves>>
      /\ muddled' = muddled \cup {v \in {u} : \E f \in fetching : f.user = v}
      /\ \/ /\ e.channel = None
            /\ inside' = T /\ Vs!Stored(u, None) /\ UNCHANGED fetching
         \/ /\ e.channel \in channels
            /\ inside' = [T EXCEPT ![e.channel] = Append(@, u)]
            /\ Vs!Stored(u, e.channel) /\ UNCHANGED fetching
         \/ /\ e.channel # None /\ e.channel \notin channels
            /\ inside' = T /\ fetching' = fetching \cup {e} /\ UNCHANGED states
  BY DEF Vs!UpdateArrives
<1>2. /\ e \in Vs!Updates(VoiceChannels \cup {None})
      /\ vsEvents' \in Seq(Vs!Updates(VoiceChannels \cup {None}))
      /\ \A w \in VoiceUsers \ muddled :
           /\ LastTells(w)'
           /\ w # u => (Coming(w)' <=> Coming(w))
           /\ w = u /\ ~Coming(w)' => e.channel = voice[w]
  BY <1>1, UpdateTaken
<1>3. u \in Everyone /\ e.channel \in VoiceChannels \cup {None}
  BY <1>2 DEF Vs!Updates, Everyone
<1>4. /\ T \in [VoiceChannels -> Seq(Everyone)]
      /\ \A c \in VoiceChannels \ channels : T[c] = inside[c]
      /\ \A c \in channels :
           /\ \A v : v # u => /\ Once(v, inside[c]) => Once(v, T[c])
                              /\ Absent(v, inside[c]) => Absent(v, T[c])
           /\ u \in VoiceUsers \ muddled => Absent(u, T[c])
  BY <1>3, TakenFromAll
<1>5. /\ inside \in [VoiceChannels -> Seq(Everyone)] /\ channels \subseteq VoiceChannels
      /\ None \notin VoiceChannels /\ OwnUser \notin VoiceUsers
      /\ states \in [Everyone -> VoiceChannels \cup {None}]
  BY VoiceConstants DEF VoiceInv, Vs!TypeOK, Everyone, Vs!NamesAssumption
<1> HIDE DEF T
<1>6. /\ inside' \in [VoiceChannels -> Seq(Everyone)]
      /\ \A c \in VoiceChannels \ channels : inside'[c] = inside[c]
      /\ \A c \in channels : \A v : v # u =>
           /\ Once(v, inside[c]) => Once(v, inside'[c])
           /\ Absent(v, inside[c]) => Absent(v, inside'[c])
  <2>1. CASE inside' = T
    BY <1>4, <2>1
  <2>2. CASE e.channel \in channels /\ inside' = [T EXCEPT ![e.channel] = Append(@, u)]
    <3>1. T[e.channel] \in Seq(Everyone)
      BY <1>4, <1>5, <2>2
    <3>2. /\ Append(T[e.channel], u) \in Seq(Everyone)
          /\ \A v : v # u => /\ Once(v, T[e.channel]) => Once(v, Append(T[e.channel], u))
                             /\ Absent(v, T[e.channel]) => Absent(v, Append(T[e.channel], u))
      BY <1>3, <3>1, PutAtEnd
    <3> QED
      BY <1>4, <1>5, <2>2, <3>2
  <2> QED
    BY <1>1, <2>1, <2>2
<1>7. states' \in [Everyone -> VoiceChannels \cup {None}] /\ \A w \in Everyone \ {u} : states'[w] = states[w]
  BY <1>1, <1>3, <1>5 DEF Vs!Stored
<1>8. Vs!TypeOK'
  <2>1. fetching' \subseteq Vs!Updates(VoiceChannels)
    BY <1>1, <1>2, <1>3 DEF VoiceInv, Vs!TypeOK, Vs!Updates
  <2>2. muddled' \subseteq Everyone
    BY <1>1, <1>3 DEF VoiceInv, Vs!TypeOK, Everyone
  <2> QED
    BY <1>1, <1>2, <1>5, <1>6, <1>7, <2>1, <2>2 DEF VoiceInv, Vs!TypeOK, Everyone
<1>9. ASSUME NEW w \in VoiceUsers \ muddled'
      PROVE  Settled(w)' /\ Heading(w)'
  <2>1. w \in VoiceUsers \ muddled /\ w \in Everyone /\ Settled(w) /\ Heading(w)
    BY <1>1 DEF VoiceInv, Everyone, Vs!Everyone
  <2>2. CASE w # u
    <3>1. \A f : f.user = w => (f \in fetching' <=> f \in fetching)
      BY <1>1, <2>2
    <3> QED
      BY <1>1, <1>2, <1>3, <1>5, <1>6, <1>7, <2>1, <2>2, <3>1, OthersKept
  <2>3. CASE w = u
    <3>1. ~Fetches(w) /\ LastTells(w)' /\ (~Coming(w)' => e.channel = voice'[w])
      BY <1>1, <1>2, <2>1, <2>3 DEF Fetches
    <3>2. \A c \in channels : Absent(w, T[c])
      BY <1>4, <2>1, <2>3
    <3>3. w # OwnUser
      BY <1>5, <2>1
    <3>4. CASE /\ e.channel = None
               /\ inside' = T /\ Vs!Stored(u, None) /\ UNCHANGED fetching
      <4>1. states'[w] = None /\ ~Fetches(w)'
        BY <1>5, <2>1, <2>3, <3>1, <3>3, <3>4 DEF Vs!Stored, Fetches
      <4> QED
        BY <1>1, <1>5, <3>1, <3>2, <3>4, <4>1 DEF Settled, Heading, Fetches
    <3>5. CASE /\ e.channel \in channels
               /\ inside' = [T EXCEPT ![e.channel] = Append(@, u)]
               /\ Vs!Stored(u, e.channel) /\ UNCHANGED fetching
      <4>1. states'[w] = e.channel /\ ~Fetches(w)'
        BY <1>5, <2>1, <2>3, <3>1, <3>3, <3>5 DEF Vs!Stored, Fetches
      <4>2. T[e.channel] \in Seq(Everyone) /\ inside'[e.channel] = Append(T[e.channel], u)
        BY <1>4, <1>5, <3>5
      <4>3. Once(w, inside'[e.channel])
        BY <1>3, <2>3, <3>2, <3>5, <4>2, PutAtEnd
      <4>4. \A c \in channels : c # e.channel => Absent(w, inside'[c])
        BY <1>4, <1>5, <3>2, <3>5
      <4> QED
        BY <1>1, <3>1, <3>5, <4>1, <4>3, <4>4 DEF Settled, Heading, Fetches
    <3>6. CASE /\ e.channel # None /\ e.channel \notin channels
               /\ inside' = T /\ fetching' = fetching \cup {e} /\ UNCHANGED states
      <4>1. Fetches(w)'
        BY <2>3, <3>6 DEF Fetches
      <4>2. \A f \in fetching' : f.user = w => f = e
        BY <3>1, <3>6 DEF Fetches
      <4> QED
        BY <1>1, <2>1, <3>1, <3>2, <3>6, <4>1, <4>2 DEF Settled, Heading
    <3> QED
      BY <1>1, <3>4, <3>5, <3>6
  <2> QED
    BY <2>2, <2>3
<1> QED
  BY <1>8, <1>9 DEF VoiceInv

\* A channel that was fetched.
LEMMA FetchedKept ==
    ASSUME VoiceInv, NEW e \in fetching, Vs!ChannelFetched(e)
    PROVE  VoiceInv'
<1> DEFINE u == e.user
           d == e.channel
           L == IF d \in channels THEN inside[d] ELSE <<>>
<1>1. /\ fetching' = fetching \ {e} /\ channels' = channels \cup {d}
      /\ inside' = [inside EXCEPT ![d] = Append(L, u)]
      /\ Vs!Stored(u, d) /\ UNCHANGED <<voice, vsEvents, muddled, moves>>
  BY DEF Vs!ChannelFetched
<1>2. u \in Everyone /\ d \in VoiceChannels
  BY DEF VoiceInv, Vs!TypeOK, Vs!Updates, Everyone
<1>3. /\ inside \in [VoiceChannels -> Seq(Everyone)] /\ channels \subseteq VoiceChannels
      /\ None \notin VoiceChannels /\ OwnUser \notin VoiceUsers
      /\ states \in [Everyone -> VoiceChannels \cup {None}]
  BY VoiceConstants DEF VoiceInv, Vs!TypeOK, Everyone, Vs!NamesAssumption
<1>4. L \in Seq(Everyone) /\ (d \notin channels => \A v : Absent(v, L))
      /\ (d \in channels => L = inside[d])
  BY <1>2, <1>3 DEF Absent
<1> HIDE DEF L
<1>5. /\ Append(L, u) \in Seq(Everyone)
      /\ Absent(u, L) => Once(u, Append(L, u))
      /\ \A v : v # u => /\ Once(v, L) => Once(v, Append(L, u))
                         /\ Absent(v, L) => Absent(v, Append(L, u))
  BY <1>2, <1>4, PutAtEnd
<1>6. /\ inside' \in [VoiceChannels -> Seq(Everyone)]
      /\ inside'[d] = Append(L, u) /\ \A c \in VoiceChannels : c # d => inside'[c] = inside[c]
  BY <1>1, <1>2, <1>3, <1>5
<1>7. states' \in [Everyone -> VoiceChannels \cup {None}] /\ \A w \in Everyone \ {u} : states'[w] = states[w]
  BY <1>1, <1>2, <1>3 DEF Vs!Stored
<1>8. Vs!TypeOK'
  <2>1. \A c \in VoiceChannels \ channels' : inside'[c] = <<>>
    BY <1>1, <1>3, <1>6 DEF VoiceInv, Vs!TypeOK
  <2> QED
    BY <1>1, <1>2, <1>3, <1>6, <1>7, <2>1 DEF VoiceInv, Vs!TypeOK, Everyone
<1>9. ASSUME NEW w \in VoiceUsers \ muddled
      PROVE  Settled(w)' /\ Heading(w)'
  <2>1. w \in Everyone /\ Settled(w) /\ Heading(w)
    BY DEF VoiceInv, Everyone, Vs!Everyone
  <2>2. LastTells(w)' /\ (Coming(w)' <=> Coming(w))
    BY <1>1, <2>1 DEF Heading, LastTells, Coming
  <2>3. CASE w # u
    <3>1. \A c \in channels : /\ Once(w, inside[c]) => Once(w, inside'[c])
                              /\ Absent(w, inside[c]) => Absent(w, inside'[c])
      BY <1>3, <1>4, <1>5, <1>6, <2>3
    <3>2. \A c \in channels' \ channels : Absent(w, inside'[c])
      BY <1>1, <1>4, <1>5, <1>6, <2>3
    <3>3. \A f : f.user = w => (f \in fetching' <=> f \in fetching)
      BY <1>1, <2>3
    <3> QED
      BY <1>1, <1>2, <1>3, <1>7, <2>1, <2>2, <2>3, <3>1, <3>2, <3>3, OthersKept
  <2>4. CASE w = u
    <3>1. Fetches(w) /\ \A f \in fetching : f.user = w => f = e
      BY <2>1, <2>4 DEF Settled, Fetches
    <3>2. ~Fetches(w)'
      BY <1>1, <3>1 DEF Fetches
    <3>3. states'[w] = d
      BY <1>1, <1>2, <1>3, <2>4 DEF Vs!Stored
    <3>4. \A c \in channels : Absent(w, inside[c])
      BY <2>1, <3>1 DEF Settled
    <3>5. Once(w, inside'[d]) /\ \A c \in channels' : c # d => Absent(w, inside'[c])
      BY <1>1, <1>3, <1>4, <1>5, <1>6, <2>4, <3>4
    <3>6. ~Coming(w) => d = voice[w]
      BY <2>1, <2>4 DEF Heading
    <3>7. Settled(w)'
      BY <1>1, <3>2, <3>3, <3>5 DEF Settled, Fetches
    <3> QED
      BY <1>1, <2>2, <3>2, <3>3, <3>6, <3>7 DEF Heading, Fetches
  <2> QED
    BY <2>3, <2>4
<1> QED
  BY <1>1, <1>8, <1>9 DEF VoiceInv

\* A channel that is refused, or that the cache drops, muddles the users it is about, and them only.
LEMMA DroppedKept ==
    ASSUME VoiceInv,
           (\E e \in fetching : Vs!ChannelRefused(e)) \/ (\E c \in VoiceChannels : Vs!ChannelDropped(c))
    PROVE  VoiceInv'
<1>1. CASE \E e \in fetching : Vs!ChannelRefused(e)
  <2>1. PICK e \in fetching : Vs!ChannelRefused(e)
    BY <1>1
  <2>2. /\ fetching' = fetching \ {e} /\ muddled' = muddled \cup {e.user}
        /\ UNCHANGED <<voice, vsEvents, channels, inside, states, moves>>
    BY <2>1 DEF Vs!ChannelRefused
  <2>3. Vs!TypeOK'
    BY <2>2 DEF VoiceInv, Vs!TypeOK, Vs!Updates
  <2>4. ASSUME NEW w \in VoiceUsers \ muddled'
        PROVE  Settled(w)' /\ Heading(w)'
    <3>1. Settled(w) /\ Heading(w) /\ w # e.user
      BY <2>2 DEF VoiceInv
    <3>2. Fetches(w)' <=> Fetches(w)
      BY <2>2, <3>1 DEF Fetches
    <3> QED
      BY <2>2, <3>1, <3>2 DEF Settled, Heading, LastTells, Coming
  <2> QED
    BY <2>3, <2>4 DEF VoiceInv
<1>2. CASE \E c \in VoiceChannels : Vs!ChannelDropped(c)
  <2>1. PICK d \in VoiceChannels : Vs!ChannelDropped(d)
    BY <1>2
  <2>2. /\ channels' = channels \ {d} /\ inside' = [inside EXCEPT ![d] = <<>>]
        /\ muddled' = muddled \cup {u \in Everyone : states[u] = d}
        /\ UNCHANGED <<voice, vsEvents, fetching, states, moves>>
    BY <2>1 DEF Vs!ChannelDropped, Everyone
  <2>3. Vs!TypeOK'
    <3>1. <<>> \in Seq(Everyone)
      OBVIOUS
    <3>2. inside' \in [VoiceChannels -> Seq(Everyone)] /\ muddled' \subseteq Everyone
      BY <2>2, <3>1 DEF VoiceInv, Vs!TypeOK, Everyone
    <3> QED
      BY <2>2, <3>2 DEF VoiceInv, Vs!TypeOK, Everyone
  <2>4. ASSUME NEW w \in VoiceUsers \ muddled'
        PROVE  Settled(w)' /\ Heading(w)'
    <3>1. Settled(w) /\ Heading(w) /\ states[w] # d
      BY <2>2 DEF VoiceInv, Everyone, Vs!Everyone
    <3>2. Fetches(w)' <=> Fetches(w)
      BY <2>2 DEF Fetches
    <3>3. \A c \in channels' : inside'[c] = inside[c] /\ c \in channels
      BY <2>2 DEF VoiceInv, Vs!TypeOK
    <3>4. Settled(w)'
      BY <2>2, <3>1, <3>2, <3>3 DEF Settled
    <3> QED
      BY <2>2, <3>1, <3>2, <3>4 DEF Heading, LastTells, Coming
  <2> QED
    BY <2>3, <2>4 DEF VoiceInv
<1> QED
  BY <1>1, <1>2

\* Every step keeps it ...
LEMMA VoiceKept == VoiceInv /\ [Vs!Next]_vsVars => VoiceInv'
<1> SUFFICES ASSUME VoiceInv, [Vs!Next]_vsVars
             PROVE  VoiceInv'
  OBVIOUS
<1>1. CASE UNCHANGED vsVars
  BY <1>1 DEF vsVars, VoiceInv, Vs!TypeOK, Settled, Heading, LastTells, Fetches, Coming
<1>2. CASE \E u \in Everyone, c \in VoiceChannels \cup {None} : Vs!Move(u, c)
  BY <1>2, MoveKept
<1>3. CASE Vs!UpdateArrives
  BY <1>3, UpdateKept
<1>4. CASE \E e \in fetching : Vs!ChannelFetched(e)
  BY <1>4, FetchedKept
<1>5. CASE (\E e \in fetching : Vs!ChannelRefused(e)) \/ (\E c \in VoiceChannels : Vs!ChannelDropped(c))
  BY <1>5, DroppedKept
<1> QED
  BY <1>1, <1>2, <1>3, <1>4, <1>5 DEF Vs!Next, Everyone

\* ... and it is true at the start.
LEMMA VoiceStart == Init => VoiceInv
<1> SUFFICES ASSUME Vs!Init
             PROVE  VoiceInv
  BY DEF Init
<1>1. Vs!TypeOK
  BY VoiceConstants DEF Vs!Init, Vs!TypeOK, Vs!BoundsAssumption
<1>2. ASSUME NEW u \in VoiceUsers
      PROVE  Settled(u) /\ Heading(u)
  <2>1. u \in Everyone /\ None \notin channels /\ vsEvents = <<>> /\ fetching = {}
    BY VoiceConstants DEF Vs!Init, Vs!NamesAssumption, Everyone, Vs!Everyone
  <2>2. ~Coming(u) /\ ~Fetches(u) /\ LastTells(u)
    BY <2>1 DEF Coming, Fetches, LastTells
  <2> QED
    BY <2>1, <2>2 DEF Vs!Init, Settled, Heading, Everyone, Absent
<1> QED
  BY <1>1, <1>2 DEF VoiceInv

\* The variables of VoiceStates have their types.
THEOREM VoiceStateTypes == Spec => []Vs!TypeOK
<1>1. VoiceInv => Vs!TypeOK
  BY DEF VoiceInv
<1> QED
  BY <1>1, VoiceStart, VoiceKept, VoiceStep, PTL DEF Spec

\* Once every update has been handled, a user is listed in one voice channel, its own, but for
\* those whose updates overlapped at the await of fetch_channel or whose channel was refused or
\* dropped (place_voice_state_data).
THEOREM OneVoiceChannel == Spec => []InOnePlace
<1>1. VoiceInv => InOnePlace
  <2> SUFFICES ASSUME VoiceInv, Vs!Quiet, NEW u \in VoiceUsers \ muddled
               PROVE  /\ states[u] = voice[u]
                      /\ \A c \in channels : Vs!Times(u, c) = (IF c = voice[u] THEN 1 ELSE 0)
    BY DEF InOnePlace, Vs!InOnePlace
  <2>1. Settled(u) /\ Heading(u) /\ ~Coming(u) /\ ~Fetches(u)
    BY DEF VoiceInv, Vs!Quiet, Coming, Fetches
  <2>2. states[u] = voice[u]
    BY <2>1 DEF Heading
  <2>3. ASSUME NEW c \in channels
        PROVE  Vs!Times(u, c) = (IF c = voice[u] THEN 1 ELSE 0)
    <3> DEFINE P == {i \in DOMAIN inside[c] : inside[c][i] = u}
    <3>0. Vs!Times(u, c) = Cardinality(P)
      BY Zenon DEF Vs!Times, Vs!Cardinality, Cardinality
    <3>1. CASE c = voice[u]
      <4>1. Once(u, inside[c])
        BY <2>1, <2>2, <3>1 DEF Settled
      <4>2. PICK k : P = {k}
        BY <4>1 DEF Once
      <4>3. Cardinality({k}) = 1
        BY FS_Singleton
      <4> HIDE DEF P
      <4> QED
        BY <3>0, <3>1, <4>2, <4>3
    <3>2. CASE c # voice[u]
      <4>1. Absent(u, inside[c])
        BY <2>1, <2>2, <3>2 DEF Settled
      <4>2. P = {}
        BY <4>1 DEF Absent
      <4>3. Cardinality({}) = 0
        BY FS_EmptySet
      <4> HIDE DEF P
      <4> QED
        BY <3>0, <3>2, <4>2, <4>3
    <3> QED
      BY <3>1, <3>2
  <2> QED
    BY <2>2, <2>3
<1> QED
  BY <1>1, VoiceStart, VoiceKept, VoiceStep, PTL DEF Spec

-----------------------------------------------------------------------------
(***************************************************************************)
(* TTLCache                                                                *)
(***************************************************************************)
\* No key twice, and an entry does not expire after the next one.
CacheInv == Tc!TypeOK /\ Distinct(order) /\ Rising(order, left) /\ Tc!WithinHardLimit

\* A step of the composition is one of TTLCache, or changes nothing of it.
LEMMA CacheStep == [Next]_vars => [Tc!Next]_tcVars
BY DEF Next, vars, tcVars

\* The numbers of the cache.
LEMMA CacheNumbers ==
    /\ Ttl \in Nat \ {0} /\ Soft \in Nat /\ Hard \in Nat \ {0}
    /\ Tc!SoftLimit \in Nat /\ Tc!SoftLimit <= Hard
<1>1. Ttl \in Nat \ {0} /\ Soft \in Nat /\ Hard \in Nat \ {0}
  BY TtlNumbers DEF Tc!NumbersAssumption
<1>2. \E x \in {Soft, Hard} : \A y \in {Soft, Hard} : x <= y
  BY <1>1
<1>3. Tc!SoftLimit \in {Soft, Hard} /\ \A y \in {Soft, Hard} : Tc!SoftLimit <= y
  BY <1>2 DEF Tc!SoftLimit, Tc!Min
<1> QED
  BY <1>1, <1>3

\* The least number of a set of places.
LEMMA Least ==
    ASSUME NEW m \in Nat, NEW S \in SUBSET (1 .. m), S # {}
    PROVE  Tc!Min(S) \in S /\ \A i \in S : Tc!Min(S) <= i
<1>1. S \in SUBSET Nat
  OBVIOUS
<1> QED
  BY <1>1, LeastExists DEF Tc!Min

\* The keys without one of them keep their order.
LEMMA OthersIs ==
    ASSUME CacheInv, NEW k \in Entries
    PROVE  /\ Tc!Others(k) \in Seq(Entries) /\ Distinct(Tc!Others(k))
           /\ Rising(Tc!Others(k), left)
           /\ Len(Tc!Others(k)) = IF k \in Tc!Held THEN Len(order) - 1 ELSE Len(order)
           /\ Tc!ToSet(Tc!Others(k)) = Tc!Held \ {k}
           /\ k \notin Tc!Held => Tc!Others(k) = order
<1>1. /\ order \in Seq(Entries) /\ Len(order) \in Nat /\ DOMAIN order = 1 .. Len(order)
      /\ left \in [Entries -> 0 .. Ttl] /\ Ttl \in Nat
      /\ Distinct(order) /\ Rising(order, left)
  BY CacheNumbers, LenProperties DEF CacheInv, Tc!TypeOK
<1>2. CASE k \notin Tc!Held
  BY <1>1, <1>2 DEF Tc!Others, Tc!Held, Tc!ToSet
<1>3. CASE k \in Tc!Held
  <2>1. PICK f \in 1 .. Len(order) : order[f] = k /\ Tc!Others(k) = Cut(order, f)
    <3> DEFINE f == CHOOSE i \in DOMAIN order : order[i] = k
    <3>1. f \in DOMAIN order /\ order[f] = k
      BY <1>3 DEF Tc!Held, Tc!ToSet
    <3>2. Tc!Others(k) = Cut(order, f)
      BY <1>3 DEF Tc!Others, Tc!RemoveAt, Cut
    <3> HIDE DEF f
    <3> QED
      BY <1>1, <3>1, <3>2
  <2>2. order \in Seq(Entries) /\ left \in [Entries -> Nat]
    BY <1>1
  <2>3. /\ Cut(order, f) \in Seq(Entries) /\ Len(Cut(order, f)) = Len(order) - 1
        /\ Distinct(order) => Distinct(Cut(order, f)) /\ Among(Cut(order, f)) = Among(order) \ {order[f]}
        /\ Rising(order, left) => Rising(Cut(order, f), left)
    BY <2>1, <2>2, Removed, CutKeeps
  <2> QED
    BY <1>1, <1>3, <2>1, <2>3 DEF Tc!Held, Tc!ToSet, Among
<1> QED
  BY <1>2, <1>3

\* What expire() leaves of the entries s: those from the m-th on.
Leaves(s, m) ==
    /\ order' \in Seq(Entries) /\ raised' \in BOOLEAN
    /\ Len(order') = Len(s) - m + 1 /\ Len(order') <= Hard
    /\ \A i \in 1 .. Len(s) - m + 1 : order'[i] = s[m + i - 1]
    /\ \A i \in 1 .. m - 1 : left'[s[i]] = 0 \/ i <= Len(s) - Hard
    /\ Len(order') > Tc!SoftLimit => \A i \in m .. Len(s) : left'[s[i]] > 0
    /\ Len(s) > 0 /\ left'[s[Len(s)]] > 0 => m <= Len(s) /\ ~raised'
    /\ (\A i \in 1 .. Len(s) : left'[s[i]] > 0) => m = 1 \/ Len(order') = Hard

\* expire() leaves the entries from one of them on.
LEMMA ExpireLeaves ==
    ASSUME NEW s \in Seq(Entries), left' \in [Entries -> 0 .. Ttl], Rising(s, left'), Tc!Expire(s)
    PROVE  \E m \in 1 .. Len(s) + 1 : Leaves(s, m)
<1>1. /\ Len(s) \in Nat /\ DOMAIN s = 1 .. Len(s) /\ \A i \in 1 .. Len(s) : s[i] \in Entries
      /\ Ttl \in Nat /\ Hard \in Nat \ {0} /\ Tc!SoftLimit \in Nat /\ Tc!SoftLimit <= Hard
  BY CacheNumbers, LenProperties, ElementOfSeq
<1>2. \A i \in 1 .. Len(s) : left'[s[i]] \in Nat
  BY <1>1
<1>3. CASE Len(s) <= Tc!SoftLimit /\ order' = s /\ raised' = FALSE
  <2>0. raised' \in BOOLEAN
    BY Zenon, <1>3
  <2>1. order' \in Seq(Entries) /\ Len(order') = Len(s) - 1 + 1 /\ Len(order') <= Hard
    BY <1>1, <1>3
  <2>2. \A i \in 1 .. Len(s) - 1 + 1 : order'[i] = s[1 + i - 1]
    <3> SUFFICES ASSUME NEW i \in 1 .. Len(s) - 1 + 1
                 PROVE  order'[i] = s[1 + i - 1]
      OBVIOUS
    <3>1. 1 + i - 1 = i
      BY <1>1
    <3> QED
      BY <1>3, <3>1
  <2>3. \A i \in 1 .. 1 - 1 : left'[s[i]] = 0 \/ i <= Len(s) - Hard
    OBVIOUS
  <2>4. ~(Len(order') > Tc!SoftLimit)
    BY <1>1, <1>3
  <2>5. Len(s) > 0 => 1 <= Len(s) /\ ~raised'
    BY <1>1, <1>3
  <2>6. Leaves(s, 1)
    BY <2>0, <2>1, <2>2, <2>3, <2>4, <2>5 DEF Leaves
  <2> QED
    BY <1>1, <2>6
<1>4. ASSUME NEW o, o = Tc!Overflow(s),
             IF Tc!Fresh(o) = {}
                THEN order' = <<>> /\ raised' = TRUE
                ELSE order' = SubSeq(o, Tc!Min(Tc!Fresh(o)), Len(o)) /\ raised' = FALSE
      PROVE  \E m \in 1 .. Len(s) + 1 : Leaves(s, m)
  <2>1. PICK h \in 1 .. Len(s) + 1 :
           /\ o = SubSeq(s, h, Len(s))
           /\ h = 1 \/ h = Len(s) - Hard + 1
           /\ Len(s) - h + 1 <= Hard
    <3>1. CASE Len(s) <= Hard
      <4>1. o = SubSeq(s, 1, Len(s))
        BY <1>4, <3>1, SubSeqFull DEF Tc!Overflow
      <4> QED
        BY <1>1, <3>1, <4>1
    <3>2. CASE ~(Len(s) <= Hard)
      <4>1. o = SubSeq(s, Len(s) - Hard + 1, Len(s))
        BY <1>4, <3>2 DEF Tc!Overflow
      <4>2. Len(s) - Hard + 1 \in 1 .. Len(s) + 1 /\ Len(s) - (Len(s) - Hard + 1) + 1 <= Hard
        BY <1>1, <3>2
      <4> QED
        BY <4>1, <4>2
    <3> QED
      BY <3>1, <3>2
  <2>2. /\ o \in Seq(Entries) /\ Len(o) = Len(s) - h + 1 /\ Len(o) \in Nat
        /\ \A i \in 1 .. Len(o) : o[i] = s[h + i - 1]
        /\ DOMAIN o = 1 .. Len(o)
    <3>1. /\ o \in Seq(Entries) /\ Len(o) = Len(s) - h + 1
          /\ \A i \in 1 .. Len(s) - h + 1 : o[i] = s[h + i - 1]
      BY <2>1, Suffix
    <3> QED
      BY <3>1, LenProperties
  <2>3. \A i \in 1 .. Len(s) : h <= i => i - h + 1 \in 1 .. Len(o) /\ o[i - h + 1] = s[i]
    BY <1>1, <2>1, <2>2
  <2>4. CASE Tc!Fresh(o) = {}
    <3>1. \A i \in 1 .. Len(s) : h <= i => left'[s[i]] = 0
      BY <1>2, <2>2, <2>3, <2>4 DEF Tc!Fresh
    <3>2. order' = <<>> /\ raised' = TRUE /\ order' \in Seq(Entries) /\ Len(order') = 0
      BY <1>4, <2>4
    <3>3. \A i \in 1 .. Len(s) : left'[s[i]] = 0 \/ i <= Len(s) - Hard
      BY <1>1, <2>1, <3>1
    <3>4. Len(s) > 0 => left'[s[Len(s)]] = 0
      BY <1>1, <3>3
    <3>5. ASSUME \A i \in 1 .. Len(s) : left'[s[i]] > 0
          PROVE  Len(s) = 0
      BY <1>1, <3>4, <3>5
    <3>6. Leaves(s, Len(s) + 1)
      BY <1>1, <3>2, <3>3, <3>4, <3>5 DEF Leaves
    <3> QED
      BY <1>1, <3>6
  <2>5. CASE Tc!Fresh(o) # {}
    <3>1. PICK n \in 1 .. Len(o) : n = Tc!Min(Tc!Fresh(o))
      BY <2>2, <2>5, Least DEF Tc!Fresh
    <3>2. n \in Tc!Fresh(o) /\ \A i \in Tc!Fresh(o) : n <= i
      BY <2>2, <2>5, <3>1, Least DEF Tc!Fresh
    <3>3. order' = SubSeq(o, n, Len(o)) /\ raised' = FALSE
      BY <1>4, <2>5, <3>1
    <3>4. /\ order' \in Seq(Entries) /\ Len(order') = Len(o) - n + 1
          /\ \A i \in 1 .. Len(o) - n + 1 : order'[i] = o[n + i - 1]
      <4>1. n \in 1 .. Len(o) + 1
        BY <2>2, <3>1
      <4> QED
        BY <2>2, <3>3, <4>1, Suffix
    <3>5. PICK m \in 1 .. Len(s) : m = h + n - 1
      BY <1>1, <2>1, <2>2, <3>1
    <3>6. /\ Len(order') = Len(s) - m + 1 /\ Len(order') <= Hard
          /\ \A i \in 1 .. Len(s) - m + 1 : order'[i] = s[m + i - 1]
      <4>1. Len(o) - n + 1 = Len(s) - m + 1
        BY <1>1, <2>1, <2>2, <3>1, <3>5
      <4>2. ASSUME NEW i \in 1 .. Len(s) - m + 1
            PROVE  order'[i] = s[m + i - 1]
        <5>1. h \in Int /\ n \in Int /\ m \in Int /\ i \in Int /\ Len(o) \in Int /\ n >= 1 /\ m = h + n - 1
          BY <2>1, <2>2, <3>1, <3>5
        <5>2. i \in 1 .. Len(o) - n + 1
          BY <4>1
        <5>3. n + i - 1 \in 1 .. Len(o)
          BY <5>1, <5>2
        <5>4. h + (n + i - 1) - 1 = m + i - 1
          BY <5>1
        <5> QED
          BY <2>2, <3>4, <5>2, <5>3, <5>4
      <4>3. Len(order') <= Hard
        <5>1. h \in Int /\ n \in Int /\ n >= 1 /\ Len(o) \in Int /\ Hard \in Int
          BY <1>1, <2>1, <2>2, <3>1
        <5> QED
          BY <1>1, <2>1, <2>2, <3>4, <5>1
      <4> QED
        BY <3>4, <4>1, <4>2, <4>3
    <3>7. left'[s[m]] > 0
      BY <2>1, <2>2, <3>1, <3>2, <3>5 DEF Tc!Fresh
    <3>8. \A i \in m .. Len(s) : left'[s[i]] > 0
      <4>1. \A i \in m .. Len(s) : i \in 1 .. Len(s) /\ (i = m \/ m < i)
        BY <1>1, <3>5
      <4>2. ASSUME NEW i \in m .. Len(s)
            PROVE  left'[s[m]] <= left'[s[i]]
        <5>1. CASE i = m
          BY <1>2, <3>5, <5>1
        <5>2. CASE m < i
          BY <1>1, <3>5, <4>1, <5>2 DEF Rising
        <5> QED
          BY <4>1, <5>1, <5>2
      <4> QED
        BY <1>2, <3>5, <3>7, <4>1, <4>2
    <3>9. \A i \in 1 .. m - 1 : left'[s[i]] = 0 \/ i <= Len(s) - Hard
      <4> SUFFICES ASSUME NEW i \in 1 .. m - 1, ~(i <= Len(s) - Hard)
                   PROVE  left'[s[i]] = 0
        OBVIOUS
      <4>1. i \in 1 .. Len(s) /\ h <= i
        BY <1>1, <2>1, <3>5
      <4>2. i - h + 1 \in 1 .. Len(o) /\ o[i - h + 1] = s[i] /\ i - h + 1 < n
        BY <1>1, <2>1, <2>3, <3>1, <3>5, <4>1
      <4>3. i - h + 1 \notin Tc!Fresh(o)
        BY <2>2, <3>1, <3>2, <4>2
      <4> QED
        BY <1>2, <2>2, <4>1, <4>2, <4>3 DEF Tc!Fresh
    <3>10. ASSUME \A i \in 1 .. Len(s) : left'[s[i]] > 0
           PROVE  m = 1 \/ Len(order') = Hard
      <4>1. 1 \in 1 .. Len(o) /\ o[1] = s[h] /\ h \in 1 .. Len(s)
        BY <1>1, <2>1, <2>2, <3>1
      <4>2. 1 \in Tc!Fresh(o)
        BY <2>2, <3>10, <4>1 DEF Tc!Fresh
      <4>3. n = 1
        BY <3>1, <3>2, <4>2
      <4> QED
        BY <1>1, <2>1, <3>5, <3>6, <4>3
    <3>11. Leaves(s, m)
      <4>1. raised' \in BOOLEAN /\ ~raised'
        BY Zenon, <3>3
      <4>2. order' \in Seq(Entries) /\ m <= Len(s)
        BY <3>4, <3>5
      <4> QED
        BY <3>6, <3>8, <3>9, <3>10, <4>1, <4>2 DEF Leaves
    <3> QED
      BY <1>1, <3>5, <3>11
  <2> QED
    BY <2>4, <2>5
<1> QED
  BY <1>3, <1>4 DEF Tc!Expire

\* __setitem__ puts the key last, and gives its entry the longest time.
LEMMA LatestIs ==
    ASSUME CacheInv, NEW k \in Entries, left' = [left EXCEPT ![k] = Ttl]
    PROVE  /\ Tc!Latest(k) \in Seq(Entries) /\ Distinct(Tc!Latest(k))
           /\ left' \in [Entries -> 0 .. Ttl] /\ Rising(Tc!Latest(k), left')
           /\ Len(Tc!Latest(k)) = (IF k \in Tc!Held THEN Len(order) ELSE Len(order) + 1)
           /\ Len(Tc!Latest(k)) > 0 /\ Tc!Latest(k)[Len(Tc!Latest(k))] = k /\ left'[k] = Ttl
           /\ Among(Tc!Latest(k)) = Tc!Held \cup {k}
           /\ k \notin Tc!Held => \A i \in 1 .. Len(order) : Tc!Latest(k)[i] = order[i]
<1> DEFINE o == Tc!Others(k)
<1>1. /\ o \in Seq(Entries) /\ Distinct(o) /\ Rising(o, left)
      /\ Len(o) = (IF k \in Tc!Held THEN Len(order) - 1 ELSE Len(order))
      /\ Among(o) = Tc!Held \ {k}
      /\ k \notin Tc!Held => o = order
  BY OthersIs DEF Tc!ToSet, Among
<1>2. Tc!Latest(k) = Append(o, k)
  BY DEF Tc!Latest
<1>3. order \in Seq(Entries) /\ left \in [Entries -> 0 .. Ttl] /\ Ttl \in Nat \ {0}
  BY CacheNumbers DEF CacheInv, Tc!TypeOK
<1>4. left' \in [Entries -> 0 .. Ttl] /\ left'[k] = Ttl /\ \A q \in Entries : q # k => left'[q] = left[q]
  BY <1>3
<1> HIDE DEF o
<1>5. /\ Append(o, k) \in Seq(Entries) /\ Len(o) \in Nat /\ DOMAIN o = 1 .. Len(o)
      /\ Len(Append(o, k)) = Len(o) + 1 /\ DOMAIN Append(o, k) = 1 .. Len(o) + 1
      /\ \A i \in 1 .. Len(o) : Append(o, k)[i] = o[i] /\ o[i] \in Entries
      /\ Append(o, k)[Len(o) + 1] = k
  BY <1>1
<1>6. \A i \in 1 .. Len(o) : o[i] # k
  BY <1>1, <1>5 DEF Among
<1>7. Distinct(Append(o, k))
  BY <1>1, <1>5, <1>6 DEF Distinct
<1>8. ASSUME NEW i \in 1 .. Len(o) + 1, NEW j \in 1 .. Len(o) + 1, i < j
      PROVE  left'[Append(o, k)[i]] <= left'[Append(o, k)[j]]
  <2>1. i \in 1 .. Len(o) /\ left'[o[i]] = left[o[i]] /\ left[o[i]] \in 0 .. Ttl
    BY <1>3, <1>4, <1>5, <1>6, <1>8
  <2>2. CASE j \in 1 .. Len(o)
    <3>1. left'[o[j]] = left[o[j]]
      BY <1>4, <1>5, <1>6, <2>2
    <3> QED
      BY <1>1, <1>5, <1>8, <2>1, <2>2, <3>1 DEF Rising
  <2>3. CASE j = Len(o) + 1
    BY <1>3, <1>4, <1>5, <2>1, <2>3
  <2> QED
    BY <1>5, <2>2, <2>3
<1>9. Rising(Append(o, k), left')
  BY <1>5, <1>8 DEF Rising
<1>10. Among(Append(o, k)) = Tc!Held \cup {k}
  <2>1. Among(Append(o, k)) = Among(o) \cup {k}
    <3>1. \A v : v \in Among(Append(o, k)) <=> \E i \in 1 .. Len(o) + 1 : v = Append(o, k)[i]
      BY <1>5 DEF Among
    <3>2. \A v : v \in Among(o) <=> \E i \in 1 .. Len(o) : v = o[i]
      BY <1>5 DEF Among
    <3>3. \A v : (\E i \in 1 .. Len(o) + 1 : v = Append(o, k)[i]) <=> v = k \/ \E i \in 1 .. Len(o) : v = o[i]
      BY <1>5
    <3> QED
      BY <3>1, <3>2, <3>3
  <2>2. k \in Tc!Held => (Tc!Held \ {k}) \cup {k} = Tc!Held \cup {k}
    OBVIOUS
  <2> QED
    BY <1>1, <2>1, <2>2
<1>11. Len(order) \in Nat
  BY <1>3
<1> QED
  BY <1>1, <1>2, <1>4, <1>5, <1>7, <1>9, <1>10, <1>11

\* What is left is in its order, and is what stood from the m-th place on.
LEMMA LeavesKeep ==
    ASSUME NEW s \in Seq(Entries), Distinct(s), Rising(s, left'), NEW m \in 1 .. Len(s) + 1, Leaves(s, m)
    PROVE  Distinct(order') /\ Rising(order', left') /\ Among(order') = {s[i] : i \in m .. Len(s)}
<1>1. /\ Len(s) \in Nat /\ DOMAIN s = 1 .. Len(s) /\ DOMAIN order' = 1 .. Len(s) - m + 1
      /\ \A i \in 1 .. Len(s) - m + 1 : order'[i] = s[m + i - 1]
  BY LenProperties DEF Leaves
<1>2. \A i \in 1 .. Len(s) - m + 1 : m + i - 1 \in DOMAIN s
  BY <1>1
<1>3. Distinct(order')
  <2>1. ASSUME NEW i \in 1 .. Len(s) - m + 1, NEW j \in 1 .. Len(s) - m + 1, order'[i] = order'[j]
        PROVE  i = j
    <3>1. m + i - 1 = m + j - 1
      BY <1>1, <1>2, <2>1 DEF Distinct
    <3> QED
      BY <1>1, <3>1
  <2> QED
    BY <1>1, <2>1 DEF Distinct
<1>4. ASSUME NEW i \in 1 .. Len(s) - m + 1, NEW j \in 1 .. Len(s) - m + 1, i < j
      PROVE  left'[order'[i]] <= left'[order'[j]]
  <2>1. m + i - 1 < m + j - 1
    BY <1>1, <1>4
  <2> QED
    BY <1>1, <1>2, <2>1 DEF Rising
<1>5. Rising(order', left')
  BY <1>1, <1>4 DEF Rising
<1>6. ASSUME NEW v
      PROVE  v \in Among(order') <=> v \in {s[i] : i \in m .. Len(s)}
  <2>1. ASSUME v \in Among(order')
        PROVE  v \in {s[i] : i \in m .. Len(s)}
    <3>1. PICK i \in 1 .. Len(s) - m + 1 : v = order'[i]
      BY <1>1, <2>1 DEF Among
    <3>2. m + i - 1 \in m .. Len(s)
      BY <1>1
    <3> QED
      BY <1>1, <3>1, <3>2
  <2>2. ASSUME v \in {s[i] : i \in m .. Len(s)}
        PROVE  v \in Among(order')
    <3>1. PICK i \in m .. Len(s) : v = s[i]
      BY <2>2
    <3>2. i - m + 1 \in 1 .. Len(s) - m + 1 /\ m + (i - m + 1) - 1 = i
      BY <1>1
    <3> QED
      BY <1>1, <3>1, <3>2 DEF Among
  <2> QED
    BY <2>1, <2>2
<1>7. Among(order') = {s[i] : i \in m .. Len(s)}
  BY <1>6
<1> QED
  BY <1>3, <1>5, <1>7

\* After an insertion, or an expire() that is called, nothing is out of order; what went had expired, or was the
\* first of a cache that is full.
LEMMA ExpireKeeps ==
    ASSUME NEW s \in Seq(Entries), Distinct(s), left' \in [Entries -> 0 .. Ttl], Rising(s, left'), Tc!Expire(s)
    PROVE  /\ CacheInv' /\ Tc!Held' \subseteq Among(s)
           /\ Len(s) > 0 /\ left'[s[Len(s)]] > 0 => s[Len(s)] \in Tc!Held' /\ ~raised'
           /\ Len(order') > Tc!SoftLimit => \A q \in Tc!Held' : left'[q] > 0
           /\ \A i \in 1 .. Len(s) : s[i] \notin Tc!Held' =>
                 \/ left'[s[i]] = 0
                 \/ i <= Len(s) - Hard /\ (left'[s[1]] > 0 => Len(order') = Hard)
<1>1. PICK m \in 1 .. Len(s) + 1 : Leaves(s, m)
  BY ExpireLeaves
<1>2. Distinct(order') /\ Rising(order', left') /\ Among(order') = {s[i] : i \in m .. Len(s)}
  BY <1>1, LeavesKeep
<1>3. /\ Len(s) \in Nat /\ DOMAIN s = 1 .. Len(s) /\ \A i \in 1 .. Len(s) : s[i] \in Entries
      /\ \A i \in 1 .. Len(s) : left'[s[i]] \in Nat
  <2>1. Len(s) \in Nat /\ DOMAIN s = 1 .. Len(s) /\ \A i \in 1 .. Len(s) : s[i] \in Entries
    BY LenProperties, ElementOfSeq
  <2> QED
    BY <2>1, CacheNumbers
<1>4. Tc!Held' = Among(order')
  BY DEF Tc!Held, Tc!ToSet, Among
<1>5. CacheInv'
  <2>1. order' \in Seq(Entries) /\ raised' \in BOOLEAN /\ Len(order') <= Hard
    BY Zenon, <1>1 DEF Leaves
  <2>2. Tc!IsInjective(order')
    BY <1>2 DEF Distinct, Tc!IsInjective
  <2>3. Tc!TypeOK'
    BY Zenon, <2>1, <2>2 DEF Tc!TypeOK
  <2> QED
    BY <1>2, <2>1, <2>3 DEF CacheInv, Distinct, Rising, Tc!WithinHardLimit
<1>6. Tc!Held' \subseteq Among(s)
  BY <1>2, <1>3, <1>4 DEF Among
<1>7. ASSUME Len(s) > 0, left'[s[Len(s)]] > 0
      PROVE  s[Len(s)] \in Tc!Held' /\ ~raised'
  <2>1. m <= Len(s) /\ ~raised'
    BY <1>1, <1>7 DEF Leaves
  <2>2. Len(s) \in m .. Len(s)
    BY <1>3, <2>1
  <2>3. s[Len(s)] \in Tc!Held'
    BY <1>2, <1>4, <2>2
  <2> QED
    BY <2>1, <2>3
<1>8. Len(order') > Tc!SoftLimit => \A q \in Tc!Held' : left'[q] > 0
  BY <1>1, <1>2, <1>4 DEF Leaves
<1>9. ASSUME NEW i \in 1 .. Len(s), s[i] \notin Tc!Held', left'[s[i]] # 0
      PROVE  i <= Len(s) - Hard /\ (left'[s[1]] > 0 => Len(order') = Hard)
  <2>1. i \in 1 .. m - 1
    BY <1>2, <1>3, <1>4, <1>9
  <2>2. i <= Len(s) - Hard
    BY <1>1, <1>9, <2>1 DEF Leaves
  <2>3. ASSUME left'[s[1]] > 0
        PROVE  Len(order') = Hard
    <3>1. ASSUME NEW j \in 1 .. Len(s)
          PROVE  left'[s[j]] > 0
      <4>1. j = 1 \/ left'[s[1]] <= left'[s[j]]
        <5>1. j = 1 \/ (1 < j /\ 1 \in DOMAIN s /\ j \in DOMAIN s)
          BY <1>3
        <5> QED
          BY <5>1 DEF Rising
      <4>2. left'[s[1]] \in Nat /\ left'[s[j]] \in Nat
        BY <1>3
      <4> QED
        BY <2>3, <4>1, <4>2
    <3>2. m # 1
      BY <1>3, <2>1
    <3> QED
      BY <1>1, <3>1, <3>2 DEF Leaves
  <2> QED
    BY <2>2, <2>3
<1> QED
  BY <1>5, <1>6, <1>7, <1>8, <1>9

\* What is true of a step of the cache.
CacheAction == Tc!SortedByExpiry' /\ Tc!InsertionCleans /\ Tc!LostOnlyWhenDue

\* __setitem__: what is in the cache, and what goes.
LEMMA SetKept ==
    ASSUME CacheInv, NEW k \in Entries, Tc!Set(k)
    PROVE  /\ CacheInv' /\ Tc!LostOnlyWhenDue
           /\ k \in Tc!Held' /\ ~raised'
           /\ Len(order') > Tc!SoftLimit => \A q \in Tc!Held' : left'[q] > 0
<1> DEFINE s == Tc!Latest(k)
<1>1. left' = [left EXCEPT ![k] = Ttl] /\ Tc!Expire(s)
  BY DEF Tc!Set
<1>2. /\ s \in Seq(Entries) /\ Distinct(s)
      /\ left' \in [Entries -> 0 .. Ttl] /\ Rising(s, left')
      /\ Len(s) = (IF k \in Tc!Held THEN Len(order) ELSE Len(order) + 1)
      /\ Len(s) > 0 /\ s[Len(s)] = k /\ left'[k] = Ttl
      /\ Among(s) = Tc!Held \cup {k}
      /\ k \notin Tc!Held => \A i \in 1 .. Len(order) : s[i] = order[i]
  BY <1>1, LatestIs
<1>3. /\ order \in Seq(Entries) /\ Len(order) \in Nat /\ Len(order) <= Hard
      /\ left \in [Entries -> 0 .. Ttl] /\ Ttl \in Nat \ {0} /\ Hard \in Nat \ {0}
  BY CacheNumbers, LenProperties DEF CacheInv, Tc!TypeOK, Tc!WithinHardLimit
<1> HIDE DEF s
<1>4. /\ CacheInv' /\ Tc!Held' \subseteq Among(s)
      /\ Len(s) > 0 /\ left'[s[Len(s)]] > 0 => s[Len(s)] \in Tc!Held' /\ ~raised'
      /\ Len(order') > Tc!SoftLimit => \A q \in Tc!Held' : left'[q] > 0
      /\ \A i \in 1 .. Len(s) : s[i] \notin Tc!Held' =>
            \/ left'[s[i]] = 0
            \/ i <= Len(s) - Hard /\ (left'[s[1]] > 0 => Len(order') = Hard)
  BY <1>1, <1>2, ExpireKeeps
<1>5. left'[s[Len(s)]] > 0
  BY <1>2, <1>3
<1>6. k \in Tc!Held' /\ ~raised'
  BY <1>2, <1>4, <1>5
<1>7. ASSUME NEW q \in Tc!Held \ Tc!Held'
      PROVE  left[q] = 0 \/ (Len(order) = Hard /\ q = Head(order) /\ Len(order') = Hard)
  <2>1. q # k /\ q \in Entries /\ left'[q] = left[q]
    <3>1. q # k
      BY <1>6
    <3>2. q \in Entries
      BY <1>3 DEF Tc!Held, Tc!ToSet
    <3> QED
      BY <1>1, <1>3, <3>1, <3>2
  <2>2. PICK i \in 1 .. Len(s) : q = s[i]
    <3>1. q \in Among(s) /\ DOMAIN s = 1 .. Len(s)
      BY <1>2, LenProperties
    <3> QED
      BY <3>1 DEF Among
  <2>3. CASE left'[s[i]] = 0
    BY <2>1, <2>2, <2>3
  <2>4. CASE left'[s[i]] # 0 /\ i <= Len(s) - Hard /\ (left'[s[1]] > 0 => Len(order') = Hard)
    <3>1. i = 1 /\ Len(order) = Hard /\ k \notin Tc!Held
      BY <1>2, <1>3, <2>4, SMTT(30)
    <3>2. q = order[1] /\ Head(order) = order[1]
      BY <1>2, <1>3, <2>2, <3>1
    <3>3. left'[s[1]] > 0
      BY <1>3, <2>1, <2>2, <2>4, <3>1
    <3> QED
      BY <2>4, <3>1, <3>2, <3>3
  <2> QED
    BY <1>4, <2>2, <2>3, <2>4
<1> QED
  BY <1>4, <1>6, <1>7 DEF Tc!LostOnlyWhenDue

\* expire(): only what has expired goes.
LEMMA ExpireNowKept ==
    ASSUME CacheInv, Tc!ExpireNow
    PROVE  CacheInv' /\ \A q \in Tc!Held \ Tc!Held' : left[q] = 0
<1>1. left' = left /\ Tc!Expire(order)
  BY DEF Tc!ExpireNow
<1>2. /\ order \in Seq(Entries) /\ Len(order) \in Nat /\ Len(order) <= Hard /\ DOMAIN order = 1 .. Len(order)
      /\ Distinct(order) /\ left' \in [Entries -> 0 .. Ttl] /\ Rising(order, left') /\ Hard \in Nat
  BY <1>1, CacheNumbers, LenProperties DEF CacheInv, Tc!TypeOK, Tc!WithinHardLimit
<1>3. /\ CacheInv'
      /\ \A i \in 1 .. Len(order) : order[i] \notin Tc!Held' =>
            \/ left'[order[i]] = 0
            \/ i <= Len(order) - Hard
  BY <1>1, <1>2, ExpireKeeps
<1>4. \A i \in 1 .. Len(order) : ~(i <= Len(order) - Hard)
  BY <1>2
<1>5. ASSUME NEW q \in Tc!Held \ Tc!Held'
      PROVE  left[q] = 0
  <2>1. PICK i \in 1 .. Len(order) : q = order[i]
    BY <1>2 DEF Tc!Held, Tc!ToSet
  <2> QED
    BY <1>1, <1>3, <1>4, <2>1
<1> QED
  BY <1>3, <1>5

\* get() loses nothing ...
LEMMA GetKept ==
    ASSUME CacheInv, NEW k \in Entries, Tc!Get(k)
    PROVE  CacheInv' /\ Tc!Held' = Tc!Held
<1>1. k \in Tc!Held /\ left' = [left EXCEPT ![k] = Ttl] /\ order' = Tc!Latest(k)
  BY DEF Tc!Get
<1>2. raised' \in BOOLEAN
  BY Zenon DEF Tc!Get
<1>3. /\ order' \in Seq(Entries) /\ Distinct(order')
      /\ left' \in [Entries -> 0 .. Ttl] /\ Rising(order', left')
      /\ Len(order') = Len(order)
      /\ Among(order') = Tc!Held
  <2>1. Tc!Held \cup {k} = Tc!Held
    BY <1>1
  <2> QED
    BY <1>1, <2>1, LatestIs
<1>4. Tc!IsInjective(order') /\ Len(order') <= Hard
  BY <1>3 DEF CacheInv, Distinct, Tc!IsInjective, Tc!WithinHardLimit
<1>5. Tc!TypeOK'
  BY Zenon, <1>2, <1>3, <1>4 DEF Tc!TypeOK
<1>6. CacheInv'
  BY <1>3, <1>4, <1>5 DEF CacheInv, Distinct, Rising, Tc!WithinHardLimit
<1>7. Tc!Held' = Among(order')
  BY DEF Tc!Held, Tc!ToSet, Among
<1> QED
  BY <1>3, <1>6, <1>7

\* ... pop() one entry ...
LEMMA PopKept ==
    ASSUME CacheInv, NEW k \in Entries, Tc!Pop(k)
    PROVE  CacheInv' /\ Tc!Held' = Tc!Held \ {k}
<1>1. k \in Tc!Held /\ left' = left /\ order' = Tc!Others(k)
  BY DEF Tc!Pop
<1>2. raised' \in BOOLEAN
  BY Zenon DEF Tc!Pop
<1>3. /\ order' \in Seq(Entries) /\ Distinct(order') /\ Rising(order', left')
      /\ Len(order') = Len(order) - 1 /\ Tc!ToSet(order') = Tc!Held \ {k}
  BY <1>1, OthersIs
<1>4. left' \in [Entries -> 0 .. Ttl] /\ Len(order) <= Hard /\ Len(order) \in Nat /\ Hard \in Nat
  BY <1>1, CacheNumbers, LenProperties DEF CacheInv, Tc!TypeOK, Tc!WithinHardLimit
<1>5. Tc!IsInjective(order') /\ Len(order') <= Hard
  BY <1>3, <1>4 DEF Distinct, Tc!IsInjective
<1>6. Tc!TypeOK'
  BY Zenon, <1>2, <1>3, <1>4, <1>5 DEF Tc!TypeOK
<1>7. CacheInv'
  BY <1>3, <1>5, <1>6 DEF CacheInv, Distinct, Rising, Tc!WithinHardLimit
<1>8. Tc!Held' = Tc!ToSet(order')
  BY DEF Tc!Held, Tc!ToSet
<1> QED
  BY <1>3, <1>7, <1>8

\* ... and time none: the entries expire in the order they have.
LEMMA TickKept ==
    ASSUME CacheInv, Tc!Tick
    PROVE  CacheInv' /\ Tc!Held' = Tc!Held
<1>1. /\ order \in Seq(Entries) /\ DOMAIN order = 1 .. Len(order) /\ left \in [Entries -> 0 .. Ttl] /\ Ttl \in Nat
      /\ Rising(order, left) /\ \A i \in DOMAIN order : order[i] \in Entries
  BY CacheNumbers, LenProperties, ElementOfSeq DEF CacheInv, Tc!TypeOK
<1>2. order' = order /\ left' = [k \in Entries |-> IF left[k] = 0 THEN 0 ELSE left[k] - 1]
  BY DEF Tc!Tick
<1>3. raised' \in BOOLEAN
  BY Zenon DEF Tc!Tick
<1>4. left' \in [Entries -> 0 .. Ttl]
  BY <1>1, <1>2
<1>5. Rising(order', left')
  <2>1. \A a, b \in Entries : left[a] <= left[b] => left'[a] <= left'[b]
    BY <1>1, <1>2
  <2> QED
    BY <1>1, <1>2, <2>1 DEF Rising
<1>6. Tc!TypeOK'
  BY Zenon, <1>2, <1>3, <1>4 DEF CacheInv, Tc!TypeOK
<1>7. CacheInv'
  BY <1>2, <1>5, <1>6 DEF CacheInv, Distinct, Rising, Tc!WithinHardLimit
<1> QED
  BY <1>2, <1>7 DEF Tc!Held, Tc!ToSet

\* Every step keeps it ...
LEMMA CacheKept == CacheInv /\ [Tc!Next]_tcVars => CacheInv'
<1> SUFFICES ASSUME CacheInv, [Tc!Next]_tcVars
             PROVE  CacheInv'
  OBVIOUS
<1>1. CASE UNCHANGED tcVars
  BY <1>1 DEF tcVars, CacheInv, Tc!TypeOK, Distinct, Rising, Tc!WithinHardLimit
<1>2. ASSUME NEW k \in Entries, Tc!Set(k) \/ Tc!Get(k) \/ Tc!Pop(k)
      PROVE  CacheInv'
  BY <1>2, SetKept, GetKept, PopKept
<1>3. CASE Tc!ExpireNow
  BY <1>3, ExpireNowKept
<1>4. CASE Tc!Tick
  BY <1>4, TickKept
<1> QED
  BY <1>1, <1>2, <1>3, <1>4 DEF Tc!Next

\* ... and loses only what is due.
LEMMA CacheLoses ==
    ASSUME CacheInv, Tc!Next
    PROVE  Tc!LostOnlyWhenDue
<1>1. ASSUME NEW k \in Entries, Tc!Set(k)
      PROVE  Tc!LostOnlyWhenDue
  BY <1>1, SetKept
<1>2. ASSUME NEW k \in Entries, Tc!Get(k)
      PROVE  Tc!LostOnlyWhenDue
  <2>1. Tc!Held \ Tc!Held' = {}
    BY <1>2, GetKept
  <2> QED
    BY <2>1 DEF Tc!LostOnlyWhenDue
<1>3. ASSUME NEW k \in Entries, Tc!Pop(k)
      PROVE  Tc!LostOnlyWhenDue
  <2>1. \A q \in Tc!Held \ Tc!Held' : q = k
    BY <1>3, PopKept
  <2> QED
    BY <1>3, <2>1 DEF Tc!LostOnlyWhenDue
<1>4. CASE Tc!ExpireNow
  BY <1>4, ExpireNowKept DEF Tc!LostOnlyWhenDue
<1>5. CASE Tc!Tick
  <2>1. Tc!Held \ Tc!Held' = {}
    BY <1>5, TickKept
  <2> QED
    BY <2>1 DEF Tc!LostOnlyWhenDue
<1> QED
  BY <1>1, <1>2, <1>3, <1>4, <1>5 DEF Tc!Next

\* What it says.
LEMMA CacheInOrder == CacheInv => Tc!TypeOK /\ Tc!WithinHardLimit /\ Tc!SortedByExpiry
BY DEF CacheInv, Rising, Tc!SortedByExpiry

\* The cache is empty at the start.
LEMMA CacheStart == Init => CacheInv
<1> SUFFICES ASSUME Tc!Init
             PROVE  CacheInv
  BY DEF Init
<1>1. order = <<>> /\ left \in [Entries -> 0 .. Ttl] /\ Hard \in Nat
  BY CacheNumbers DEF Tc!Init
<1>2. raised \in BOOLEAN
  BY Zenon DEF Tc!Init
<1>3. order \in Seq(Entries) /\ DOMAIN order = {} /\ Len(order) = 0
  BY <1>1
<1>4. Tc!TypeOK
  BY <1>1, <1>2, <1>3 DEF Tc!TypeOK, Tc!IsInjective
<1> QED
  BY <1>1, <1>3, <1>4 DEF CacheInv, Distinct, Rising, Tc!WithinHardLimit

\* TTLCache: an OrderedDict of keys, never longer than its hard limit, whatever is set, read, popped and
\* expired.
THEOREM CacheLimited == Spec => [](Tc!TypeOK /\ Tc!WithinHardLimit)
BY CacheStart, CacheStep, CacheKept, CacheInOrder, PTL DEF Spec

\* TTLCache.expire() may stop at the first entry that is not expired, because the entries stand in the order in
\* which they expire; after an insertion nothing expired is left above the soft limit; an entry is not lost
\* before its time, unless a full cache drops its first to take another.
THEOREM ExpiryIsKept == Spec => ExpiryKept
<1>1. CacheInv /\ CacheInv' /\ [Next]_vars => [CacheAction]_tcVars
  <2> SUFFICES ASSUME CacheInv, CacheInv', Tc!Next
               PROVE  CacheAction
    BY CacheStep
  <2>1. Tc!SortedByExpiry'
    BY DEF CacheInv, Rising, Tc!SortedByExpiry
  <2>2. Tc!InsertionCleans
    BY SetKept DEF Tc!InsertionCleans
  <2>3. Tc!LostOnlyWhenDue
    BY CacheLoses
  <2> QED
    BY <2>1, <2>2, <2>3 DEF CacheAction
<1>2. CacheInv /\ [Next]_vars => CacheInv'
  BY CacheStep, CacheKept
<1>3. Spec => [][CacheAction]_tcVars
  BY <1>1, <1>2, CacheStart, PTL DEF Spec
<1> QED
  BY <1>3 DEF ExpiryKept, CacheAction

-----------------------------------------------------------------------------
(***************************************************************************)
(* Waits                                                                   *)
(***************************************************************************)
TaskType ==
    [pc : {"new", "runs", "checks", "over"}, at : Nat, wait : Waiters \cup {None},
     found : SUBSET Nat, owed : SUBSET Waiters]

\* Only the task that runs is running, and a task goes through the list from its first place on.
Started ==
    \A e \in DOMAIN tasks :
        /\ tasks[e].pc = "runs" <=> current = e
        /\ tasks[e].pc # "over" => tasks[e].at >= 1
        /\ tasks[e].pc = "new" => tasks[e].at = 1 /\ tasks[e].found = {}

WaitsTyped == Wa!TypeOK /\ Started

\* A task that has begun and is not over.
Active(e) == tasks[e].pc \in {"runs", "checks"}

\* How far it has come: what it found is behind it, and what it found is what is settled;
\* what it owes is still in front of it.
Progress(e) ==
    /\ tasks[e].found \subseteq 1 .. tasks[e].at - 1
    /\ \A i \in DOMAIN waits :
          IF i \in tasks[e].found THEN future[waits[i]] # "pending" ELSE future[waits[i]] \in {"pending", "cancelled"}
    /\ \A w \in tasks[e].owed : future[w] = "pending" => \E i \in tasks[e].at .. Len(waits) : waits[i] = w
    /\ tasks[e].at <= Len(waits) + 1
    /\ tasks[e].pc = "checks" => /\ tasks[e].at <= Len(waits) /\ tasks[e].wait = waits[tasks[e].at]
                                 /\ future[tasks[e].wait] = "pending"

\* As long as nothing came in between at a check, one task at a time works on a list that
\* holds all that is pending.
InList ==
    /\ missed = {}
    /\ \A w \in Waiters : /\ future[w] = "pending" => w \in Among(waits)
                          /\ future[w] = "none" => w \notin Among(waits)
    /\ Distinct(waits)
    /\ \A e, f \in DOMAIN tasks : Active(e) /\ Active(f) => e = f
    /\ \A e \in DOMAIN tasks : Active(e) => Progress(e)
    /\ (\A e \in DOMAIN tasks : ~Active(e)) => \A i \in DOMAIN waits : future[waits[i]] \in {"pending", "cancelled"}

WaitsInv == WaitsTyped /\ (~overlap => InList)

\* A step of the composition is one of Waits, or changes nothing of it.
LEMMA WaitsStep == [Next]_vars => [Wa!Next]_waVars
BY DEF Next, vars, waVars

\* pop() leaves the entries that are not found, in their order.
LEMMA PoppedIs ==
    ASSUME NEW list \in Seq(Waiters), NEW found
    PROVE  /\ Wa!Popped(list, found) \in Seq(Waiters)
           /\ Among(Wa!Popped(list, found)) = {list[i] : i \in DOMAIN list \ found}
           /\ Distinct(list) => Distinct(Wa!Popped(list, found))
<1>1. Len(list) \in Nat /\ DOMAIN list = 1 .. Len(list) /\ \A i \in DOMAIN list : list[i] \in Waiters
  BY LenProperties, ElementOfSeq
<1>2. PICK S \in SUBSET (1 .. Len(list)) : S = DOMAIN list \ found
  BY <1>1
<1>3. PICK f : f = Wa!Rising(S) /\ Lists(f, S)
  <2>1. \E f : Lists(f, S)
    BY <1>1, ListExists
  <2>2. Wa!Rising(S) = CHOOSE f \in [1 .. Cardinality(S) -> S] : \A i, j \in DOMAIN f : i < j => f[i] < f[j]
    BY Zenon DEF Wa!Rising, Wa!Cardinality, Cardinality
  <2>3. \E f \in [1 .. Cardinality(S) -> S] : \A i, j \in DOMAIN f : i < j => f[i] < f[j]
    BY <2>1 DEF Lists
  <2>4. /\ Wa!Rising(S) \in [1 .. Cardinality(S) -> S]
        /\ \A i, j \in DOMAIN Wa!Rising(S) : i < j => Wa!Rising(S)[i] < Wa!Rising(S)[j]
    BY <2>2, <2>3, Zenon
  <2>5. DOMAIN Wa!Rising(S) = 1 .. Cardinality(S)
    BY <2>4
  <2> QED
    BY <2>4, <2>5, Zenon DEF Lists
<1>4. PICK n \in Nat :
         /\ f \in [1 .. n -> S]
         /\ \A i, j \in 1 .. n : f[i] = f[j] => i = j
         /\ \A v \in S : \E i \in 1 .. n : f[i] = v
  <2>1. Cardinality(S) \in Nat
    BY <1>1, PlacesFinite
  <2>2. f \in [1 .. Cardinality(S) -> S]
    BY <1>3 DEF Lists
  <2>3. PICK m \in Nat : S \in SUBSET (1 .. m)
    BY <1>1
  <2>4. Lists(f, S)
    BY <1>3
  <2>5. /\ \A i, j \in 1 .. Cardinality(S) : f[i] = f[j] => i = j
        /\ \A v \in S : \E i \in 1 .. Cardinality(S) : f[i] = v
    BY SMTT(60), <2>3, <2>4, ListIsWhole
  <2> QED
    BY <2>1, <2>2, <2>5
<1>5. PICK p : p = Wa!Popped(list, found)
  OBVIOUS
<1>6. p = [i \in 1 .. n |-> list[f[i]]]
  <2>1. p = [i \in DOMAIN f |-> list[f[i]]]
    BY <1>2, <1>3, <1>5 DEF Wa!Popped
  <2> QED
    BY <1>4, <2>1
<1>7. DOMAIN p = 1 .. n /\ \A i \in 1 .. n : p[i] = list[f[i]] /\ f[i] \in DOMAIN list /\ f[i] \notin found
  BY <1>2, <1>4, <1>6
<1>8. p \in Seq(Waiters)
  <2>1. p \in [1 .. n -> Waiters]
    BY <1>1, <1>6, <1>7
  <2> QED
    BY <2>1, SeqDef
<1>9. Among(p) = {list[i] : i \in DOMAIN list \ found}
  <2>1. ASSUME NEW v \in Among(p)
        PROVE  v \in {list[i] : i \in DOMAIN list \ found}
    BY <1>7 DEF Among
  <2>2. ASSUME NEW v \in {list[i] : i \in DOMAIN list \ found}
        PROVE  v \in Among(p)
    <3>1. PICK i \in S : v = list[i]
      BY <1>2
    <3>2. PICK j \in 1 .. n : f[j] = i
      BY <1>4
    <3>3. p[j] = v /\ j \in DOMAIN p
      BY <1>7, <3>1, <3>2
    <3> QED
      BY <3>3 DEF Among
  <2> QED
    BY <2>1, <2>2
<1>10. Distinct(list) => Distinct(p)
  BY <1>4, <1>7 DEF Distinct
<1> QED
  BY <1>5, <1>8, <1>9, <1>10

\* One task changes, and the others stay.
LEMMA TaskSet ==
    ASSUME WaitsTyped, NEW e \in DOMAIN tasks, NEW r \in TaskType, tasks' = [tasks EXCEPT ![e] = r]
    PROVE  /\ tasks' \in Seq(TaskType) /\ DOMAIN tasks' = DOMAIN tasks /\ tasks'[e] = r
           /\ \A f \in DOMAIN tasks : f # e => tasks'[f] = tasks[f]
<1>1. tasks \in Seq(TaskType) /\ Len(tasks) \in Nat /\ DOMAIN tasks = 1 .. Len(tasks)
  BY LenProperties DEF WaitsTyped, Wa!TypeOK, TaskType
<1>2. tasks' \in Seq(TaskType)
  BY <1>1, ExceptSeq
<1> QED
  BY <1>1, <1>2

\* A task that goes on with its list ...
LEMMA GoesOnIs ==
    ASSUME WaitsTyped, NEW e \in DOMAIN tasks, NEW to \in Nat, NEW found \in SUBSET Nat, NEW w, Wa!GoesOn(e, to, found, w)
    PROVE  /\ tasks' \in Seq(TaskType) /\ DOMAIN tasks' = DOMAIN tasks
           /\ tasks'[e] = [pc |-> "runs", at |-> to, wait |-> None, found |-> found, owed |-> tasks[e].owed \ {w}]
           /\ \A f \in DOMAIN tasks : f # e => tasks'[f] = tasks[f]
           /\ current' = e /\ missed' = missed
<1>1. tasks \in Seq(TaskType) /\ tasks[e] \in TaskType
  <2>1. tasks \in Seq(TaskType)
    BY DEF WaitsTyped, Wa!TypeOK, TaskType
  <2>2. DOMAIN tasks = 1 .. Len(tasks)
    BY <2>1, LenProperties
  <2> QED
    BY <2>1, <2>2, ElementOfSeq
<1>2. PICK r : r = [pc |-> "runs", at |-> to, wait |-> None, found |-> found, owed |-> tasks[e].owed \ {w}]
  OBVIOUS
<1>3. r \in TaskType
  BY <1>1, <1>2 DEF TaskType
<1>4. tasks' = [tasks EXCEPT ![e] = r]
  <2>1. tasks' = [tasks EXCEPT ![e].pc = "runs", ![e].wait = None, ![e].at = to, ![e].found = found,
                               ![e].owed = @ \ {w}]
    BY DEF Wa!GoesOn
  <2>2. tasks[e] = [pc |-> tasks[e].pc, at |-> tasks[e].at, wait |-> tasks[e].wait, found |-> tasks[e].found,
                    owed |-> tasks[e].owed]
    BY <1>1 DEF TaskType
  <2>3. DOMAIN tasks' = DOMAIN tasks
    BY <2>1
  <2>4. \A f \in DOMAIN tasks : f # e => tasks'[f] = tasks[f]
    BY <2>1
  <2>5. tasks'[e] = r
    BY <1>2, <2>1, <2>2
  <2>6. tasks' \in [DOMAIN tasks -> TaskType]
    <3>1. tasks' = [f \in DOMAIN tasks |-> tasks'[f]]
      BY <2>1
    <3>2. \A f \in DOMAIN tasks : tasks'[f] \in TaskType
      BY <1>1, <1>3, <2>4, <2>5, LenProperties, ElementOfSeq
    <3> QED
      BY <3>1, <3>2
  <2>7. [tasks EXCEPT ![e] = r] = [f \in DOMAIN tasks |-> IF f = e THEN r ELSE tasks[f]]
    OBVIOUS
  <2> QED
    BY <2>4, <2>5, <2>6, <2>7
<1> QED
  BY ZenonT(60), <1>2, <1>3, <1>4, TaskSet DEF Wa!GoesOn

\* ... and one that ends.
LEMMA EndsIs ==
    ASSUME WaitsTyped, NEW e \in DOMAIN tasks, NEW w, Wa!Ends(e, w)
    PROVE  /\ tasks' \in Seq(TaskType) /\ DOMAIN tasks' = DOMAIN tasks
           /\ tasks'[e] = [pc |-> "over", at |-> 0, wait |-> None, found |-> {}, owed |-> {}]
           /\ \A f \in DOMAIN tasks : f # e => tasks'[f] = tasks[f]
           /\ current' = None /\ missed' = missed \cup {v \in tasks[e].owed \ {w} : future[v] = "pending"}
<1>1. PICK r : r = [pc |-> "over", at |-> 0, wait |-> None, found |-> {}, owed |-> {}]
  OBVIOUS
<1>2. r \in TaskType
  BY <1>1 DEF TaskType
<1> QED
  BY <1>1, <1>2, TaskSet DEF Wa!Ends

Futures == [Waiters -> {"none", "pending", "result", "error", "cancelled"}]

\* What the types are made of.
LEMMA WaitsTypes ==
    ASSUME WaitsTyped
    PROVE  /\ waits \in Seq(Waiters) /\ Len(waits) \in Nat /\ DOMAIN waits = 1 .. Len(waits)
           /\ \A i \in DOMAIN waits : waits[i] \in Waiters
           /\ current \in DOMAIN tasks \cup {None} /\ None \notin DOMAIN tasks /\ None \notin Waiters
           /\ slow \subseteq Waiters /\ future \in Futures /\ missed \subseteq Waiters
           /\ tasks \in Seq(TaskType) /\ Len(tasks) \in Nat /\ DOMAIN tasks = 1 .. Len(tasks)
           /\ \A e \in DOMAIN tasks : tasks[e] \in TaskType /\ (tasks[e].pc = "checks" => tasks[e].wait \in slow)
<1>1. /\ waits \in Seq(Waiters) /\ current \in DOMAIN tasks \cup {None} /\ slow \subseteq Waiters
      /\ future \in Futures /\ missed \subseteq Waiters /\ tasks \in Seq(TaskType)
      /\ \A e \in DOMAIN tasks : tasks[e].pc = "checks" => tasks[e].wait \in slow
  BY DEF WaitsTyped, Wa!TypeOK, Wa!Events, Futures, TaskType
<1>2. Len(tasks) \in Nat /\ DOMAIN tasks = 1 .. Len(tasks) /\ \A e \in DOMAIN tasks : tasks[e] \in TaskType
  BY <1>1, LenProperties, ElementOfSeq
<1>3. None \notin Nat /\ None \notin Waiters
  BY WaitsNames DEF Wa!NoneAssumption
<1>4. None \notin DOMAIN tasks
  BY <1>2, <1>3
<1>5. Len(waits) \in Nat /\ DOMAIN waits = 1 .. Len(waits) /\ \A i \in DOMAIN waits : waits[i] \in Waiters
  BY <1>1, LenProperties, ElementOfSeq
<1> QED
  BY <1>1, <1>2, <1>3, <1>4, <1>5

\* The types after a step that goes on, or ends the task.
LEMMA GoesOnTyped ==
    ASSUME WaitsTyped, NEW e \in DOMAIN tasks, current \in {e, None},
           NEW to \in Nat, to >= 1, NEW found \in SUBSET Nat, NEW w, Wa!GoesOn(e, to, found, w),
           future' \in Futures, UNCHANGED <<slow, waits, overlap>>
    PROVE  WaitsTyped'
<1>1. /\ tasks' \in Seq(TaskType) /\ DOMAIN tasks' = DOMAIN tasks
      /\ tasks'[e] = [pc |-> "runs", at |-> to, wait |-> None, found |-> found, owed |-> tasks[e].owed \ {w}]
      /\ \A f \in DOMAIN tasks : f # e => tasks'[f] = tasks[f]
      /\ current' = e /\ missed' = missed
  BY GoesOnIs
<1>2. overlap' \in BOOLEAN
  BY Zenon DEF WaitsTyped, Wa!TypeOK
<1>3. \A f \in DOMAIN tasks' : tasks'[f].pc = "checks" => tasks'[f].wait \in slow'
  BY <1>1, WaitsTypes
<1>4. waits' \in Seq(Waiters) /\ current' \in DOMAIN tasks' \cup {None} /\ slow' \subseteq Waiters /\ missed' \subseteq Waiters
  BY <1>1, WaitsTypes
<1>5. Wa!TypeOK'
  BY Zenon, <1>1, <1>2, <1>3, <1>4 DEF Wa!TypeOK, Wa!Events, Futures, TaskType
<1>6. ASSUME NEW f \in DOMAIN tasks'
      PROVE  /\ tasks'[f].pc = "runs" <=> current' = f
             /\ tasks'[f].pc # "over" => tasks'[f].at >= 1
             /\ tasks'[f].pc = "new" => tasks'[f].at = 1 /\ tasks'[f].found = {}
  <2>1. CASE f = e
    BY <1>1, <2>1
  <2>2. CASE f # e
    BY <1>1, <2>2, WaitsTypes DEF WaitsTyped, Started
  <2> QED
    BY <2>1, <2>2
<1> QED
  BY <1>5, <1>6 DEF WaitsTyped, Started

\* The same for a task that ends.
LEMMA EndsTyped ==
    ASSUME WaitsTyped, NEW e \in DOMAIN tasks, current \in {e, None}, NEW w, Wa!Ends(e, w),
           waits' \in Seq(Waiters), future' \in Futures, UNCHANGED <<slow, overlap>>
    PROVE  WaitsTyped'
<1>1. /\ tasks' \in Seq(TaskType) /\ DOMAIN tasks' = DOMAIN tasks
      /\ tasks'[e] = [pc |-> "over", at |-> 0, wait |-> None, found |-> {}, owed |-> {}]
      /\ \A f \in DOMAIN tasks : f # e => tasks'[f] = tasks[f]
      /\ current' = None /\ missed' = missed \cup {v \in tasks[e].owed \ {w} : future[v] = "pending"}
  BY EndsIs
<1>2. overlap' \in BOOLEAN
  BY Zenon DEF WaitsTyped, Wa!TypeOK
<1>3. \A f \in DOMAIN tasks' : tasks'[f].pc = "checks" => tasks'[f].wait \in slow'
  BY <1>1, WaitsTypes
<1>4. current' \in DOMAIN tasks' \cup {None} /\ slow' \subseteq Waiters /\ missed' \subseteq Waiters
  <2>1. tasks[e].owed \subseteq Waiters
    BY WaitsTypes DEF TaskType
  <2> QED
    BY <1>1, <2>1, WaitsTypes
<1>5. Wa!TypeOK'
  BY Zenon, <1>1, <1>2, <1>3, <1>4 DEF Wa!TypeOK, Wa!Events, Futures, TaskType
<1>6. ASSUME NEW f \in DOMAIN tasks'
      PROVE  /\ tasks'[f].pc = "runs" <=> current' = f
             /\ tasks'[f].pc # "over" => tasks'[f].at >= 1
             /\ tasks'[f].pc = "new" => tasks'[f].at = 1 /\ tasks'[f].found = {}
  <2>1. CASE f = e
    BY <1>1, <2>1, WaitsTypes
  <2>2. CASE f # e
    BY <1>1, <2>2, WaitsTypes DEF WaitsTyped, Started
  <2> QED
    BY <2>1, <2>2
<1> QED
  BY <1>5, <1>6 DEF WaitsTyped, Started

\* The same in one word.
WentOn(e, to, found, w) ==
    /\ DOMAIN tasks' = DOMAIN tasks
    /\ tasks'[e] = [pc |-> "runs", at |-> to, wait |-> None, found |-> found, owed |-> tasks[e].owed \ {w}]
    /\ \A f \in DOMAIN tasks : f # e => tasks'[f] = tasks[f]
    /\ missed' = missed

LEMMA GoesOnWent ==
    ASSUME WaitsTyped, NEW e \in DOMAIN tasks, NEW to \in Nat, NEW found \in SUBSET Nat, NEW w, Wa!GoesOn(e, to, found, w)
    PROVE  WentOn(e, to, found, w)
  BY GoesOnIs DEF WentOn

\* The task has dealt with the entry it was at, which keeps its place; what it found is settled.
LEMMA GoesOnInList ==
    ASSUME WaitsTyped, InList, NEW e \in DOMAIN tasks, Active(e), NEW k \in DOMAIN waits, k = tasks[e].at,
           NEW found \in SUBSET Nat, Wa!GoesOn(e, k + 1, found, waits[k]), waits' = waits,
           found \ {k} = tasks[e].found \ {k},
           \A v \in Waiters : v # waits[k] => future'[v] = future[v],
           future'[waits[k]] \in (IF k \in found THEN {"result", "error", "cancelled"} ELSE {"pending", "cancelled"}),
           future[waits[k]] # "none"
    PROVE  InList'
<1>1. /\ DOMAIN tasks' = DOMAIN tasks
      /\ tasks'[e] = [pc |-> "runs", at |-> k + 1, wait |-> None, found |-> found, owed |-> tasks[e].owed \ {waits[k]}]
      /\ \A f \in DOMAIN tasks : f # e => tasks'[f] = tasks[f]
      /\ missed' = missed
  <2>1. k + 1 \in Nat
    BY WaitsTypes
  <2>2. WentOn(e, k + 1, found, waits[k])
    BY <2>1, GoesOnWent, ZenonT(60)
  <2> QED
    BY <2>2 DEF WentOn
<1>2. /\ Len(waits) \in Nat /\ DOMAIN waits = 1 .. Len(waits) /\ \A i \in DOMAIN waits : waits[i] \in Waiters
      /\ tasks[e].owed \subseteq Waiters
  BY WaitsTypes DEF TaskType
<1>3. \A f \in DOMAIN tasks : f # e => ~Active(f)
  BY DEF InList
<1>4. Active(e)' /\ \A f \in DOMAIN tasks' : f # e => ~Active(f)'
  BY <1>1, <1>3 DEF Active
<1>5. Progress(e)
  BY DEF InList
<1>6. \A i \in DOMAIN waits : i # k => waits[i] # waits[k] /\ future'[waits[i]] = future[waits[i]]
  BY <1>2 DEF InList, Distinct
<1>7. Progress(e)'
  <2>1. tasks'[e].found \subseteq 1 .. tasks'[e].at - 1
    <3>1. \A i \in found : i = k \/ i \in 1 .. k - 1
      BY <1>5 DEF Progress
    <3> QED
      BY <1>1, <1>2, <3>1
  <2>2. ASSUME NEW i \in DOMAIN waits
        PROVE  IF i \in found THEN future'[waits[i]] # "pending" ELSE future'[waits[i]] \in {"pending", "cancelled"}
    <3>1. CASE i = k
      BY <3>1
    <3>2. CASE i # k
      <4>1. i \in found <=> i \in tasks[e].found
        BY <3>2
      <4> QED
        BY <1>5, <1>6, <3>2, <4>1 DEF Progress
    <3> QED
      BY <3>1, <3>2
  <2>3. ASSUME NEW v \in tasks[e].owed \ {waits[k]}, future'[v] = "pending"
        PROVE  \E i \in k + 1 .. Len(waits) : waits[i] = v
    <3>1. v \in Waiters /\ future[v] = "pending"
      BY <1>2, <2>3
    <3>2. PICK i \in k .. Len(waits) : waits[i] = v
      BY <1>5, <3>1 DEF Progress
    <3>3. i # k
      BY <2>3, <3>2
    <3> QED
      BY <1>2, <3>2, <3>3
  <2>4. tasks'[e].at <= Len(waits) + 1 /\ tasks'[e].pc # "checks"
    BY <1>1, <1>2
  <2> QED
    BY <1>1, <2>1, <2>2, <2>3, <2>4 DEF Progress
<1>8. ASSUME NEW v \in Waiters
      PROVE  (future'[v] = "pending" => v \in Among(waits)) /\ (future'[v] = "none" => v \notin Among(waits))
  <2>1. CASE v = waits[k]
    BY <2>1 DEF Among
  <2>2. CASE v # waits[k]
    BY <2>2 DEF InList
  <2> QED
    BY <2>1, <2>2
<1>9. Among(waits') = Among(waits) /\ Distinct(waits') /\ missed' = {}
  BY <1>1 DEF InList
<1>10. \A f, g \in DOMAIN tasks' : Active(f)' /\ Active(g)' => f = g
  BY <1>4
<1>11. \A f \in DOMAIN tasks' : Active(f)' => Progress(f)'
  BY <1>4, <1>7
<1> QED
  BY <1>1, <1>4, <1>8, <1>9, <1>10, <1>11 DEF InList

\* A task that is given a new record.
LEMMA TaskGets ==
    ASSUME WaitsTyped, NEW e \in DOMAIN tasks, NEW r \in TaskType,
           tasks' = [f \in DOMAIN tasks |-> tasks'[f]], tasks'[e] = r,
           \A f \in DOMAIN tasks : f # e => tasks'[f] = tasks[f]
    PROVE  tasks' \in Seq(TaskType) /\ DOMAIN tasks' = DOMAIN tasks
<1>1. \A f \in DOMAIN tasks : tasks'[f] \in TaskType
  BY WaitsTypes
<1>2. tasks' \in [DOMAIN tasks -> TaskType] /\ Len(tasks) \in Nat /\ DOMAIN tasks = 1 .. Len(tasks)
  BY <1>1, WaitsTypes
<1>3. tasks' \in Seq(TaskType)
  BY <1>2, SeqDef
<1> QED
  BY <1>2, <1>3

\* A new wait is put at the end of the list, where the task that is at work has yet to come.
LEMMA WaitForKept ==
    ASSUME WaitsInv, NEW w \in Waiters, Wa!wait_for(w)
    PROVE  WaitsInv'
<1>1. /\ current = None /\ future[w] = "none" /\ future' = [future EXCEPT ![w] = "pending"]
      /\ waits' = Append(waits, w) /\ slow' = slow /\ tasks' = tasks /\ current' = current /\ missed' = missed
  BY DEF Wa!wait_for
<1>2. overlap' = overlap /\ overlap' \in BOOLEAN
  BY Zenon DEF Wa!wait_for, WaitsInv, WaitsTyped, Wa!TypeOK
<1>3. WaitsTyped
  BY DEF WaitsInv
<1>4. /\ waits \in Seq(Waiters) /\ Len(waits) \in Nat /\ DOMAIN waits = 1 .. Len(waits) /\ future \in Futures
      /\ \A i \in DOMAIN waits : waits[i] \in Waiters
      /\ tasks \in Seq(TaskType) /\ slow \subseteq Waiters /\ missed \subseteq Waiters
      /\ \A e \in DOMAIN tasks : tasks[e] \in TaskType /\ (tasks[e].pc = "checks" => tasks[e].wait \in slow)
  BY <1>3, WaitsTypes
<1>5. /\ waits' \in Seq(Waiters) /\ Len(waits') = Len(waits) + 1 /\ DOMAIN waits' = 1 .. Len(waits) + 1
      /\ \A i \in DOMAIN waits : waits'[i] = waits[i]
      /\ waits'[Len(waits) + 1] = w
      /\ future' \in Futures /\ future'[w] = "pending" /\ \A v \in Waiters : v # w => future'[v] = future[v]
  BY <1>1, <1>4 DEF Futures
<1>6. WaitsTyped'
  <2>1. /\ waits' \in Seq(Waiters) /\ current' \in DOMAIN tasks' \cup {None} /\ slow' \subseteq Waiters
        /\ future' \in Futures /\ missed' \subseteq Waiters /\ tasks' \in Seq(TaskType)
        /\ \A e \in DOMAIN tasks' : tasks'[e].pc = "checks" => tasks'[e].wait \in slow'
    BY <1>1, <1>4, <1>5
  <2>2. Wa!TypeOK'
    BY Zenon, <1>2, <2>1 DEF Wa!TypeOK, Wa!Events, Futures, TaskType
  <2> QED
    BY <1>1, <1>3, <2>2 DEF WaitsTyped, Started
<1>7. ASSUME InList
      PROVE  InList'
  <2>1. w \notin Among(waits)
    BY <1>1, <1>7 DEF InList
  <2>2. \A i \in DOMAIN waits : waits[i] # w /\ future'[waits[i]] = future[waits[i]]
    BY <1>4, <1>5, <2>1 DEF Among
  <2>3. Among(waits') = Among(waits) \cup {w}
    <3>1. ASSUME NEW v
          PROVE  v \in Among(waits') <=> v \in Among(waits) \cup {w}
      BY <1>4, <1>5 DEF Among
    <3> QED
      BY <3>1
  <2>4. \A v \in Waiters : /\ future'[v] = "pending" => v \in Among(waits')
                           /\ future'[v] = "none" => v \notin Among(waits')
    BY <1>5, <1>7, <2>3 DEF InList
  <2>5. Distinct(waits')
    <3>1. Distinct(waits)
      BY <1>7 DEF InList
    <3> QED
      BY <1>4, <1>5, <2>2, <3>1 DEF Distinct
  <2>6. ASSUME NEW e \in DOMAIN tasks, Active(e)
        PROVE  Progress(e)'
    <3>1. Progress(e) /\ tasks[e] \in TaskType
      BY <1>4, <1>7, <2>6 DEF InList
    <3>2. tasks[e].at \in Nat /\ tasks[e].owed \subseteq Waiters /\ tasks[e].found \subseteq 1 .. tasks[e].at - 1
      BY <3>1 DEF TaskType, Progress
    <3>3. \A i \in DOMAIN waits' :
            IF i \in tasks[e].found THEN future'[waits'[i]] # "pending" ELSE future'[waits'[i]] \in {"pending", "cancelled"}
      <4>1. ASSUME NEW i \in DOMAIN waits'
            PROVE  IF i \in tasks[e].found THEN future'[waits'[i]] # "pending"
                                           ELSE future'[waits'[i]] \in {"pending", "cancelled"}
        <5>1. CASE i \in DOMAIN waits
          BY <1>5, <2>2, <3>1, <5>1 DEF Progress
        <5>2. CASE i = Len(waits) + 1
          <6>1. tasks[e].at <= Len(waits) + 1
            BY <3>1 DEF Progress
          <6>2. i \notin tasks[e].found
            BY <1>4, <3>2, <5>2, <6>1
          <6> QED
            BY <1>5, <5>2, <6>2
        <5> QED
          BY <1>4, <1>5, <5>1, <5>2
      <4> QED
        BY <4>1
    <3>4. ASSUME NEW v \in tasks[e].owed, future'[v] = "pending"
          PROVE  \E i \in tasks[e].at .. Len(waits') : waits'[i] = v
      <4>1. CASE v = w
        <5>1. tasks[e].at <= Len(waits) + 1
          BY <3>1 DEF Progress
        <5>2. Len(waits) + 1 \in tasks[e].at .. Len(waits')
          BY <1>4, <1>5, <3>2, <5>1
        <5> QED
          BY <1>5, <4>1, <5>2
      <4>2. CASE v # w
        <5>1. PICK i \in tasks[e].at .. Len(waits) : waits[i] = v
          BY <1>5, <3>1, <3>2, <3>4, <4>2 DEF Progress
        <5>2. tasks[e].at >= 1
          BY <1>3, <2>6 DEF WaitsTyped, Started, Active
        <5>3. i \in DOMAIN waits /\ i \in tasks[e].at .. Len(waits')
          BY <1>4, <1>5, <3>2, <5>1, <5>2
        <5> QED
          BY <1>5, <5>1, <5>3
      <4> QED
        BY <4>1, <4>2
    <3>5. tasks[e].at <= Len(waits') + 1
      BY <1>4, <1>5, <3>1, <3>2 DEF Progress
    <3>6. ASSUME tasks[e].pc = "checks"
          PROVE  /\ tasks[e].at <= Len(waits') /\ tasks[e].wait = waits'[tasks[e].at]
                 /\ future'[tasks[e].wait] = "pending"
      <4>1. tasks[e].at <= Len(waits) /\ tasks[e].wait = waits[tasks[e].at] /\ future[tasks[e].wait] = "pending"
        BY <3>1, <3>6 DEF Progress
      <4>2. tasks[e].at \in DOMAIN waits
        BY <1>3, <1>4, <2>6, <3>2, <4>1 DEF WaitsTyped, Started, Active
      <4> QED
        BY <1>4, <1>5, <2>2, <3>2, <4>1, <4>2
    <3> QED
      BY <1>1, <3>2, <3>3, <3>4, <3>5, <3>6 DEF Progress
  <2>7. \A e \in DOMAIN tasks : Active(e)' <=> Active(e)
    BY <1>1 DEF Active
  <2>8. ASSUME \A e \in DOMAIN tasks : ~Active(e)
        PROVE  \A i \in DOMAIN waits' : future'[waits'[i]] \in {"pending", "cancelled"}
    <3>1. \A i \in DOMAIN waits : future[waits[i]] \in {"pending", "cancelled"}
      BY <1>7, <2>8 DEF InList
    <3> QED
      BY <1>4, <1>5, <2>2, <3>1
  <2>9. missed' = {} /\ \A e, f \in DOMAIN tasks : Active(e) /\ Active(f) => e = f
    BY <1>1, <1>7 DEF InList
  <2> QED
    BY <1>1, <2>4, <2>5, <2>6, <2>7, <2>8, <2>9 DEF InList
<1> QED
  BY <1>2, <1>6, <1>7 DEF WaitsInv

\* A new task has not begun.
LEMMA DispatchKept ==
    ASSUME WaitsInv, Wa!dispatch
    PROVE  WaitsInv'
<1>1. PICK r : r = [pc |-> "new", at |-> 1, wait |-> None, found |-> {}, owed |-> {}]
  OBVIOUS
<1>2. /\ tasks' = Append(tasks, r) /\ slow' = slow /\ waits' = waits /\ future' = future /\ current' = current
      /\ missed' = missed /\ current = None
  BY <1>1 DEF Wa!dispatch
<1>3. overlap' = overlap /\ overlap' \in BOOLEAN
  BY Zenon DEF Wa!dispatch, WaitsInv, WaitsTyped, Wa!TypeOK
<1>4. WaitsTyped /\ r \in TaskType
  BY <1>1 DEF WaitsInv, TaskType
<1>5. /\ tasks \in Seq(TaskType) /\ Len(tasks) \in Nat /\ DOMAIN tasks = 1 .. Len(tasks)
      /\ None \notin Nat
      /\ \A e \in DOMAIN tasks : tasks[e].pc = "checks" => tasks[e].wait \in slow
  BY <1>4, WaitsTypes, WaitsNames DEF Wa!NoneAssumption
<1>6. /\ tasks' \in Seq(TaskType) /\ DOMAIN tasks' = 1 .. Len(tasks) + 1 /\ tasks'[Len(tasks) + 1] = r
      /\ \A e \in DOMAIN tasks : e \in DOMAIN tasks' /\ tasks'[e] = tasks[e]
      /\ \A e \in DOMAIN tasks' : e \in DOMAIN tasks \/ e = Len(tasks) + 1
  BY <1>2, <1>4, <1>5
<1>7. WaitsTyped'
  <2>1. /\ waits' \in Seq(Waiters) /\ current' \in DOMAIN tasks' \cup {None} /\ slow' \subseteq Waiters
        /\ future' \in Futures /\ missed' \subseteq Waiters
    BY <1>2, <1>4, WaitsTypes
  <2>2. \A e \in DOMAIN tasks' : tasks'[e].pc = "checks" => tasks'[e].wait \in slow'
    BY <1>1, <1>2, <1>5, <1>6
  <2>3. Wa!TypeOK'
    BY Zenon, <1>3, <1>6, <2>1, <2>2 DEF Wa!TypeOK, Wa!Events, Futures, TaskType
  <2>4. ASSUME NEW e \in DOMAIN tasks'
        PROVE  /\ tasks'[e].pc = "runs" <=> current' = e
               /\ tasks'[e].pc # "over" => tasks'[e].at >= 1
               /\ tasks'[e].pc = "new" => tasks'[e].at = 1 /\ tasks'[e].found = {}
    <3>1. CASE e \in DOMAIN tasks
      BY <1>2, <1>4, <1>6, <3>1 DEF WaitsTyped, Started
    <3>2. CASE e = Len(tasks) + 1
      BY <1>1, <1>2, <1>5, <1>6, <3>2
    <3> QED
      BY <1>6, <3>1, <3>2
  <2> QED
    BY <2>3, <2>4 DEF WaitsTyped, Started
<1>8. ASSUME InList
      PROVE  InList'
  <2>1. /\ \A e \in DOMAIN tasks : Active(e)' <=> Active(e)
        /\ \A e \in DOMAIN tasks' : Active(e)' => e \in DOMAIN tasks
    BY <1>1, <1>6 DEF Active
  <2>2. \A e \in DOMAIN tasks : Progress(e) => Progress(e)'
    BY <1>2, <1>6 DEF Progress
  <2>3. \A e, f \in DOMAIN tasks' : Active(e)' /\ Active(f)' => e = f
    BY <1>8, <2>1 DEF InList
  <2>4. \A e \in DOMAIN tasks' : Active(e)' => Progress(e)'
    BY <1>8, <2>1, <2>2 DEF InList
  <2>5. (\A e \in DOMAIN tasks' : ~Active(e)') => \A e \in DOMAIN tasks : ~Active(e)
    BY <1>6, <2>1
  <2> QED
    BY <1>2, <1>8, <2>3, <2>4, <2>5 DEF InList
<1> QED
  BY <1>3, <1>7, <1>8 DEF WaitsInv

\* A wait that times out keeps its place until a task finds it.
LEMMA TimesOutKept ==
    ASSUME WaitsInv, NEW w \in Waiters, Wa!TimesOut(w)
    PROVE  WaitsInv'
<1>1. /\ current = None /\ future[w] = "pending" /\ future' = [future EXCEPT ![w] = "cancelled"]
      /\ UNCHANGED <<slow, waits, tasks, current, missed>>
  BY DEF Wa!TimesOut
<1>2. /\ overlap' \in BOOLEAN
      /\ ~overlap' => ~overlap /\ \A e \in DOMAIN tasks : tasks[e].pc = "checks" => tasks[e].wait # w
  <2>1. overlap' = (overlap \/ \E e \in Wa!Under("checks") : tasks[e].wait = w)
    BY Zenon DEF Wa!TimesOut
  <2>2. overlap \in BOOLEAN
    BY Zenon DEF WaitsInv, WaitsTyped, Wa!TypeOK
  <2>3. overlap' \in BOOLEAN
    BY Zenon, <2>1, <2>2
  <2> QED
    BY Zenon, <2>1, <2>3 DEF Wa!Under, Wa!Events
<1>3. WaitsTyped
  BY DEF WaitsInv
<1>4. future' \in Futures /\ future'[w] = "cancelled" /\ \A v \in Waiters : v # w => future'[v] = future[v]
  BY <1>1, <1>3, WaitsTypes DEF Futures
<1>5. WaitsTyped'
  <2>1. /\ waits' \in Seq(Waiters) /\ current' \in DOMAIN tasks' \cup {None} /\ slow' \subseteq Waiters
        /\ missed' \subseteq Waiters /\ tasks' \in Seq(TaskType)
        /\ \A e \in DOMAIN tasks' : tasks'[e].pc = "checks" => tasks'[e].wait \in slow'
    BY <1>1, <1>3, WaitsTypes
  <2>2. Wa!TypeOK'
    BY Zenon, <1>2, <1>4, <2>1 DEF Wa!TypeOK, Wa!Events, Futures, TaskType
  <2> QED
    BY <1>1, <1>3, <2>2 DEF WaitsTyped, Started
<1>6. ASSUME ~overlap'
      PROVE  InList'
  <2>1. InList
    BY <1>2, <1>6 DEF WaitsInv
  <2>2. \A i \in DOMAIN waits : waits[i] \in Waiters
    BY <1>3, WaitsTypes
  <2>3. \A v \in Waiters : /\ future'[v] = "pending" => future[v] = "pending"
                           /\ future[v] \in {"pending", "cancelled"} => future'[v] \in {"pending", "cancelled"}
                           /\ future'[v] = "none" => future[v] = "none"
    BY <1>1, <1>4
  <2>4. ASSUME NEW e \in DOMAIN tasks, Active(e)
        PROVE  Progress(e)'
    <3>1. Progress(e) /\ tasks[e].owed \subseteq Waiters
      BY <1>3, <2>1, <2>4, WaitsTypes DEF InList, TaskType
    <3>2. \A i \in DOMAIN waits :
            IF i \in tasks[e].found THEN future'[waits[i]] # "pending" ELSE future'[waits[i]] \in {"pending", "cancelled"}
      BY <2>2, <2>3, <3>1 DEF Progress
    <3>3. \A v \in tasks[e].owed : future'[v] = "pending" => \E i \in tasks[e].at .. Len(waits) : waits[i] = v
      BY <2>3, <3>1 DEF Progress
    <3>4. tasks[e].pc = "checks" => future'[tasks[e].wait] = "pending"
      BY <1>2, <1>3, <1>4, <1>6, <3>1, WaitsTypes DEF Progress
    <3> QED
      BY <1>1, <3>1, <3>2, <3>3, <3>4 DEF Progress
  <2>5. \A e \in DOMAIN tasks : Active(e)' <=> Active(e)
    BY <1>1 DEF Active
  <2>6. \A v \in Waiters : /\ future'[v] = "pending" => v \in Among(waits)
                           /\ future'[v] = "none" => v \notin Among(waits)
    BY <2>1, <2>3 DEF InList
  <2>7. (\A e \in DOMAIN tasks : ~Active(e)) => \A i \in DOMAIN waits : future'[waits[i]] \in {"pending", "cancelled"}
    BY <2>1, <2>2, <2>3 DEF InList
  <2> QED
    BY <1>1, <2>1, <2>4, <2>5, <2>6, <2>7 DEF InList
<1> QED
  BY <1>5, <1>6 DEF WaitsInv

\* A task begins at the start of the list, when no other one is at work.
LEMMA BeginsKept ==
    ASSUME WaitsInv, NEW e \in DOMAIN tasks, Wa!Begins(e)
    PROVE  WaitsInv'
<1>1. /\ current = None /\ tasks[e].pc = "new" /\ current' = e
      /\ UNCHANGED <<slow, waits, future, missed>>
  BY DEF Wa!Begins
<1>2. /\ overlap' \in BOOLEAN
      /\ ~overlap' => ~overlap /\ \A f \in DOMAIN tasks : tasks[f].pc # "checks"
  <2>1. overlap' = (overlap \/ Wa!Under("checks") # {})
    BY Zenon DEF Wa!Begins
  <2>2. overlap \in BOOLEAN
    BY Zenon DEF WaitsInv, WaitsTyped, Wa!TypeOK
  <2>3. overlap' \in BOOLEAN
    BY Zenon, <2>1, <2>2
  <2> QED
    BY Zenon, <2>1, <2>3 DEF Wa!Under, Wa!Events
<1>3. WaitsTyped
  BY DEF WaitsInv
<1>4. /\ Len(waits) \in Nat /\ DOMAIN waits = 1 .. Len(waits) /\ \A i \in DOMAIN waits : waits[i] \in Waiters
      /\ tasks[e] \in TaskType /\ tasks[e].at = 1 /\ tasks[e].found = {} /\ None \notin DOMAIN tasks
  BY <1>1, <1>3, WaitsTypes DEF WaitsTyped, Started
<1>5. PICK q : q = {w \in Tc!ToSet(waits) : future[w] = "pending"}
  OBVIOUS
<1>6. q \subseteq Waiters /\ \A w \in q : w \in Among(waits)
  BY <1>4, <1>5 DEF Tc!ToSet, Among
<1>7. PICK r : r = [pc |-> "runs", at |-> 1, wait |-> tasks[e].wait, found |-> {}, owed |-> q]
  OBVIOUS
<1>8. r \in TaskType
  BY <1>4, <1>6, <1>7 DEF TaskType
<1>9. /\ tasks' \in Seq(TaskType) /\ DOMAIN tasks' = DOMAIN tasks /\ tasks'[e] = r
      /\ \A f \in DOMAIN tasks : f # e => tasks'[f] = tasks[f]
  <2>1. tasks' = [tasks EXCEPT ![e].pc = "runs", ![e].owed = q]
    BY <1>5 DEF Wa!Begins, Wa!ToSet, Tc!ToSet
  <2>2. tasks[e] = [pc |-> tasks[e].pc, at |-> tasks[e].at, wait |-> tasks[e].wait, found |-> tasks[e].found,
                    owed |-> tasks[e].owed]
    BY <1>4 DEF TaskType
  <2>3. tasks'[e] = r
    BY <1>4, <1>7, <2>1, <2>2
  <2>4. \A f \in DOMAIN tasks : f # e => tasks'[f] = tasks[f]
    BY <2>1
  <2>5. tasks' = [f \in DOMAIN tasks |-> tasks'[f]]
    BY <2>1
  <2> QED
    BY <1>3, <1>8, <2>3, <2>4, <2>5, TaskGets
<1>10. WaitsTyped'
  <2>1. /\ waits' \in Seq(Waiters) /\ current' \in DOMAIN tasks' \cup {None} /\ slow' \subseteq Waiters
        /\ missed' \subseteq Waiters /\ future' \in Futures
    BY <1>1, <1>3, <1>9, WaitsTypes
  <2>2. \A f \in DOMAIN tasks' : tasks'[f].pc = "checks" => tasks'[f].wait \in slow'
    BY <1>1, <1>3, <1>7, <1>9, WaitsTypes
  <2>3. Wa!TypeOK'
    BY Zenon, <1>2, <1>9, <2>1, <2>2 DEF Wa!TypeOK, Wa!Events, Futures, TaskType
  <2>4. ASSUME NEW f \in DOMAIN tasks'
        PROVE  /\ tasks'[f].pc = "runs" <=> current' = f
               /\ tasks'[f].pc # "over" => tasks'[f].at >= 1
               /\ tasks'[f].pc = "new" => tasks'[f].at = 1 /\ tasks'[f].found = {}
    <3>1. CASE f = e
      BY <1>1, <1>7, <1>9, <3>1
    <3>2. CASE f # e
      BY <1>1, <1>3, <1>4, <1>9, <3>2 DEF WaitsTyped, Started
    <3> QED
      BY <3>1, <3>2
  <2> QED
    BY <2>3, <2>4 DEF WaitsTyped, Started
<1>11. ASSUME ~overlap'
       PROVE  InList'
  <2>1. InList /\ \A f \in DOMAIN tasks : ~Active(f)
    BY <1>1, <1>2, <1>3, <1>4, <1>11 DEF WaitsInv, WaitsTyped, Started, Active
  <2>2. Active(e)' /\ \A f \in DOMAIN tasks : f # e => ~Active(f)'
    BY <1>7, <1>9, <2>1 DEF Active
  <2>3. \A w \in q : \E i \in 1 .. Len(waits) : waits[i] = w
    BY <1>4, <1>6 DEF Among
  <2>4. \A i \in DOMAIN waits : future[waits[i]] \in {"pending", "cancelled"}
    BY <2>1 DEF InList
  <2>5. Progress(e)'
    <3>1. /\ tasks'[e].found \subseteq 1 .. tasks'[e].at - 1
          /\ \A w \in tasks'[e].owed : \E i \in tasks'[e].at .. Len(waits) : waits[i] = w
          /\ tasks'[e].at <= Len(waits) + 1 /\ tasks'[e].pc # "checks"
          /\ \A i \in DOMAIN waits : i \notin tasks'[e].found
      BY <1>4, <1>7, <1>9, <2>3
    <3> QED
      BY <1>1, <2>4, <3>1 DEF Progress
  <2> QED
    BY <1>1, <1>9, <2>1, <2>2, <2>5 DEF InList
<1> QED
  BY <1>10, <1>11 DEF WaitsInv

\* The check of wait w has ended.
LEMMA CheckedKept ==
    ASSUME WaitsInv, NEW e \in DOMAIN tasks, Active(e), current \in {e, None}, NEW w \in Waiters, Wa!Checked(e, w),
           UNCHANGED <<slow, waits, overlap>>,
           ~overlap => tasks[e].at \in DOMAIN waits /\ w = waits[tasks[e].at] /\ future[w] = "pending"
    PROVE  WaitsInv'
<1>1. WaitsTyped /\ future \in Futures
  BY WaitsTypes DEF WaitsInv
<1>2. PICK k \in Nat : k = tasks[e].at /\ k + 1 \in Nat /\ k + 1 >= 1
  BY <1>1, WaitsTypes DEF TaskType
<1>3. /\ tasks[e].found \in SUBSET Nat /\ tasks[e].found \cup {k} \in SUBSET Nat
      /\ ~overlap => k \notin tasks[e].found
  <2>1. tasks[e].found \in SUBSET Nat
    BY <1>1, WaitsTypes DEF TaskType
  <2>2. ~overlap => tasks[e].found \subseteq 1 .. k - 1
    BY <1>2 DEF WaitsInv, InList, Progress
  <2> QED
    BY <1>2, <2>1, <2>2
<1>4. CASE /\ future[w] = "pending"
           /\ \E outcome \in {"result", "error"} : future' = [future EXCEPT ![w] = outcome]
           /\ Wa!GoesOn(e, k + 1, tasks[e].found \cup {k}, w)
  <2>1. /\ future' \in Futures /\ future'[w] \in {"result", "error"}
        /\ \A v \in Waiters : v # w => future'[v] = future[v]
    BY <1>1, <1>4 DEF Futures
  <2>2. WaitsTyped'
    BY <1>1, <1>2, <1>3, <1>4, <2>1, GoesOnTyped
  <2>3. ASSUME ~overlap
        PROVE  InList'
    <3>1. /\ InList /\ k \in DOMAIN waits /\ w = waits[k] /\ waits' = waits
          /\ (tasks[e].found \cup {k}) \ {k} = tasks[e].found \ {k} /\ k \in tasks[e].found \cup {k}
      BY <1>2, <2>3 DEF WaitsInv
    <3> QED
      BY <1>1, <1>2, <1>3, <1>4, <2>1, <3>1, GoesOnInList
  <2> QED
    BY <2>2, <2>3 DEF WaitsInv
<1>5. CASE future[w] # "pending" /\ Wa!Ends(e, w) /\ UNCHANGED future
  <2>1. WaitsTyped'
    BY <1>1, <1>5, EndsTyped, WaitsTypes
  <2> QED
    BY <1>5, <2>1 DEF WaitsInv
<1>6. CASE Wa!GoesOn(e, k + 1, tasks[e].found, w) /\ UNCHANGED future
  <2>1. WaitsTyped'
    BY <1>1, <1>2, <1>3, <1>6, GoesOnTyped
  <2>2. ASSUME ~overlap
        PROVE  InList'
    <3>1. InList /\ k \in DOMAIN waits /\ w = waits[k] /\ waits' = waits /\ future[w] = "pending" /\ k \notin tasks[e].found
      BY <1>2, <1>3, <2>2 DEF WaitsInv
    <3> QED
      BY <1>1, <1>2, <1>3, <1>6, <3>1, GoesOnInList
  <2> QED
    BY <2>1, <2>2 DEF WaitsInv
<1> QED
  BY <1>2, <1>4, <1>5, <1>6 DEF Wa!Checked, Wa!Settles

\* The next wait of the list.
LEMMA LooksKept ==
    ASSUME WaitsInv, NEW e \in DOMAIN tasks, Wa!Looks(e)
    PROVE  WaitsInv'
<1>1. WaitsTyped /\ future \in Futures /\ current = e /\ UNCHANGED <<slow, waits, overlap>>
  BY WaitsTypes DEF WaitsInv, Wa!Looks
<1>2. tasks[e].pc = "runs" /\ Active(e)
  BY <1>1 DEF WaitsTyped, Started, Active
<1>3. PICK k \in DOMAIN waits : k = tasks[e].at /\ k \in Nat /\ k >= 1 /\ k + 1 \in Nat /\ k + 1 >= 1
  <2>1. tasks[e].at <= Len(waits) /\ tasks[e].at >= 1 /\ tasks[e].at \in Nat
    BY <1>1, <1>2, WaitsTypes DEF Wa!Looks, WaitsTyped, Started, TaskType
  <2> QED
    BY <1>1, <2>1, WaitsTypes
<1>4. PICK w \in Waiters : w = waits[k]
  BY <1>1, WaitsTypes
<1>5. /\ tasks[e].found \in SUBSET Nat /\ tasks[e].found \cup {k} \in SUBSET Nat
      /\ ~overlap => InList /\ Progress(e) /\ k \notin tasks[e].found
  <2>1. tasks[e].found \in SUBSET Nat
    BY <1>1, WaitsTypes DEF TaskType
  <2>2. ~overlap => InList /\ Progress(e)
    BY <1>2 DEF WaitsInv, InList
  <2>3. ~overlap => tasks[e].found \subseteq 1 .. k - 1
    BY <1>3, <2>2 DEF Progress
  <2> QED
    BY <1>3, <2>1, <2>2, <2>3
<1>6. ~overlap => future[w] \in {"pending", "cancelled"}
  BY <1>3, <1>4, <1>5 DEF Progress
<1>7. CASE future[w] = "cancelled" /\ Wa!GoesOn(e, k + 1, tasks[e].found \cup {k}, w) /\ UNCHANGED future
  <2>1. WaitsTyped'
    BY <1>1, <1>3, <1>5, <1>7, GoesOnTyped
  <2>2. ASSUME ~overlap
        PROVE  InList'
    <3>1. /\ InList /\ w = waits[k] /\ waits' = waits
          /\ (tasks[e].found \cup {k}) \ {k} = tasks[e].found \ {k} /\ k \in tasks[e].found \cup {k}
      BY <1>1, <1>4, <1>5, <2>2
    <3> QED
      BY <1>1, <1>2, <1>3, <1>5, <1>7, <3>1, GoesOnInList
  <2> QED
    BY <1>1, <2>1, <2>2 DEF WaitsInv
<1>8. CASE /\ future[w] # "cancelled" /\ w \in slow
           /\ tasks' = [tasks EXCEPT ![e].pc = "checks", ![e].wait = w]
           /\ current' = None /\ UNCHANGED <<future, missed>>
  <2>1. PICK r : r = [pc |-> "checks", at |-> k, wait |-> w, found |-> tasks[e].found, owed |-> tasks[e].owed]
    OBVIOUS
  <2>2. tasks[e] \in TaskType /\ r \in TaskType
    BY <1>1, <1>3, <1>5, <2>1, WaitsTypes DEF TaskType
  <2>3. /\ tasks' \in Seq(TaskType) /\ DOMAIN tasks' = DOMAIN tasks /\ tasks'[e] = r
        /\ \A f \in DOMAIN tasks : f # e => tasks'[f] = tasks[f]
    <3>1. tasks[e] = [pc |-> tasks[e].pc, at |-> tasks[e].at, wait |-> tasks[e].wait, found |-> tasks[e].found,
                      owed |-> tasks[e].owed]
      BY <2>2 DEF TaskType
    <3>2. tasks'[e] = r
      BY <1>3, <1>8, <2>1, <3>1
    <3>3. tasks' = [f \in DOMAIN tasks |-> tasks'[f]] /\ \A f \in DOMAIN tasks : f # e => tasks'[f] = tasks[f]
      BY <1>8
    <3> QED
      BY <1>1, <2>2, <3>2, <3>3, TaskGets
  <2>4. WaitsTyped'
    <3>1. /\ waits' \in Seq(Waiters) /\ current' \in DOMAIN tasks' \cup {None} /\ slow' \subseteq Waiters
          /\ missed' \subseteq Waiters /\ future' \in Futures
      BY <1>1, <1>8, WaitsTypes
    <3>2. \A f \in DOMAIN tasks' : tasks'[f].pc = "checks" => tasks'[f].wait \in slow'
      BY <1>1, <1>8, <2>1, <2>3, WaitsTypes
    <3>3. overlap' \in BOOLEAN
      BY Zenon, <1>1 DEF WaitsTyped, Wa!TypeOK
    <3>4. Wa!TypeOK'
      BY Zenon, <2>3, <3>1, <3>2, <3>3 DEF Wa!TypeOK, Wa!Events, Futures, TaskType
    <3>5. ASSUME NEW f \in DOMAIN tasks'
          PROVE  /\ tasks'[f].pc = "runs" <=> current' = f
                 /\ tasks'[f].pc # "over" => tasks'[f].at >= 1
                 /\ tasks'[f].pc = "new" => tasks'[f].at = 1 /\ tasks'[f].found = {}
      <4>1. CASE f = e
        <5>1. tasks'[f].pc = "checks" /\ tasks'[f].at = k /\ current' # f
          <6>1. None # f
            BY <1>1, <4>1, WaitsTypes
          <6>2. current' = None
            BY <1>8
          <6> QED
            BY <2>1, <2>3, <4>1, <6>1, <6>2
        <5> QED
          BY <1>3, <5>1
      <4>2. CASE f # e
        BY <1>1, <1>8, <2>3, <4>2, WaitsTypes DEF WaitsTyped, Started
      <4> QED
        BY <4>1, <4>2
    <3> QED
      BY <3>4, <3>5 DEF WaitsTyped, Started
  <2>5. ASSUME ~overlap
        PROVE  InList'
    <3>1. InList /\ Progress(e) /\ \A f \in DOMAIN tasks : f # e => ~Active(f)
      BY <1>2, <1>5, <2>5 DEF InList
    <3>2. Active(e)' /\ \A f \in DOMAIN tasks : f # e => ~Active(f)'
      BY <2>1, <2>3, <3>1 DEF Active
    <3>3. future[w] = "pending" /\ k <= Len(waits)
      BY <1>1, <1>3, <1>6, <1>8, <2>5, WaitsTypes
    <3>4. Progress(e)'
      <4>1. /\ tasks'[e].found = tasks[e].found /\ tasks'[e].owed = tasks[e].owed
            /\ tasks'[e].at = tasks[e].at /\ tasks'[e].at = k /\ tasks'[e].wait = waits[k]
        BY <1>3, <1>4, <2>1, <2>3
      <4>2. /\ tasks[e].found \subseteq 1 .. tasks[e].at - 1
            /\ \A i \in DOMAIN waits : IF i \in tasks[e].found THEN future[waits[i]] # "pending"
                                                         ELSE future[waits[i]] \in {"pending", "cancelled"}
            /\ \A v \in tasks[e].owed : future[v] = "pending" => \E i \in tasks[e].at .. Len(waits) : waits[i] = v
            /\ tasks[e].at <= Len(waits) + 1
        BY <3>1 DEF Progress
      <4>3. waits' = waits /\ future' = future /\ future'[waits[k]] = "pending"
        BY <1>1, <1>4, <1>8, <3>3
      <4> QED
        BY <3>3, <4>1, <4>2, <4>3 DEF Progress
    <3> QED
      BY <1>1, <1>8, <2>3, <3>1, <3>2, <3>4 DEF InList
  <2> QED
    BY <1>1, <2>4, <2>5 DEF WaitsInv
<1>9. CASE future[w] # "cancelled" /\ w \notin slow /\ Wa!Checked(e, w)
  <2>1. ~overlap => tasks[e].at \in DOMAIN waits /\ w = waits[tasks[e].at] /\ future[w] = "pending"
    BY <1>3, <1>4, <1>6, <1>9
  <2> QED
    BY <1>1, <1>2, <1>9, <2>1, CheckedKept
<1> QED
  BY <1>3, <1>4, <1>7, <1>8, <1>9 DEF Wa!Looks

\* An async check has ended.
LEMMA CheckEndsKept ==
    ASSUME WaitsInv, NEW e \in DOMAIN tasks, Wa!CheckEnds(e)
    PROVE  WaitsInv'
<1>1. WaitsTyped /\ current = None /\ tasks[e].pc = "checks" /\ UNCHANGED <<slow, waits, overlap>>
  BY DEF WaitsInv, Wa!CheckEnds
<1>2. Active(e)
  BY <1>1 DEF Active
<1>3. PICK w \in Waiters : w = tasks[e].wait
  BY <1>1, WaitsTypes
<1>4. ASSUME ~overlap
      PROVE  tasks[e].at \in DOMAIN waits /\ w = waits[tasks[e].at] /\ future[w] = "pending"
  <2>1. Progress(e)
    BY <1>2, <1>4 DEF WaitsInv, InList
  <2>2. tasks[e].at <= Len(waits) /\ tasks[e].at >= 1 /\ tasks[e].at \in Nat
    BY <1>1, <2>1, WaitsTypes DEF Progress, WaitsTyped, Started, TaskType
  <2>3. tasks[e].at \in DOMAIN waits
    BY <1>1, <2>2, WaitsTypes
  <2> QED
    BY <1>1, <1>3, <2>1, <2>3 DEF Progress
<1>5. Wa!Checked(e, w)
  BY <1>3 DEF Wa!CheckEnds
<1> QED
  BY <1>1, <1>2, <1>4, <1>5, CheckedKept

\* At the end of the list what was found is popped, and only that.
LEMMA PopsKept ==
    ASSUME WaitsInv, NEW e \in DOMAIN tasks, Wa!Pops(e)
    PROVE  WaitsInv'
<1>1. /\ WaitsTyped /\ current = e /\ Wa!Ends(e, None) /\ UNCHANGED <<slow, future, overlap>>
      /\ tasks[e].at > Len(waits)
      /\ waits' = IF tasks[e].found \subseteq DOMAIN waits THEN Wa!Popped(waits, tasks[e].found) ELSE waits
  BY DEF WaitsInv, Wa!Pops
<1>2. Active(e)
  BY <1>1 DEF WaitsTyped, Started, Active
<1>3. /\ Wa!Popped(waits, tasks[e].found) \in Seq(Waiters)
      /\ Among(Wa!Popped(waits, tasks[e].found)) = {waits[i] : i \in DOMAIN waits \ tasks[e].found}
      /\ Distinct(waits) => Distinct(Wa!Popped(waits, tasks[e].found))
  BY <1>1, WaitsTypes, PoppedIs
<1>4. WaitsTyped'
  <2>1. waits' \in Seq(Waiters) /\ future' \in Futures
    BY <1>1, <1>3, WaitsTypes
  <2> QED
    BY <1>1, <2>1, EndsTyped
<1>5. ASSUME ~overlap
      PROVE  InList'
  <2>1. InList /\ Progress(e)
    BY <1>2, <1>5 DEF WaitsInv, InList
  <2>2. /\ Len(waits) \in Nat /\ DOMAIN waits = 1 .. Len(waits) /\ \A i \in DOMAIN waits : waits[i] \in Waiters
        /\ tasks[e].at \in Nat /\ tasks[e].owed \subseteq Waiters
    BY <1>1, WaitsTypes DEF TaskType
  <2>3. tasks[e].at = Len(waits) + 1
    BY <1>1, <2>1, <2>2 DEF Progress
  <2>4. tasks[e].found \subseteq DOMAIN waits
    BY <2>1, <2>2, <2>3 DEF Progress
  <2>5. Among(waits') = {waits[i] : i \in DOMAIN waits \ tasks[e].found} /\ Distinct(waits')
    BY <1>1, <1>3, <2>1, <2>4 DEF InList
  <2>6. /\ DOMAIN tasks' = DOMAIN tasks
        /\ tasks'[e].pc = "over" /\ \A f \in DOMAIN tasks : f # e => tasks'[f] = tasks[f]
        /\ missed' = missed \cup {v \in tasks[e].owed \ {None} : future[v] = "pending"}
    BY <1>1, EndsIs
  <2>7. missed' = {}
    <3>1. \A v \in tasks[e].owed : future[v] # "pending"
      BY <2>1, <2>2, <2>3 DEF Progress
    <3> QED
      BY <2>1, <2>6, <3>1 DEF InList
  <2>8. \A f \in DOMAIN tasks' : ~Active(f)'
    BY <1>2, <2>1, <2>6 DEF InList, Active
  <2>9. ASSUME NEW v \in Waiters
        PROVE  (future[v] = "pending" => v \in Among(waits')) /\ (future[v] = "none" => v \notin Among(waits'))
    <3>1. ASSUME future[v] = "pending"
          PROVE  v \in Among(waits')
      <4>1. PICK i \in DOMAIN waits : waits[i] = v
        BY <2>1, <3>1 DEF InList, Among
      <4>2. i \notin tasks[e].found
        BY <2>1, <3>1, <4>1 DEF Progress
      <4> QED
        BY <2>5, <4>1, <4>2
    <3>2. ASSUME v \in Among(waits')
          PROVE  future[v] # "none"
      <4>1. PICK i \in DOMAIN waits \ tasks[e].found : v = waits[i]
        BY <2>5, <3>2
      <4> QED
        BY <2>1, <4>1 DEF InList, Among
    <3> QED
      BY <3>1, <3>2
  <2>10. ASSUME NEW j \in DOMAIN waits'
         PROVE  future[waits'[j]] \in {"pending", "cancelled"}
    <3>1. waits'[j] \in Among(waits')
      BY DEF Among
    <3>2. PICK i \in DOMAIN waits \ tasks[e].found : waits'[j] = waits[i]
      BY <2>5, <3>1
    <3> QED
      BY <2>1, <3>2 DEF Progress
  <2> QED
    BY <1>1, <2>5, <2>7, <2>8, <2>9, <2>10 DEF InList
<1> QED
  BY <1>1, <1>4, <1>5 DEF WaitsInv

\* Every step keeps it ...
LEMMA WaitsKeptOn == WaitsInv /\ [Wa!Next]_waVars => WaitsInv'
<1> SUFFICES ASSUME WaitsInv, [Wa!Next]_waVars
             PROVE  WaitsInv'
  OBVIOUS
<1>1. CASE UNCHANGED waVars
  <2>1. /\ UNCHANGED <<slow, waits, future, tasks, current, missed>>
    BY <1>1 DEF waVars
  <2>2. overlap' = overlap
    BY Zenon, <1>1 DEF waVars
  <2> QED
    BY <2>1, <2>2 DEF WaitsInv, WaitsTyped, Wa!TypeOK, Wa!Events, Wa!IsInjective, Started, InList, Distinct, Among,
                      Active, Progress
<1>2. ASSUME NEW w \in Waiters, Wa!wait_for(w) \/ Wa!TimesOut(w)
      PROVE  WaitsInv'
  BY <1>2, WaitForKept, TimesOutKept
<1>3. CASE Wa!dispatch
  BY <1>3, DispatchKept
<1>4. ASSUME NEW e \in DOMAIN tasks, Wa!Task(e)
      PROVE  WaitsInv'
  BY <1>4, BeginsKept, LooksKept, CheckEndsKept, PopsKept DEF Wa!Task
<1> QED
  BY <1>1, <1>2, <1>3, <1>4 DEF Wa!Next, Wa!Events

\* ... it is true at the start ...
LEMMA WaitsStart == Init => WaitsInv
<1> SUFFICES ASSUME Wa!Init
             PROVE  WaitsInv
  BY DEF Init
<1>1. /\ slow \subseteq Waiters /\ waits = <<>> /\ future = [w \in Waiters |-> "none"] /\ tasks = <<>>
      /\ current = None /\ missed = {}
  BY DEF Wa!Init
<1>2. overlap = FALSE /\ overlap \in BOOLEAN
  BY Zenon DEF Wa!Init
<1>3. DOMAIN tasks = {} /\ DOMAIN waits = {} /\ waits \in Seq(Waiters) /\ tasks \in Seq(TaskType) /\ future \in Futures
  BY <1>1 DEF Futures
<1>4. Wa!TypeOK
  BY <1>1, <1>2, <1>3 DEF Wa!TypeOK, Wa!Events, Futures, TaskType
<1>5. InList
  BY <1>1, <1>3 DEF InList, Distinct, Among
<1> QED
  BY <1>3, <1>4, <1>5 DEF WaitsInv, WaitsTyped, Started

\* ... and says what the properties say.
LEMMA WaitsSays == WaitsInv => Wa!TypeOK /\ WaitsKept
<1> SUFFICES ASSUME WaitsInv
             PROVE  Wa!TypeOK /\ WaitsKept
  OBVIOUS
<1>1. Wa!EventReaches
  BY DEF WaitsInv, InList, Wa!EventReaches
<1>2. ASSUME ~overlap, current = None, Wa!Under("checks") = {}
      PROVE  /\ Wa!IsInjective(waits)
             /\ \A w \in Waiters : future[w] = "pending" => w \in Wa!ToSet(waits)
             /\ \A w \in Wa!ToSet(waits) : future[w] \in {"pending", "cancelled"}
  <2>1. InList
    BY <1>2 DEF WaitsInv
  <2>2. \A e \in DOMAIN tasks : ~Active(e)
    <3>1. \A e \in DOMAIN tasks : tasks[e].pc # "runs"
      BY <1>2, WaitsTypes DEF WaitsInv, WaitsTyped, Started
    <3>2. \A e \in DOMAIN tasks : tasks[e].pc # "checks"
      BY <1>2 DEF Wa!Under, Wa!Events
    <3> QED
      BY <3>1, <3>2 DEF Active
  <2>3. Wa!IsInjective(waits)
    BY <2>1 DEF InList, Distinct, Wa!IsInjective
  <2>4. \A w \in Waiters : future[w] = "pending" => w \in Wa!ToSet(waits)
    BY <2>1 DEF InList, Among, Wa!ToSet
  <2>5. \A w \in Wa!ToSet(waits) : future[w] \in {"pending", "cancelled"}
    BY <2>1, <2>2 DEF InList, Wa!ToSet
  <2> QED
    BY <2>3, <2>4, <2>5
<1>3. Wa!ListExact
  BY <1>2 DEF Wa!ListExact
<1> QED
  BY <1>1, <1>3 DEF WaitsKept, WaitsInv, WaitsTyped

\* Client.wait_for and _process_waits: an event asks every wait that was pending when its task began, and
\* Client.waits holds every wait that is pending, once, and none that got an event, however many waits,
\* events and timeouts there are, as long as nothing comes in between at an async check.
THEOREM WaitsAreKept == Spec => []WaitsKept
<1>1. WaitsInv /\ [Next]_vars => WaitsInv'
  BY WaitsStep, WaitsKeptOn
<1> QED
  BY <1>1, WaitsStart, WaitsSays, PTL DEF Spec

\* The types of Waits; the task of an event is suspended only at a wait whose check is asynchronous.
THEOREM WaitsTypesKept == Spec => []Wa!TypeOK
<1>1. WaitsInv /\ [Next]_vars => WaitsInv'
  BY WaitsStep, WaitsKeptOn
<1> QED
  BY <1>1, WaitsStart, WaitsSays, PTL DEF Spec

-----------------------------------------------------------------------------
(***************************************************************************)
(* GuildChunks                                                             *)
(***************************************************************************)
M == Ch!Members

\* The members of the chunks before the n-th.
Before(n) == UNION {Among(Chunks[i]) : i \in 1 .. n - 1}

\* Until all members are placed, the buffer holds what has come of every request that goes on,
\* and what is not placed is in the hands of every handler that has yielded.
InHands ==
    placed # M =>
        /\ \A r \in DOMAIN chNext : chNext[r] # None => Before(chNext[r]) \subseteq Among(chBuffer)
        /\ \A h \in Among(chHandlers) : M \subseteq placed \cup Among(h)

ChunksInv ==
    /\ Ch!TypeOK /\ Ch!ChunkedMeansAll
    /\ listing # None => Before(listing) \subseteq placed
    /\ InHands

\* A step of the composition is one of GuildChunks, or changes nothing of it.
LEMMA ChunksStep == [Next]_vars => [Ch!Next]_chVars
BY DEF Next, vars, chVars

\* The chunks.
LEMMA ChunksAre ==
    /\ Len(Chunks) \in Nat /\ Len(Chunks) >= 1 /\ DOMAIN Chunks = 1 .. Len(Chunks)
    /\ \A n \in 1 .. Len(Chunks) : Chunks[n] \in Seq(M)
    /\ None \notin Nat
    /\ Before(1) = {}
    /\ \A n \in 1 .. Len(Chunks) : Before(n + 1) = Before(n) \cup Among(Chunks[n])
    /\ Before(Len(Chunks) + 1) = M
<1>1. Chunks \in Seq(Seq(M)) /\ Chunks # <<>> /\ None \notin Nat
  BY ChunksData DEF Ch!ChunksAssumption, M
<1>2. /\ Len(Chunks) \in Nat /\ DOMAIN Chunks = 1 .. Len(Chunks) /\ Len(Chunks) # 0
      /\ \A n \in 1 .. Len(Chunks) : Chunks[n] \in Seq(M)
  BY <1>1, LenProperties, ElementOfSeq, EmptySeq
<1>3. Before(1) = {}
  BY DEF Before
<1>4. ASSUME NEW n \in 1 .. Len(Chunks)
      PROVE  Before(n + 1) = Before(n) \cup Among(Chunks[n])
  <2>1. \A i : i \in 1 .. (n + 1) - 1 <=> i \in 1 .. n - 1 \/ i = n
    BY <1>2
  <2> QED
    BY <2>1 DEF Before
<1>5. Before(Len(Chunks) + 1) = M
  <2>1. 1 .. (Len(Chunks) + 1) - 1 = DOMAIN Chunks
    BY <1>2
  <2> QED
    BY <2>1 DEF Before, M, Ch!Members, Ch!ToSet, Among
<1> QED
  BY <1>1, <1>2, <1>3, <1>4, <1>5

\* A sequence is cut in two.
LEMMA CutInTwo ==
    ASSUME NEW S, NEW s \in Seq(S), NEW n \in DOMAIN s
    PROVE  /\ SubSeq(s, 1, n) \in Seq(S) /\ SubSeq(s, n + 1, Len(s)) \in Seq(S)
           /\ Among(s) = Among(SubSeq(s, 1, n)) \cup Among(SubSeq(s, n + 1, Len(s)))
<1>1. Len(s) \in Nat /\ DOMAIN s = 1 .. Len(s) /\ n + 1 \in 1 .. Len(s) + 1 /\ n \in 1 .. Len(s)
  BY LenProperties
<1>2. PICK b : b = SubSeq(s, n + 1, Len(s))
  OBVIOUS
<1>3. b \in Seq(S) /\ Len(b) = Len(s) - n /\ \A i \in 1 .. Len(s) - n : b[i] = s[n + i]
  BY <1>1, <1>2, Suffix
<1>4. PICK a : a = SubSeq(s, 1, n)
  OBVIOUS
<1>5. a \in Seq(S) /\ Len(a) = n /\ \A i \in 1 .. n : a[i] = s[i]
  <2>1. \A i \in 1 .. n : s[i] \in S
    BY <1>1, ElementOfSeq
  <2> QED
    BY <1>1, <1>4, <2>1, SubSeqProperties
<1>6. DOMAIN a = 1 .. n /\ DOMAIN b = 1 .. Len(s) - n
  BY <1>3, <1>5, LenProperties
<1>7. ASSUME NEW v \in Among(s)
      PROVE  v \in Among(a) \cup Among(b)
  <2>1. PICK i \in 1 .. Len(s) : v = s[i]
    BY <1>1 DEF Among
  <2>2. CASE i <= n
    BY <1>1, <1>5, <1>6, <2>1, <2>2 DEF Among
  <2>3. CASE ~(i <= n)
    <3>1. i - n \in 1 .. Len(s) - n /\ n + (i - n) = i
      BY <1>1, <2>3
    <3> QED
      BY <1>3, <1>6, <2>1, <3>1 DEF Among
  <2> QED
    BY <2>2, <2>3
<1>8. \A i \in 1 .. Len(s) - n : n + i \in DOMAIN s
  BY <1>1
<1>9. Among(a) \subseteq Among(s) /\ Among(b) \subseteq Among(s)
  BY <1>1, <1>3, <1>5, <1>6, <1>8 DEF Among
<1> QED
  BY <1>2, <1>3, <1>4, <1>5, <1>7, <1>9

\* What is in two sequences that are joined ...
LEMMA JoinedAmong ==
    ASSUME NEW S, NEW s \in Seq(S), NEW t \in Seq(S)
    PROVE  s \o t \in Seq(S) /\ Among(s \o t) = Among(s) \cup Among(t)
<1>1. PICK j : j = s \o t
  OBVIOUS
<1>2. /\ j \in Seq(S) /\ Len(j) = Len(s) + Len(t) /\ Len(s) \in Nat /\ Len(t) \in Nat
      /\ \A i \in 1 .. Len(s) + Len(t) : j[i] = IF i <= Len(s) THEN s[i] ELSE t[i - Len(s)]
  BY <1>1, ConcatProperties, LenProperties
<1>3. DOMAIN j = 1 .. Len(s) + Len(t) /\ DOMAIN s = 1 .. Len(s) /\ DOMAIN t = 1 .. Len(t)
  BY <1>2, LenProperties
<1>4. \A i \in 1 .. Len(s) : i \in 1 .. Len(s) + Len(t) /\ j[i] = s[i]
  BY <1>2
<1>5. ASSUME NEW i \in 1 .. Len(t)
      PROVE  Len(s) + i \in 1 .. Len(s) + Len(t) /\ j[Len(s) + i] = t[i]
  <2>1. Len(s) + i \in 1 .. Len(s) + Len(t) /\ ~(Len(s) + i <= Len(s)) /\ (Len(s) + i) - Len(s) = i
    BY <1>2
  <2> QED
    BY <1>2, <2>1
<1>6. ASSUME NEW i \in 1 .. Len(s) + Len(t)
      PROVE  j[i] \in Among(s) \cup Among(t)
  <2>1. CASE i <= Len(s)
    BY <1>2, <1>3, <2>1 DEF Among
  <2>2. CASE ~(i <= Len(s))
    <3>1. i - Len(s) \in 1 .. Len(t) /\ j[i] = t[i - Len(s)]
      BY <1>2, <2>2
    <3> QED
      BY <1>3, <3>1 DEF Among
  <2> QED
    BY <2>1, <2>2
<1>7. Among(j) \subseteq Among(s) \cup Among(t)
  BY <1>3, <1>6 DEF Among
<1>8. Among(s) \subseteq Among(j) /\ Among(t) \subseteq Among(j)
  BY <1>3, <1>4, <1>5 DEF Among
<1> QED
  BY <1>1, <1>2, <1>7, <1>8

\* ... and in one that is extended.
LEMMA AppendAmong ==
    ASSUME NEW S, NEW s \in Seq(S), NEW h \in S
    PROVE  Append(s, h) \in Seq(S) /\ Len(Append(s, h)) = Len(s) + 1 /\ Among(Append(s, h)) = Among(s) \cup {h}
<1>1. PICK a : a = Append(s, h)
  OBVIOUS
<1>2. /\ a \in Seq(S) /\ Len(s) \in Nat /\ Len(a) = Len(s) + 1 /\ DOMAIN s = 1 .. Len(s)
      /\ DOMAIN a = 1 .. Len(s) + 1
      /\ \A i \in 1 .. Len(s) : a[i] = s[i]
      /\ a[Len(s) + 1] = h
  BY <1>1
<1>3. \A i \in 1 .. Len(s) + 1 : i \in 1 .. Len(s) \/ i = Len(s) + 1
  BY <1>2
<1>4. \A i \in 1 .. Len(s) : i \in 1 .. Len(s) + 1
  BY <1>2
<1>5. Len(s) + 1 \in 1 .. Len(s) + 1
  BY <1>2
<1>6. ASSUME NEW v
      PROVE  v \in Among(a) <=> v \in Among(s) \cup {h}
  BY <1>2, <1>3, <1>4, <1>5 DEF Among
<1> QED
  BY <1>1, <1>2, <1>6

\* The members left are placed, or some of them are and a handler has the others.
LEMMA PlacesIs ==
    ASSUME NEW members \in Seq(M), NEW others \in Seq(Seq(M)), placed \subseteq M, Ch!Places(members, others)
    PROVE  /\ chHandlers' \in Seq(Seq(M)) /\ placed \subseteq placed' /\ placed' \subseteq M
           /\ \/ chHandlers' = others /\ Among(members) \subseteq placed'
              \/ /\ Len(chHandlers') = Len(others) + 1
                 /\ \E h \in Seq(M) : /\ Among(chHandlers') = Among(others) \cup {h}
                                      /\ Among(members) \subseteq placed' \cup Among(h)
<1>1. Among(members) \subseteq M
  <2>1. DOMAIN members = 1 .. Len(members)
    BY LenProperties
  <2> QED
    BY <2>1, ElementOfSeq DEF Among
<1>2. ASSUME NEW n \in DOMAIN members,
             placed' = placed \cup Among(SubSeq(members, 1, n)),
             chHandlers' = Append(others, SubSeq(members, n + 1, Len(members)))
      PROVE  /\ chHandlers' \in Seq(Seq(M)) /\ placed \subseteq placed' /\ placed' \subseteq M
             /\ Len(chHandlers') = Len(others) + 1
             /\ \E h \in Seq(M) : /\ Among(chHandlers') = Among(others) \cup {h}
                                  /\ Among(members) \subseteq placed' \cup Among(h)
  <2>1. PICK h : h = SubSeq(members, n + 1, Len(members))
    OBVIOUS
  <2>2. h \in Seq(M) /\ Among(members) = Among(SubSeq(members, 1, n)) \cup Among(h)
    BY <2>1, CutInTwo
  <2>3. /\ chHandlers' \in Seq(Seq(M)) /\ Len(chHandlers') = Len(others) + 1
        /\ Among(chHandlers') = Among(others) \cup {h}
    <3>1. PICK T : T = Seq(M)
      OBVIOUS
    <3>2. others \in Seq(T) /\ h \in T /\ chHandlers' = Append(others, h)
      BY <1>2, <2>1, <2>2, <3>1
    <3>3. /\ chHandlers' \in Seq(T) /\ Len(chHandlers') = Len(others) + 1
          /\ Among(chHandlers') = Among(others) \cup {h}
      BY <3>2, AppendAmong
    <3> QED
      BY <3>1, <3>3
  <2> QED
    BY <1>1, <1>2, <2>2, <2>3
<1>3. CASE placed' = placed \cup Among(members) /\ chHandlers' = others
  BY <1>1, <1>3
<1>4. \/ \E n \in DOMAIN members :
           /\ placed' = placed \cup Among(SubSeq(members, 1, n))
           /\ chHandlers' = Append(others, SubSeq(members, n + 1, Len(members)))
      \/ placed' = placed \cup Among(members) /\ chHandlers' = others
  BY DEF Ch!Places, Ch!ToSet, Among
<1> QED
  BY <1>2, <1>3, <1>4

\* What the types are made of.
LEMMA ChunksTypes ==
    ASSUME Ch!TypeOK
    PROVE  /\ chNext \in Seq(DOMAIN Chunks \cup {None}) /\ DOMAIN chNext = 1 .. Len(chNext) /\ Len(chNext) \in Nat
           /\ \A r \in DOMAIN chNext : chNext[r] \in DOMAIN Chunks \cup {None}
           /\ listing \in DOMAIN Chunks \cup {None} /\ chBuffer \in Seq(M) /\ chHandlers \in Seq(Seq(M))
           /\ DOMAIN chHandlers = 1 .. Len(chHandlers) /\ Len(chHandlers) \in Nat
           /\ \A i \in DOMAIN chHandlers : chHandlers[i] \in Seq(M)
           /\ placed \subseteq M
<1>1. /\ chNext \in Seq(DOMAIN Chunks \cup {None})
      /\ listing \in DOMAIN Chunks \cup {None} /\ chBuffer \in Seq(M) /\ chHandlers \in Seq(Seq(M))
      /\ placed \subseteq M
  BY DEF Ch!TypeOK, M
<1>2. DOMAIN chNext = 1 .. Len(chNext) /\ Len(chNext) \in Nat
      /\ \A r \in DOMAIN chNext : chNext[r] \in DOMAIN Chunks \cup {None}
  BY <1>1, LenProperties, ElementOfSeq
<1>3. DOMAIN chHandlers = 1 .. Len(chHandlers) /\ Len(chHandlers) \in Nat
      /\ \A i \in DOMAIN chHandlers : chHandlers[i] \in Seq(M)
  BY <1>1, LenProperties, ElementOfSeq
<1> QED
  BY <1>1, <1>2, <1>3

\* A request has everything to come.
LEMMA RequestKept ==
    ASSUME ChunksInv, Ch!gateway_chunk
    PROVE  ChunksInv'
<1>1. /\ chNext' = Append(chNext, 1) /\ UNCHANGED <<chBuffer, chHandlers, listing, placed>>
  BY DEF Ch!gateway_chunk
<1>2. chunked' = chunked /\ chunked' \in BOOLEAN
  BY Zenon DEF Ch!gateway_chunk, ChunksInv, Ch!TypeOK
<1>3. 1 \in DOMAIN Chunks \cup {None} /\ Before(1) = {}
  BY ChunksAre
<1>4. /\ chNext' \in Seq(DOMAIN Chunks \cup {None})
      /\ \A r \in DOMAIN chNext' : (r \in DOMAIN chNext /\ chNext'[r] = chNext[r]) \/ chNext'[r] = 1
  BY <1>1, <1>3, ChunksTypes DEF ChunksInv
<1>5. Ch!TypeOK'
  <2>1. /\ listing' \in DOMAIN Chunks \cup {None} /\ chBuffer' \in Seq(M) /\ chHandlers' \in Seq(Seq(M)) /\ placed' \subseteq M
    BY <1>1, ChunksTypes DEF ChunksInv
  <2> QED
    BY Zenon, <1>2, <1>4, <2>1 DEF Ch!TypeOK, M
<1>6. InHands'
  BY <1>1, <1>3, <1>4 DEF ChunksInv, InHands
<1> QED
  BY <1>1, <1>2, <1>5, <1>6 DEF ChunksInv, Ch!ChunkedMeansAll

\* A session that is lost has nothing more to come.
LEMMA LostKept ==
    ASSUME ChunksInv, Ch!SessionLost
    PROVE  ChunksInv'
<1>1. /\ chNext' = [r \in DOMAIN chNext |-> None] /\ UNCHANGED <<chBuffer, chHandlers, listing, placed>>
  BY DEF Ch!SessionLost
<1>2. chunked' = chunked /\ chunked' \in BOOLEAN
  BY Zenon DEF Ch!SessionLost, ChunksInv, Ch!TypeOK
<1>3. chNext' \in Seq(DOMAIN Chunks \cup {None}) /\ \A r \in DOMAIN chNext' : chNext'[r] = None
  <2>1. chNext' \in [1 .. Len(chNext) -> DOMAIN Chunks \cup {None}] /\ Len(chNext) \in Nat
    BY <1>1, ChunksTypes DEF ChunksInv
  <2>2. chNext' \in Seq(DOMAIN Chunks \cup {None})
    BY <2>1, SeqDef
  <2> QED
    BY <1>1, <2>2
<1>4. Ch!TypeOK'
  <2>1. /\ listing' \in DOMAIN Chunks \cup {None} /\ chBuffer' \in Seq(M) /\ chHandlers' \in Seq(Seq(M)) /\ placed' \subseteq M
    BY <1>1, ChunksTypes DEF ChunksInv
  <2> QED
    BY Zenon, <1>2, <1>3, <2>1 DEF Ch!TypeOK, M
<1>5. InHands'
  BY <1>1, <1>3 DEF ChunksInv, InHands
<1> QED
  BY <1>1, <1>2, <1>4, <1>5 DEF ChunksInv, Ch!ChunkedMeansAll

\* A chunk is put into the buffer, or the last one has the members of the buffer placed.
LEMMA ChunkKept ==
    ASSUME ChunksInv, NEW r \in DOMAIN chNext, Ch!process_member_chunk(r)
    PROVE  ChunksInv'
<1>1. PICK n \in DOMAIN Chunks : n = chNext[r]
  BY ChunksTypes DEF ChunksInv, Ch!process_member_chunk
<1>2. PICK members : members = chBuffer \o Chunks[n]
  OBVIOUS
<1>3. /\ n \in Nat /\ n >= 1 /\ n <= Len(Chunks) /\ n # None /\ None \notin Nat
      /\ Chunks[n] \in Seq(M) /\ Before(n + 1) = Before(n) \cup Among(Chunks[n])
      /\ DOMAIN Chunks = 1 .. Len(Chunks) /\ Len(Chunks) \in Nat /\ Before(Len(Chunks) + 1) = M
  BY ChunksAre
<1>4. /\ chBuffer \in Seq(M) /\ placed \subseteq M /\ chHandlers \in Seq(Seq(M))
      /\ listing \in DOMAIN Chunks \cup {None} /\ Len(chHandlers) \in Nat
  BY ChunksTypes DEF ChunksInv
<1>5. members \in Seq(M) /\ Among(members) = Among(chBuffer) \cup Among(Chunks[n])
  BY <1>2, <1>3, <1>4, JoinedAmong
<1>6. ASSUME NEW m \in DOMAIN Chunks \cup {None}, chNext' = [chNext EXCEPT ![r] = m]
      PROVE  /\ chNext' \in Seq(DOMAIN Chunks \cup {None}) /\ DOMAIN chNext' = DOMAIN chNext /\ chNext'[r] = m
             /\ \A q \in DOMAIN chNext : q # r => chNext'[q] = chNext[q]
  <2>1. chNext \in Seq(DOMAIN Chunks \cup {None}) /\ DOMAIN chNext = 1 .. Len(chNext)
    BY ChunksTypes DEF ChunksInv
  <2>2. chNext' \in Seq(DOMAIN Chunks \cup {None})
    BY <1>6, <2>1, ExceptSeq
  <2> QED
    BY <1>6, <2>1, <2>2
<1>7. listing' = listing
  BY DEF Ch!process_member_chunk
<1>8. placed # M => \A q \in DOMAIN chNext : chNext[q] # None => Before(chNext[q]) \subseteq Among(chBuffer)
  BY DEF ChunksInv, InHands
<1>9. CASE /\ n # Len(Chunks) /\ chNext' = [chNext EXCEPT ![r] = n + 1]
           /\ chBuffer' = members /\ chunked' = FALSE /\ UNCHANGED <<chHandlers, placed>>
  <2>1. n + 1 \in DOMAIN Chunks \cup {None}
    BY <1>3, <1>9
  <2>2. /\ chNext' \in Seq(DOMAIN Chunks \cup {None}) /\ DOMAIN chNext' = DOMAIN chNext /\ chNext'[r] = n + 1
        /\ \A q \in DOMAIN chNext : q # r => chNext'[q] = chNext[q]
    BY <1>6, <1>9, <2>1
  <2>3. chunked' \in BOOLEAN /\ ~chunked'
    BY Zenon, <1>9
  <2>4. /\ listing' \in DOMAIN Chunks \cup {None} /\ chBuffer' \in Seq(M) /\ chHandlers' \in Seq(Seq(M)) /\ placed' \subseteq M
    BY <1>4, <1>5, <1>7, <1>9
  <2>5. Ch!TypeOK'
    BY Zenon, <2>2, <2>3, <2>4 DEF Ch!TypeOK, M
  <2>6. ASSUME placed' # M, NEW q \in DOMAIN chNext', chNext'[q] # None
        PROVE  Before(chNext'[q]) \subseteq Among(chBuffer')
    <3>1. placed # M
      BY <1>9, <2>6
    <3>2. CASE q = r
      <4>1. Before(n) \subseteq Among(chBuffer)
        BY <1>1, <1>3, <1>8, <3>1
      <4> QED
        BY <1>3, <1>5, <1>9, <2>2, <3>2, <4>1
    <3>3. CASE q # r
      BY <1>5, <1>8, <1>9, <2>2, <2>6, <3>1, <3>3
    <3> QED
      BY <3>2, <3>3
  <2>7. InHands'
    BY <1>9, <2>6 DEF ChunksInv, InHands
  <2> QED
    BY <1>7, <1>9, <2>3, <2>5, <2>7 DEF ChunksInv, Ch!ChunkedMeansAll
<1>10. CASE /\ n = Len(Chunks) /\ chNext' = [chNext EXCEPT ![r] = None]
            /\ Ch!Places(members, chHandlers)
            /\ chunked' = (Len(chHandlers') = Len(chHandlers))
            /\ chBuffer' = IF chunked' THEN <<>> ELSE members
  <2>1. /\ chNext' \in Seq(DOMAIN Chunks \cup {None}) /\ DOMAIN chNext' = DOMAIN chNext /\ chNext'[r] = None
        /\ \A q \in DOMAIN chNext : q # r => chNext'[q] = chNext[q]
    BY <1>6, <1>10
  <2>2. /\ chHandlers' \in Seq(Seq(M)) /\ placed \subseteq placed' /\ placed' \subseteq M
        /\ \/ chHandlers' = chHandlers /\ Among(members) \subseteq placed'
           \/ /\ Len(chHandlers') = Len(chHandlers) + 1
              /\ \E h \in Seq(M) : /\ Among(chHandlers') = Among(chHandlers) \cup {h}
                                   /\ Among(members) \subseteq placed' \cup Among(h)
    <3>1. members \in Seq(M) /\ chHandlers \in Seq(Seq(M)) /\ placed \subseteq M /\ Ch!Places(members, chHandlers)
      BY <1>4, <1>5, <1>10
    <3> QED
      BY <3>1, PlacesIs
  <2>3. chunked' \in BOOLEAN /\ (chunked' <=> Len(chHandlers') = Len(chHandlers))
    BY Zenon, <1>10
  <2>4. placed' # M => M = Among(members)
    <3>1. placed' # M => placed # M
      BY <1>4, <2>2
    <3>2. placed # M => Before(n) \subseteq Among(chBuffer)
      BY <1>1, <1>3, <1>8
    <3>3. M = Before(n) \cup Among(Chunks[n])
      BY <1>3, <1>10
    <3>4. Among(members) \subseteq M
      <4>1. DOMAIN members = 1 .. Len(members)
        BY <1>5, LenProperties
      <4> QED
        BY <1>5, <4>1, ElementOfSeq DEF Among
    <3> QED
      BY <1>5, <3>1, <3>2, <3>3, <3>4
  <2>5. chunked' => placed' = M
    <3>1. Len(chHandlers') = Len(chHandlers) => Among(members) \subseteq placed'
      BY <1>4, <2>2
    <3> QED
      BY <2>2, <2>3, <2>4, <3>1
  <2>6. chBuffer' \in Seq(M) /\ (placed' # M => chBuffer' = members)
    <3>1. <<>> \in Seq(M)
      OBVIOUS
    <3> QED
      BY <1>5, <1>10, <2>5, <3>1
  <2>7. Ch!TypeOK'
    <3>1. listing' \in DOMAIN Chunks \cup {None}
      BY <1>4, <1>7
    <3> QED
      BY Zenon, <2>1, <2>2, <2>3, <2>6, <3>1 DEF Ch!TypeOK, M
  <2>8. ASSUME placed' # M
        PROVE  /\ \A q \in DOMAIN chNext' : chNext'[q] # None => Before(chNext'[q]) \subseteq Among(chBuffer')
               /\ \A h \in Among(chHandlers') : M \subseteq placed' \cup Among(h)
    <3>1. placed # M
      BY <1>4, <2>2, <2>8
    <3>2. \A q \in DOMAIN chNext' : chNext'[q] # None => Before(chNext'[q]) \subseteq Among(chBuffer')
      BY <1>5, <1>8, <2>1, <2>6, <2>8, <3>1
    <3>3. \A h \in Among(chHandlers) : M \subseteq placed' \cup Among(h)
      BY <2>2, <3>1 DEF ChunksInv, InHands
    <3>4. ~(Among(members) \subseteq placed')
      BY <2>2, <2>4, <2>8
    <3>5. \A h \in Among(chHandlers') : M \subseteq placed' \cup Among(h)
      BY <2>2, <2>4, <2>8, <3>3, <3>4
    <3> QED
      BY <3>2, <3>5
  <2>9. InHands'
    BY <2>8 DEF InHands
  <2>10. listing' # None => Before(listing') \subseteq placed'
    BY <1>7, <2>2 DEF ChunksInv
  <2> QED
    BY <2>5, <2>7, <2>9, <2>10 DEF ChunksInv, Ch!ChunkedMeansAll, M
<1> QED
  BY <1>1, <1>2, <1>9, <1>10 DEF Ch!process_member_chunk, Ch!Collected

\* A handler goes on.
LEMMA HandlerKept ==
    ASSUME ChunksInv, NEW k \in DOMAIN chHandlers, Ch!GoesOn(k)
    PROVE  ChunksInv'
<1>1. PICK T : T = Seq(M)
  OBVIOUS
<1>2. PICK others : others = Cut(chHandlers, k)
  OBVIOUS
<1>3. /\ Ch!Places(chHandlers[k], others) /\ UNCHANGED <<chNext, listing>>
      /\ chBuffer' = IF Len(chHandlers') < Len(chHandlers) THEN <<>> ELSE chBuffer
  BY <1>2 DEF Ch!GoesOn, Ch!RemoveAt, Cut
<1>4. chunked' \in BOOLEAN /\ (chunked' <=> chunked \/ Len(chHandlers') < Len(chHandlers))
  BY Zenon DEF Ch!GoesOn, ChunksInv, Ch!TypeOK
<1>5. /\ chBuffer \in Seq(M) /\ placed \subseteq M /\ chHandlers \in Seq(T) /\ chNext \in Seq(DOMAIN Chunks \cup {None})
      /\ listing \in DOMAIN Chunks \cup {None} /\ Len(chHandlers) \in Nat /\ DOMAIN chHandlers = 1 .. Len(chHandlers)
      /\ chHandlers[k] \in Seq(M)
  BY <1>1, ChunksTypes DEF ChunksInv
<1>6. /\ others \in Seq(T) /\ Len(others) = Len(chHandlers) - 1
      /\ \A i \in 1 .. Len(chHandlers) - 1 : others[i] = IF i < k THEN chHandlers[i] ELSE chHandlers[i + 1]
  BY <1>2, <1>5, Removed
<1>7. Among(others) \subseteq Among(chHandlers)
  <2>1. DOMAIN others = 1 .. Len(chHandlers) - 1
    BY <1>6, LenProperties
  <2>2. \A i \in 1 .. Len(chHandlers) - 1 : i \in DOMAIN chHandlers /\ i + 1 \in DOMAIN chHandlers
    BY <1>5
  <2>3. \A i \in DOMAIN others : \E j \in DOMAIN chHandlers : others[i] = chHandlers[j]
    BY <1>6, <2>1, <2>2
  <2> QED
    BY <2>3 DEF Among
<1>8. /\ chHandlers' \in Seq(Seq(M)) /\ placed \subseteq placed' /\ placed' \subseteq M
      /\ \/ chHandlers' = others /\ Among(chHandlers[k]) \subseteq placed'
         \/ /\ Len(chHandlers') = Len(others) + 1
            /\ \E h \in Seq(M) : /\ Among(chHandlers') = Among(others) \cup {h}
                                 /\ Among(chHandlers[k]) \subseteq placed' \cup Among(h)
  <2>1. PICK members : members = chHandlers[k]
    OBVIOUS
  <2>2. members \in Seq(M) /\ others \in Seq(Seq(M)) /\ placed \subseteq M /\ Ch!Places(members, others)
    BY <1>1, <1>3, <1>5, <1>6, <2>1
  <2>3. /\ chHandlers' \in Seq(Seq(M)) /\ placed \subseteq placed' /\ placed' \subseteq M
        /\ \/ chHandlers' = others /\ Among(members) \subseteq placed'
           \/ /\ Len(chHandlers') = Len(others) + 1
              /\ \E h \in Seq(M) : /\ Among(chHandlers') = Among(others) \cup {h}
                                   /\ Among(members) \subseteq placed' \cup Among(h)
    BY ZenonT(60), <2>2, PlacesIs
  <2> QED
    BY <2>1, <2>3
<1>9. placed' # M => M \subseteq placed' \cup Among(chHandlers[k])
  <2>1. placed' # M => placed # M
    BY <1>5, <1>8
  <2>2. chHandlers[k] \in Among(chHandlers)
    BY DEF Among
  <2> QED
    BY <1>8, <2>1, <2>2 DEF ChunksInv, InHands
<1>10. Len(chHandlers') < Len(chHandlers) => placed' = M
  <2>1. Len(chHandlers') < Len(chHandlers) => Among(chHandlers[k]) \subseteq placed'
    <3>1. Len(others) + 1 = Len(chHandlers)
      BY <1>5, <1>6
    <3>2. ~(Len(chHandlers) < Len(chHandlers))
      BY <1>5
    <3> QED
      BY <1>8, <3>1, <3>2
  <2> QED
    BY <1>8, <1>9, <2>1
<1>11. chunked' => placed' = M
  <2>1. chunked => placed = M
    BY DEF ChunksInv, Ch!ChunkedMeansAll, M
  <2> QED
    BY <1>4, <1>8, <1>10, <2>1
<1>12. chBuffer' \in Seq(M) /\ (placed' # M => chBuffer' = chBuffer)
  <2>1. <<>> \in Seq(M)
    OBVIOUS
  <2> QED
    BY <1>3, <1>5, <1>10, <2>1
<1>13. Ch!TypeOK'
  <2>1. listing' \in DOMAIN Chunks \cup {None} /\ chNext' \in Seq(DOMAIN Chunks \cup {None})
    BY <1>3, <1>5
  <2> QED
    BY Zenon, <1>4, <1>8, <1>12, <2>1 DEF Ch!TypeOK, M
<1>14. ASSUME placed' # M
       PROVE  /\ \A q \in DOMAIN chNext' : chNext'[q] # None => Before(chNext'[q]) \subseteq Among(chBuffer')
              /\ \A h \in Among(chHandlers') : M \subseteq placed' \cup Among(h)
  <2>1. placed # M
    BY <1>5, <1>8, <1>14
  <2>2. \A q \in DOMAIN chNext' : chNext'[q] # None => Before(chNext'[q]) \subseteq Among(chBuffer')
    BY <1>3, <1>12, <1>14, <2>1 DEF ChunksInv, InHands
  <2>3. \A h \in Among(others) : M \subseteq placed' \cup Among(h)
    BY <1>7, <1>8, <2>1 DEF ChunksInv, InHands
  <2>4. \A h \in Among(chHandlers') : M \subseteq placed' \cup Among(h)
    BY <1>8, <1>9, <1>14, <2>3
  <2> QED
    BY <2>2, <2>4
<1>15. InHands'
  BY <1>14 DEF InHands
<1>16. listing' # None => Before(listing') \subseteq placed'
  BY <1>3, <1>8 DEF ChunksInv
<1> QED
  BY <1>11, <1>13, <1>15, <1>16 DEF ChunksInv, Ch!ChunkedMeansAll, M

\* Members that are placed besides leave what the others have in hands as it is.
LEMMA MoreInHands ==
    ASSUME ChunksInv, placed \subseteq placed', placed' \subseteq M, UNCHANGED <<chNext, chBuffer, chHandlers>>
    PROVE  InHands'
<1>1. placed' # M => placed # M
  BY ChunksTypes DEF ChunksInv
<1> QED
  BY <1>1 DEF ChunksInv, InHands

\* The list of members is fetched chunk by chunk.
LEMMA ListKept ==
    ASSUME ChunksInv, Ch!http_chunk \/ Ch!Listed
    PROVE  ChunksInv'
<1>1. /\ chBuffer \in Seq(M) /\ placed \subseteq M /\ chHandlers \in Seq(Seq(M)) /\ chNext \in Seq(DOMAIN Chunks \cup {None})
      /\ listing \in DOMAIN Chunks \cup {None} /\ (chunked => placed = M)
  BY ChunksTypes DEF ChunksInv, Ch!ChunkedMeansAll, M
<1>2. /\ DOMAIN Chunks = 1 .. Len(Chunks) /\ Len(Chunks) \in Nat /\ Len(Chunks) >= 1 /\ None \notin Nat
      /\ \A n \in 1 .. Len(Chunks) : Chunks[n] \in Seq(M) /\ Before(n + 1) = Before(n) \cup Among(Chunks[n])
      /\ Before(1) = {} /\ Before(Len(Chunks) + 1) = M
  BY ChunksAre
<1>3. UNCHANGED <<chNext, chBuffer, chHandlers>>
  BY DEF Ch!http_chunk, Ch!Listed
<1>4. chunked' \in BOOLEAN
  BY Zenon DEF Ch!http_chunk, Ch!Listed, ChunksInv, Ch!TypeOK
<1>5. CASE Ch!http_chunk
  <2>1. listing' = 1 /\ placed' = placed
    BY <1>5 DEF Ch!http_chunk
  <2>2. chunked' = chunked
    BY Zenon, <1>5 DEF Ch!http_chunk
  <2>3. listing' \in DOMAIN Chunks \cup {None} /\ placed' \subseteq M /\ chNext' \in Seq(DOMAIN Chunks \cup {None})
        /\ chBuffer' \in Seq(M) /\ chHandlers' \in Seq(Seq(M))
    BY <1>1, <1>2, <1>3, <2>1
  <2>4. Ch!TypeOK'
    BY Zenon, <1>4, <2>3 DEF Ch!TypeOK, M
  <2>5. InHands'
    BY <1>1, <1>3, <2>1, MoreInHands
  <2> QED
    BY <1>1, <1>2, <2>1, <2>2, <2>4, <2>5 DEF ChunksInv, Ch!ChunkedMeansAll, M
<1>6. CASE Ch!Listed
  <2>1. PICK n \in DOMAIN Chunks : n = listing
    BY <1>1, <1>6 DEF Ch!Listed
  <2>2. /\ n \in Nat /\ n >= 1 /\ n <= Len(Chunks) /\ n # None /\ Before(n) \subseteq placed
        /\ Chunks[n] \in Seq(M) /\ Before(n + 1) = Before(n) \cup Among(Chunks[n])
    BY <1>2, <2>1 DEF ChunksInv
  <2>3. Among(Chunks[n]) \subseteq M
    <3>1. DOMAIN Chunks[n] = 1 .. Len(Chunks[n])
      BY <2>2, LenProperties
    <3> QED
      BY <2>2, <3>1, ElementOfSeq DEF Among
  <2>4. CASE /\ placed' = placed \cup Among(Chunks[n])
             /\ listing' = IF n = Len(Chunks) THEN None ELSE n + 1
             /\ chunked' = (chunked \/ n = Len(Chunks))
    <3>1. listing' \in DOMAIN Chunks \cup {None} /\ placed' \subseteq M /\ chNext' \in Seq(DOMAIN Chunks \cup {None})
          /\ chBuffer' \in Seq(M) /\ chHandlers' \in Seq(Seq(M))
      BY <1>1, <1>2, <1>3, <2>2, <2>3, <2>4
    <3>2. Ch!TypeOK'
      BY Zenon, <1>4, <3>1 DEF Ch!TypeOK, M
    <3>3. InHands'
      BY <1>3, <2>4, <3>1, MoreInHands
    <3>4. chunked' => chunked \/ n = Len(Chunks)
      BY Zenon, <2>4
    <3>5. chunked' => placed' = M
      BY <1>1, <1>2, <2>2, <2>4, <3>1, <3>4
    <3>6. listing' # None => Before(listing') \subseteq placed'
      BY <2>2, <2>4
    <3> QED
      BY <3>2, <3>3, <3>5, <3>6 DEF ChunksInv, Ch!ChunkedMeansAll, M
  <2>5. CASE listing' = None /\ UNCHANGED <<placed, chunked>>
    <3>1. listing' \in DOMAIN Chunks \cup {None} /\ placed' \subseteq M /\ chNext' \in Seq(DOMAIN Chunks \cup {None})
          /\ chBuffer' \in Seq(M) /\ chHandlers' \in Seq(Seq(M))
      BY <1>1, <1>3, <2>5
    <3>2. Ch!TypeOK'
      BY Zenon, <1>4, <3>1 DEF Ch!TypeOK, M
    <3>3. InHands'
      BY <1>3, <2>5, <3>1, MoreInHands
    <3> QED
      BY <1>1, <2>5, <3>2, <3>3 DEF ChunksInv, Ch!ChunkedMeansAll, M
  <2> QED
    BY <1>6, <2>1, <2>4, <2>5 DEF Ch!Listed, Ch!ToSet, Among
<1> QED
  BY <1>5, <1>6

\* Every step keeps it ...
LEMMA ChunksKept == ChunksInv /\ [Ch!Next]_chVars => ChunksInv'
<1> SUFFICES ASSUME ChunksInv, [Ch!Next]_chVars
             PROVE  ChunksInv'
  OBVIOUS
<1>1. CASE UNCHANGED chVars
  <2>1. UNCHANGED <<chNext, chBuffer, chHandlers, listing, placed>>
    BY <1>1 DEF chVars
  <2>2. chunked' = chunked
    BY Zenon, <1>1 DEF chVars
  <2> QED
    BY <2>1, <2>2 DEF ChunksInv, Ch!TypeOK, Ch!ChunkedMeansAll, InHands
<1>2. ASSUME NEW r \in DOMAIN chNext, Ch!process_member_chunk(r)
      PROVE  ChunksInv'
  BY <1>2, ChunkKept
<1>3. ASSUME NEW i \in DOMAIN chHandlers, Ch!GoesOn(i)
      PROVE  ChunksInv'
  BY <1>3, HandlerKept
<1> QED
  BY <1>1, <1>2, <1>3, RequestKept, LostKept, ListKept DEF Ch!Next

\* ... and it is true at the start.
LEMMA ChunksStart == Init => ChunksInv
<1> SUFFICES ASSUME Ch!Init
             PROVE  ChunksInv
  BY DEF Init
<1>1. chNext = <<>> /\ chBuffer = <<>> /\ chHandlers = <<>> /\ listing = None /\ placed = {}
  BY DEF Ch!Init
<1>2. chunked = FALSE /\ chunked \in BOOLEAN
  BY Zenon DEF Ch!Init
<1>3. /\ chNext \in Seq(DOMAIN Chunks \cup {None}) /\ chBuffer \in Seq(M) /\ chHandlers \in Seq(Seq(M))
      /\ DOMAIN chNext = {} /\ DOMAIN chHandlers = {}
  BY <1>1
<1>4. Ch!TypeOK
  BY <1>1, <1>2, <1>3 DEF Ch!TypeOK, M
<1> QED
  BY <1>1, <1>2, <1>3, <1>4 DEF ChunksInv, Ch!ChunkedMeansAll, InHands, Among

\* Guild.gateway_chunk, process_member_chunk and http_chunk: a guild that says it is chunked has all its
\* members, however many requests fill and empty the one buffer and however often a handler yields.
THEOREM ChunkedIsWhole == Spec => [](Ch!TypeOK /\ Ch!ChunkedMeansAll)
<1>1. ChunksInv /\ [Next]_vars => ChunksInv'
  BY ChunksStep, ChunksKept
<1>2. ChunksInv => Ch!TypeOK /\ Ch!ChunkedMeansAll
  BY DEF ChunksInv
<1> QED
  BY <1>1, <1>2, ChunksStart, PTL DEF Spec

-----------------------------------------------------------------------------
(***************************************************************************)
(* Messages                                                                *)
(***************************************************************************)
Reactions == {"ADD", "REMOVE"}
Clears == {"REMOVE_EMOJI", "REMOVE_ALL"}
Ends == {"DELETE", "DELETE_BULK"}
Kinds == {"UPDATE"} \cup Reactions \cup Clears \cup Ends
Told == [type : Kinds, emoji : Emojis \cup {None}, number : Nat, version : Nat]
Copies == [version : Nat, counts : [Emojis -> Nat]]
Waiting == {h \in [number : Nat, type : Kinds \cup {"FETCH"}, emoji : Emojis \cup {None},
                   at : {"author", "permission", "asked", "answered"}, answer : Copies \cup {None},
                   raced : BOOLEAN] : h.at = "answered" => h.answer \in Copies}

\* How many x there are after an event e when there were n.
After(e, x, n) ==
    IF e.type = "REMOVE_ALL" \/ (e.type = "REMOVE_EMOJI" /\ e.emoji = x) THEN 0
    ELSE IF e.type = "ADD" /\ e.emoji = x THEN n + 1
    ELSE IF e.type = "REMOVE" /\ e.emoji = x THEN n - 1 ELSE n

\* The events q make m reactions x of n.
Amounts(q, x, n, m) ==
    \E c \in [0 .. Len(q) -> Int] :
        c[0] = n /\ c[Len(q)] = m /\ \A k \in 1 .. Len(q) : c[k] = After(q[k], x, c[k - 1])

\* The reactions that wait for their authors, and what the cached message has when they are counted.
Late(type, x) == {h \in msHandlers : h.at = "author" /\ h.type = type /\ h.emoji = x}
Known(x) == msCached.counts[x] + Cardinality(Late("ADD", x)) - Cardinality(Late("REMOVE", x))

MessageTypes ==
    /\ msServer \in [alive : BOOLEAN, version : Nat, counts : [Emojis -> Nat]]
    /\ msCached # None => msCached \in Copies
    /\ msEvents \in Seq(Told) /\ msChanges \in Nat /\ wrong \in BOOLEAN
    /\ \A k \in 1 .. Len(msEvents) :
          msEvents[k].type \in Reactions \cup {"REMOVE_EMOJI"} => msEvents[k].emoji \in Emojis
    /\ msHandlers \in SUBSET Waiting
    /\ \A h \in msHandlers : h.at = "author" => h.type \in Reactions /\ h.emoji \in Emojis
    /\ \A type \in Reactions, x \in Emojis : IsFiniteSet(Late(type, x))

\* Events come in the order in which the server made its changes; whoever waits was there before.
Numbered ==
    /\ Len(msEvents) <= msChanges
    /\ \A k \in 1 .. Len(msEvents) : msEvents[k].number = msChanges - Len(msEvents) + k
    /\ \A h \in msHandlers : h.number <= msChanges - Len(msEvents)

\* The last edit on its way has the server's text, and nothing follows the deletion.
NewestLast ==
    /\ \A k \in 1 .. Len(msEvents) :
          msEvents[k].type = "UPDATE" /\ (\A j \in k + 1 .. Len(msEvents) : msEvents[j].type # "UPDATE")
             => msEvents[k].version = msServer.version
    /\ \A k \in 1 .. Len(msEvents) : msEvents[k].type \in Ends => ~msServer.alive

\* An answer that nothing has overtaken is what the server has, and counts all that was known.
AnswersTell ==
    \A h \in msHandlers : h.at = "answered" /\ ~h.raced =>
        /\ msServer.alive /\ h.answer = Ms!Seen
        /\ \A k \in 1 .. Len(msEvents) : msEvents[k].type \in {"UPDATE"} \cup Ends
        /\ \A g \in msHandlers : g.at # "author"

\* A cached message that is not known to be wrong becomes what the server has, once the events on
\* their way have come and the late reactions are counted.
InTouch ==
    msCached # None /\ ~wrong =>
        /\ msServer.alive \/ \E k \in 1 .. Len(msEvents) : msEvents[k].type \in Ends
        /\ (\A k \in 1 .. Len(msEvents) : msEvents[k].type # "UPDATE") => msCached.version = msServer.version
        /\ \A x \in Emojis : Amounts(msEvents, x, Known(x), msServer.counts[x])

MessageInv == MessageTypes /\ Numbered /\ NewestLast /\ AnswersTell /\ InTouch

\* A step of the composition is one of Messages, or changes nothing of it.
LEMMA MessageStep == [Next]_vars => [Ms!Next]_msVars
BY DEF Next, vars, msVars

-----------------------------------------------------------------------------
\* An event makes a number of a number.
LEMMA AfterIsInt ==
    ASSUME NEW e, NEW x, NEW n \in Int
    PROVE  After(e, x, n) \in Int
BY DEF After

\* The first event is handled.
LEMMA AmountsLeft ==
    ASSUME NEW q \in Seq(Told), q # <<>>, NEW x, NEW n, NEW m, Amounts(q, x, n, m)
    PROVE  Amounts(Tail(q), x, After(Head(q), x, n), m)
<1>1. PICK c \in [0 .. Len(q) -> Int] :
          c[0] = n /\ c[Len(q)] = m /\ \A k \in 1 .. Len(q) : c[k] = After(q[k], x, c[k - 1])
  BY DEF Amounts
<1>2. /\ Len(q) \in Nat \ {0} /\ Len(Tail(q)) = Len(q) - 1 /\ Head(q) = q[1]
      /\ \A k \in 1 .. Len(q) - 1 : Tail(q)[k] = q[k + 1]
  OBVIOUS
<1> DEFINE d == [k \in 0 .. Len(Tail(q)) |-> c[k + 1]]
<1>3. d \in [0 .. Len(Tail(q)) -> Int] /\ d[Len(Tail(q))] = m /\ d[0] = c[1]
  BY <1>1, <1>2
<1>4. c[1] = After(Head(q), x, n)
  BY <1>1, <1>2
<1>5. \A k \in 1 .. Len(Tail(q)) : d[k] = After(Tail(q)[k], x, d[k - 1])
  BY <1>1, <1>2
<1> HIDE DEF d
<1> QED
  BY <1>3, <1>4, <1>5 DEF Amounts

\* An event is sent.
LEMMA AmountsSent ==
    ASSUME NEW q \in Seq(Told), NEW e \in Told, NEW x, NEW n, NEW m, Amounts(q, x, n, m)
    PROVE  Amounts(Append(q, e), x, n, After(e, x, m))
<1>1. PICK c \in [0 .. Len(q) -> Int] :
          c[0] = n /\ c[Len(q)] = m /\ \A k \in 1 .. Len(q) : c[k] = After(q[k], x, c[k - 1])
  BY DEF Amounts
<1>2. /\ Len(q) \in Nat /\ Len(Append(q, e)) = Len(q) + 1 /\ Append(q, e)[Len(q) + 1] = e
      /\ \A k \in 1 .. Len(q) : Append(q, e)[k] = q[k]
  OBVIOUS
<1>3. m \in Int /\ After(e, x, m) \in Int
  BY <1>1, <1>2, AfterIsInt
<1> DEFINE d == [k \in 0 .. Len(Append(q, e)) |-> IF k <= Len(q) THEN c[k] ELSE After(e, x, m)]
<1>4. /\ d \in [0 .. Len(Append(q, e)) -> Int] /\ d[0] = n
      /\ d[Len(q) + 1] = After(e, x, m) /\ \A k \in 0 .. Len(q) : d[k] = c[k]
  BY <1>1, <1>2, <1>3
<1> HIDE DEF d
<1>5. ASSUME NEW k \in 1 .. Len(Append(q, e)) PROVE d[k] = After(Append(q, e)[k], x, d[k - 1])
  <2>1. CASE k <= Len(q)
    BY <1>1, <1>2, <1>4, <2>1
  <2>2. CASE k = Len(q) + 1
    BY <1>1, <1>2, <1>4, <2>2
  <2> QED
    BY <1>2, <2>1, <2>2
<1> QED
  BY <1>2, <1>4, <1>5 DEF Amounts

\* Without reactions on their way nothing changes.
LEMMA AmountsStay ==
    ASSUME NEW q \in Seq(Told), NEW x, NEW n \in Int,
           \A k \in 1 .. Len(q) : q[k].type \in {"UPDATE"} \cup Ends
    PROVE  Amounts(q, x, n, n)
<1> DEFINE c == [k \in 0 .. Len(q) |-> n]
<1>1. Len(q) \in Nat /\ c \in [0 .. Len(q) -> Int] /\ \A k \in 0 .. Len(q) : c[k] = n
  OBVIOUS
<1>2. \A k \in 1 .. Len(q) : After(q[k], x, n) = n
  BY DEF After, Ends
<1> HIDE DEF c
<1>3. c[0] = n /\ c[Len(q)] = n /\ \A k \in 1 .. Len(q) : c[k] = After(q[k], x, c[k - 1])
  BY <1>1, <1>2
<1> QED
  BY <1>1, <1>3 DEF Amounts

\* ... and what there is stays.
LEMMA AmountsSame ==
    ASSUME NEW q \in Seq(Told), NEW x, NEW n, NEW m, Amounts(q, x, n, m),
           \A k \in 1 .. Len(q) : q[k].type \in {"UPDATE"} \cup Ends
    PROVE  n = m
<1>1. PICK c \in [0 .. Len(q) -> Int] :
          c[0] = n /\ c[Len(q)] = m /\ \A k \in 1 .. Len(q) : c[k] = After(q[k], x, c[k - 1])
  BY DEF Amounts
<1>2. Len(q) \in Nat
  OBVIOUS
<1> DEFINE S == {k \in 0 .. Len(q) : c[k] # n}
<1>3. CASE S = {}
  BY <1>1, <1>2, <1>3
<1>4. CASE S # {}
  <2>1. PICK k \in S : \A j \in S : k <= j
    <3>1. S \in SUBSET Nat
      BY <1>2
    <3> QED
      BY <1>4, <3>1, LeastExists
  <2>2. k \in 1 .. Len(q) /\ k - 1 \in 0 .. Len(q) /\ ~(k <= k - 1)
    BY <1>1, <1>2
  <2>3. c[k - 1] = n
    BY <2>1, <2>2
  <2>4. c[k] = n
    BY <1>1, <2>2, <2>3 DEF After, Ends
  <2> QED
    BY <2>4
<1> QED
  BY <1>3, <1>4

\* When everything has come there are as many as there are to be.
LEMMA AmountsAtLast ==
    ASSUME NEW x, NEW n, NEW m, Amounts(<<>>, x, n, m)
    PROVE  n = m
BY DEF Amounts

-----------------------------------------------------------------------------
\* What is overtaken stays where it is, and an answer among it is known to be too old.
LEMMA OvertakenStay ==
    ASSUME MessageTypes, msHandlers' = Ms!Overtaken(msHandlers)
    PROVE  /\ msHandlers' \in SUBSET Waiting
           /\ \A h \in msHandlers' : h.at = "answered" => h.raced
           /\ \A h \in msHandlers' : h.at = "author" => h \in msHandlers
           /\ \A h \in msHandlers' : \E g \in msHandlers : h.number = g.number
           /\ \A type, x : Late(type, x)' = Late(type, x)
<1>1. \A h \in msHandlers : h \in Waiting
  BY DEF MessageTypes
<1>2. ASSUME NEW h \in msHandlers'
      PROVE  \E g \in msHandlers : h = [g EXCEPT !.raced = @ \/ g.at = "answered"]
  BY <1>2 DEF Ms!Overtaken
<1>3. ASSUME NEW g \in msHandlers, NEW h, h = [g EXCEPT !.raced = @ \/ g.at = "answered"]
      PROVE  /\ h \in Waiting /\ h.at = g.at /\ h.number = g.number
             /\ (h.at = "answered" => h.raced) /\ (h.at # "answered" => h = g)
  <2>1. g \in Waiting /\ (g.raced \/ g.at = "answered") \in BOOLEAN
    BY <1>1
  <2>2. h \in Waiting /\ h.at = g.at /\ h.number = g.number
    BY <1>3, <2>1 DEF Waiting
  <2>3. h.raced = (g.raced \/ g.at = "answered") /\ g.raced \in BOOLEAN
    BY <1>3, <2>1 DEF Waiting
  <2>4. ASSUME g.at # "answered" PROVE h = g
    <3>1. (g.raced \/ g.at = "answered") = g.raced
      BY <2>3, <2>4
    <3>2. h = [g EXCEPT !.raced = g.raced]
      BY <1>3, <3>1
    <3> QED
      BY <2>1, <3>2 DEF Waiting
  <2> QED
    BY <2>2, <2>3, <2>4
<1>4. \A g \in msHandlers : [g EXCEPT !.raced = @ \/ g.at = "answered"] \in msHandlers'
  BY DEF Ms!Overtaken
<1>5. ASSUME NEW g \in msHandlers, g.at = "author" PROVE g \in msHandlers'
  <2>1. PICK h : h = [g EXCEPT !.raced = @ \/ g.at = "answered"]
    OBVIOUS
  <2>2. h = g
    BY <1>3, <1>5, <2>1
  <2>3. h \in msHandlers'
    BY <1>4, <2>1
  <2> QED
    BY <2>2, <2>3
<1>6. ASSUME NEW h \in msHandlers', h.at = "author" PROVE h \in msHandlers
  BY <1>2, <1>3, <1>6
<1>7. ASSUME NEW type, NEW x PROVE Late(type, x)' = Late(type, x)
  BY <1>5, <1>6 DEF Late
<1>8. /\ msHandlers' \in SUBSET Waiting
      /\ \A h \in msHandlers' : h.at = "answered" => h.raced
      /\ \A h \in msHandlers' : \E g \in msHandlers : h.number = g.number
  BY <1>2, <1>3
<1> QED
  BY <1>6, <1>7, <1>8

\* A handler that goes on, or ends, is no longer one that waits for an author.
LEMMA LateLess ==
    ASSUME MessageTypes, NEW h \in msHandlers, NEW G, msHandlers' = (msHandlers \ {h}) \cup G,
           \A g \in G : g.at # "author"
    PROVE  /\ \A type, x : Late(type, x)' = Late(type, x) \ {h}
           /\ h.at # "author" => \A type, x : Late(type, x)' = Late(type, x)
           /\ \A type \in Reactions, x \in Emojis : IsFiniteSet(Late(type, x)')
<1>1. ASSUME NEW type, NEW x
      PROVE  Late(type, x)' = Late(type, x) \ {h} /\ (h.at # "author" => Late(type, x)' = Late(type, x))
  BY DEF Late
<1>2. ASSUME NEW type \in Reactions, NEW x \in Emojis PROVE IsFiniteSet(Late(type, x)')
  <2>1. IsFiniteSet(Late(type, x)) /\ Late(type, x)' = Late(type, x) \ {h}
    BY <1>1 DEF MessageTypes
  <2>2. IsFiniteSet(Late(type, x) \ {h})
    BY <2>1, FS_RemoveElement
  <2> QED
    BY <2>1, <2>2
<1> QED
  BY <1>1, <1>2

\* A handler ends that did not wait for an author, or does not any longer.
LEMMA LateEnds ==
    ASSUME MessageTypes, NEW h \in msHandlers, msHandlers' = msHandlers \ {h}
    PROVE  /\ h.at # "author" => \A type, x : Late(type, x)' = Late(type, x)
           /\ \A type \in Reactions, x \in Emojis : IsFiniteSet(Late(type, x)')
<1>1. PICK G : G = {}
  OBVIOUS
<1>2. msHandlers' = (msHandlers \ {h}) \cup G /\ \A g \in G : g.at # "author"
  BY <1>1
<1> QED
  BY <1>2, LateLess

\* A late reaction is counted.
LEMMA LateCounted ==
    ASSUME MessageTypes, NEW h \in msHandlers, h.at = "author", msHandlers' = msHandlers \ {h},
           NEW type \in Reactions, NEW x \in Emojis
    PROVE  Cardinality(Late(type, x)') =
              IF h.type = type /\ h.emoji = x THEN Cardinality(Late(type, x)) - 1 ELSE Cardinality(Late(type, x))
<1>1. Late(type, x)' = Late(type, x) \ {h} /\ IsFiniteSet(Late(type, x))
  BY DEF Late, MessageTypes
<1>2. h \in Late(type, x) <=> h.type = type /\ h.emoji = x
  BY DEF Late
<1> QED
  BY <1>1, <1>2, FS_RemoveElement

\* A reaction begins to wait for its author.
LEMMA LateComes ==
    ASSUME MessageTypes, NEW g, g \notin msHandlers, g.at = "author", msHandlers' = msHandlers \cup {g},
           NEW type \in Reactions, NEW x \in Emojis
    PROVE  /\ IsFiniteSet(Late(type, x)')
           /\ Cardinality(Late(type, x)') =
                IF g.type = type /\ g.emoji = x THEN Cardinality(Late(type, x)) + 1 ELSE Cardinality(Late(type, x))
<1>1. Late(type, x)' = (IF g.type = type /\ g.emoji = x THEN Late(type, x) \cup {g} ELSE Late(type, x))
  BY DEF Late
<1>2. g \notin Late(type, x) /\ IsFiniteSet(Late(type, x))
  BY DEF Late, MessageTypes
<1> QED
  BY <1>1, <1>2, FS_AddElement

\* Another handler begins to wait.
LEMMA OthersCome ==
    ASSUME MessageTypes, NEW g, g.at # "author", msHandlers' = msHandlers \cup {g}
    PROVE  \A type, x : Late(type, x)' = Late(type, x)
BY DEF Late

\* There are finitely many late reactions.
LEMMA LateNumbers ==
    ASSUME MessageTypes, NEW type \in Reactions, NEW x \in Emojis
    PROVE  Cardinality(Late(type, x)) \in Nat
BY FS_CardinalityType DEF MessageTypes

\* A reaction is counted at once.
LEMMA CountedAs ==
    ASSUME MessageTypes, msCached # None, NEW e, e.type \in Reactions, e.emoji \in Emojis,
           Ms!Counted(e.type, e.emoji)
    PROVE  /\ msCached' \in Copies /\ wrong' \in BOOLEAN /\ msCached'.version = msCached.version
           /\ ~wrong' => ~wrong /\ \A x \in Emojis : msCached'.counts[x] = After(e, x, msCached.counts[x])
<1> DEFINE n == Ms!Changed(e.type, e.emoji)
<1>1. msCached \in Copies /\ msCached.counts \in [Emojis -> Nat] /\ wrong \in BOOLEAN
  BY DEF MessageTypes, Copies
<1>2. /\ msCached' = [msCached EXCEPT !.counts[e.emoji] = n]
      /\ wrong' = (wrong \/ (e.type = "REMOVE" /\ msCached.counts[e.emoji] = 0))
  BY DEF Ms!Counted, Ms!place_message_data
<1>3. /\ n \in Nat
      /\ ~(e.type = "REMOVE" /\ msCached.counts[e.emoji] = 0) =>
            n = IF e.type = "ADD" THEN msCached.counts[e.emoji] + 1 ELSE msCached.counts[e.emoji] - 1
  BY <1>1 DEF Ms!Changed, Reactions
<1> HIDE DEF n
<1>4. /\ msCached'.counts = [msCached.counts EXCEPT ![e.emoji] = n]
      /\ msCached'.version = msCached.version /\ msCached' \in Copies
  BY <1>1, <1>2, <1>3 DEF Copies
<1>5. \A x \in Emojis : msCached'.counts[x] = IF x = e.emoji THEN n ELSE msCached.counts[x]
  BY <1>1, <1>4
<1>6. wrong' \in BOOLEAN
  BY <1>1, <1>2
<1>7. ASSUME ~wrong' PROVE ~wrong /\ ~(e.type = "REMOVE" /\ msCached.counts[e.emoji] = 0)
  BY <1>2, <1>7
<1>8. ASSUME ~wrong', NEW x \in Emojis PROVE msCached'.counts[x] = After(e, x, msCached.counts[x])
  BY <1>3, <1>5, <1>7, <1>8 DEF After, Reactions
<1> QED
  BY <1>4, <1>6, <1>7, <1>8

-----------------------------------------------------------------------------
\* The server makes a change and sends its event.
LEMMA ChangeSent ==
    ASSUME MessageInv, NEW type \in Kinds, NEW emoji \in Emojis \cup {None}, NEW new, Ms!Send(type, emoji, new),
           type \in Reactions \cup {"REMOVE_EMOJI"} => emoji \in Emojis,
           new \in [alive : BOOLEAN, version : Nat, counts : [Emojis -> Nat]],
           new.alive <=> type \notin Ends,
           new.version = IF type = "UPDATE" THEN msServer.version + 1 ELSE msServer.version,
           \A x \in Emojis : \A number, version :
              new.counts[x] = After([type |-> type, emoji |-> emoji, number |-> number, version |-> version],
                                    x, msServer.counts[x])
    PROVE  MessageInv'
<1> DEFINE e == [type |-> type, emoji |-> emoji, number |-> msChanges', version |-> new.version]
<1>1. /\ msServer.alive /\ msChanges' = msChanges + 1 /\ msServer' = new
      /\ msEvents' = Append(msEvents, e) /\ msHandlers' = Ms!Overtaken(msHandlers)
      /\ msCached' = msCached /\ wrong' = wrong
  BY DEF Ms!Send
<1>2. /\ msEvents \in Seq(Told) /\ msChanges \in Nat /\ Len(msEvents) \in Nat /\ e \in Told
      /\ e.type = type /\ e.emoji = emoji /\ e.number = msChanges + 1 /\ e.version = new.version
  <2>1. msEvents \in Seq(Told) /\ msChanges \in Nat
    BY DEF MessageInv, MessageTypes
  <2> QED
    BY <1>1, <2>1 DEF Told
<1>e. \A x \in Emojis : msServer'.counts[x] = After(e, x, msServer.counts[x])
  BY <1>1
<1> HIDE DEF e
<1>3. /\ msEvents' \in Seq(Told) /\ Len(msEvents') = Len(msEvents) + 1
      /\ msEvents'[Len(msEvents) + 1] = e /\ \A k \in 1 .. Len(msEvents) : msEvents'[k] = msEvents[k]
  BY <1>1, <1>2
<1>4. /\ msHandlers' \in SUBSET Waiting
      /\ \A h \in msHandlers' : h.at = "answered" => h.raced
      /\ \A h \in msHandlers' : h.at = "author" => h \in msHandlers
      /\ \A h \in msHandlers' : \E g \in msHandlers : h.number = g.number
      /\ \A t, x : Late(t, x)' = Late(t, x)
  BY <1>1, OvertakenStay DEF MessageInv
<1>5. MessageTypes'
  <2>1. \A t \in Reactions, x \in Emojis : IsFiniteSet(Late(t, x)')
    BY <1>4 DEF MessageInv, MessageTypes
  <2>2. \A h \in msHandlers' : h.at = "author" => h.type \in Reactions /\ h.emoji \in Emojis
    BY <1>4 DEF MessageInv, MessageTypes
  <2>3. \A k \in 1 .. Len(msEvents') :
          msEvents'[k].type \in Reactions \cup {"REMOVE_EMOJI"} => msEvents'[k].emoji \in Emojis
    <3>1. \A k \in 1 .. Len(msEvents) :
            msEvents[k].type \in Reactions \cup {"REMOVE_EMOJI"} => msEvents[k].emoji \in Emojis
      BY DEF MessageInv, MessageTypes
    <3>2. \A k \in 1 .. Len(msEvents') : k \in 1 .. Len(msEvents) \/ k = Len(msEvents) + 1
      BY <1>2, <1>3
    <3> QED
      BY <1>2, <1>3, <3>1, <3>2
  <2>4. msChanges' \in Nat /\ wrong' \in BOOLEAN /\ (msCached' # None => msCached' \in Copies)
    BY <1>1, <1>2 DEF MessageInv, MessageTypes
  <2> QED
    BY <1>1, <1>3, <1>4, <2>1, <2>2, <2>3, <2>4 DEF MessageTypes
<1>6. Numbered'
  <2>1. /\ Len(msEvents) <= msChanges
        /\ \A k \in 1 .. Len(msEvents) : msEvents[k].number = msChanges - Len(msEvents) + k
        /\ \A h \in msHandlers : h.number <= msChanges - Len(msEvents)
    BY DEF MessageInv, Numbered
  <2>2. \A k \in 1 .. Len(msEvents') : msEvents'[k].number = msChanges' - Len(msEvents') + k
    <3>1. \A k \in 1 .. Len(msEvents') : k \in 1 .. Len(msEvents) \/ k = Len(msEvents) + 1
      BY <1>2, <1>3
    <3>2. \A k \in 1 .. Len(msEvents) : msEvents'[k].number = msChanges - Len(msEvents) + k
      BY <1>3, <2>1
    <3>3. msEvents'[Len(msEvents) + 1].number = msChanges + 1
      BY <1>2, <1>3
    <3>4. msChanges' - Len(msEvents') = msChanges - Len(msEvents)
      BY <1>1, <1>2, <1>3
    <3>5. msChanges - Len(msEvents) + (Len(msEvents) + 1) = msChanges + 1
      BY <1>2
    <3> QED
      BY <3>1, <3>2, <3>3, <3>4, <3>5
  <2>3. \A h \in msHandlers' : h.number <= msChanges' - Len(msEvents')
    BY <1>1, <1>2, <1>3, <1>4, <2>1
  <2> QED
    BY <1>1, <1>2, <1>3, <2>1, <2>2, <2>3 DEF Numbered
<1>7. NewestLast'
  <2>1. \A k \in 1 .. Len(msEvents) : msEvents[k].type \notin Ends
    BY <1>1 DEF MessageInv, NewestLast
  <2>2. ASSUME NEW k \in 1 .. Len(msEvents'), msEvents'[k].type = "UPDATE",
               \A j \in k + 1 .. Len(msEvents') : msEvents'[j].type # "UPDATE"
        PROVE  msEvents'[k].version = msServer'.version
    <3>1. CASE k = Len(msEvents) + 1
      BY <1>1, <1>2, <1>3, <3>1
    <3>2. CASE k \in 1 .. Len(msEvents)
      <4>1. type # "UPDATE" /\ msServer'.version = msServer.version
        BY <1>1, <1>2, <1>3, <2>2, <3>2
      <4>2. \A j \in k + 1 .. Len(msEvents) : msEvents[j].type # "UPDATE"
        BY <1>2, <1>3, <2>2, <3>2
      <4> QED
        BY <1>3, <2>2, <3>2, <4>1, <4>2 DEF MessageInv, NewestLast
    <3> QED
      BY <1>2, <1>3, <3>1, <3>2
  <2>3. \A k \in 1 .. Len(msEvents') : msEvents'[k].type \in Ends => ~msServer'.alive
    BY <1>1, <1>2, <1>3, <2>1
  <2> QED
    BY <2>2, <2>3 DEF NewestLast
<1>8. AnswersTell'
  BY <1>4 DEF AnswersTell
<1>9. InTouch'
  <2> SUFFICES ASSUME msCached # None, ~wrong PROVE InTouch'
    BY <1>1 DEF InTouch
  <2>1. msServer'.alive \/ \E k \in 1 .. Len(msEvents') : msEvents'[k].type \in Ends
    BY <1>1, <1>2, <1>3
  <2>2. ASSUME \A k \in 1 .. Len(msEvents') : msEvents'[k].type # "UPDATE"
        PROVE  msCached'.version = msServer'.version
    <3>1. type # "UPDATE" /\ \A k \in 1 .. Len(msEvents) : msEvents[k].type # "UPDATE"
      BY <1>2, <1>3, <2>2
    <3> QED
      BY <1>1, <3>1 DEF MessageInv, InTouch
  <2>3. ASSUME NEW x \in Emojis PROVE Amounts(msEvents', x, Known(x)', msServer'.counts[x])
    <3>1. Known(x)' = Known(x)
      BY <1>1, <1>4 DEF Known
    <3>2. Amounts(msEvents, x, Known(x), msServer.counts[x])
      BY DEF MessageInv, InTouch
    <3>3. Amounts(Append(msEvents, e), x, Known(x), After(e, x, msServer.counts[x]))
      BY <1>2, <3>2, AmountsSent
    <3> QED
      BY <1>1, <1>e, <3>1, <3>3
  <2> QED
    BY <2>1, <2>2, <2>3 DEF InTouch
<1> QED
  BY <1>5, <1>6, <1>7, <1>8, <1>9 DEF MessageInv

-----------------------------------------------------------------------------
\* The first event is taken.
EventTaken ==
    /\ Len(msEvents) \in Nat \ {0} /\ Len(msEvents') = Len(msEvents) - 1
    /\ \A k \in 1 .. Len(msEvents') : msEvents'[k] = msEvents[k + 1]
    /\ Head(msEvents) = msEvents[1] /\ Head(msEvents) \in Told
    /\ (Head(msEvents).type \in Reactions \cup {"REMOVE_EMOJI"} => Head(msEvents).emoji \in Emojis)
    /\ Head(msEvents).number = msChanges' - Len(msEvents')
    /\ msEvents' \in Seq(Told) /\ msChanges' \in Nat
    /\ \A k \in 1 .. Len(msEvents') :
          msEvents'[k].type \in Reactions \cup {"REMOVE_EMOJI"} => msEvents'[k].emoji \in Emojis
    /\ Len(msEvents') <= msChanges'
    /\ \A k \in 1 .. Len(msEvents') : msEvents'[k].number = msChanges' - Len(msEvents') + k
    /\ \A h \in msHandlers : h.number < msChanges' - Len(msEvents')
    /\ NewestLast'

\* What an event leaves behind when it is taken.
LEMMA TakingEvent ==
    ASSUME MessageInv, msEvents # <<>>, msEvents' = Tail(msEvents), UNCHANGED <<msServer, msChanges>>
    PROVE  EventTaken
<1>1. msEvents \in Seq(Told) /\ msChanges \in Nat
  BY DEF MessageInv, MessageTypes
<1>2. /\ Len(msEvents) \in Nat \ {0} /\ Len(msEvents') = Len(msEvents) - 1
      /\ \A k \in 1 .. Len(msEvents') : msEvents'[k] = msEvents[k + 1]
      /\ Head(msEvents) = msEvents[1] /\ Head(msEvents) \in Told /\ msEvents' \in Seq(Told)
  BY <1>1
<1>3. /\ Len(msEvents) <= msChanges /\ msChanges' = msChanges
      /\ \A k \in 1 .. Len(msEvents) : msEvents[k].number = msChanges - Len(msEvents) + k
      /\ \A h \in msHandlers : h.number <= msChanges - Len(msEvents)
  BY DEF MessageInv, Numbered
<1>4. /\ msChanges' \in Nat /\ Len(msEvents') <= msChanges'
      /\ Head(msEvents).number = msChanges' - Len(msEvents')
  BY <1>1, <1>2, <1>3
<1>5. \A k \in 1 .. Len(msEvents') : msEvents'[k].number = msChanges' - Len(msEvents') + k
  BY <1>1, <1>2, <1>3
<1>6. \A h \in msHandlers : h.number < msChanges' - Len(msEvents')
  <2>1. \A h \in msHandlers : h.number \in Nat
    BY DEF MessageInv, MessageTypes, Waiting
  <2> QED
    BY <1>1, <1>2, <1>3, <2>1
<1>7. \A k \in 1 .. Len(msEvents) :
          msEvents[k].type \in Reactions \cup {"REMOVE_EMOJI"} => msEvents[k].emoji \in Emojis
  BY DEF MessageInv, MessageTypes
<1>8. NewestLast'
  <2>1. ASSUME NEW k \in 1 .. Len(msEvents'), msEvents'[k].type = "UPDATE",
               \A j \in k + 1 .. Len(msEvents') : msEvents'[j].type # "UPDATE"
        PROVE  msEvents'[k].version = msServer'.version
    <3>1. k + 1 \in 1 .. Len(msEvents) /\ msEvents[k + 1].type = "UPDATE"
      BY <1>2, <2>1
    <3>2. \A j \in k + 2 .. Len(msEvents) : msEvents[j].type # "UPDATE"
      <4> TAKE j \in k + 2 .. Len(msEvents)
      <4>1. j - 1 \in k + 1 .. Len(msEvents') /\ msEvents'[j - 1] = msEvents[j]
        BY <1>2, <2>1
      <4> QED
        BY <2>1, <4>1
    <3>3. msEvents[k + 1].version = msServer.version
      BY <3>1, <3>2 DEF MessageInv, NewestLast
    <3> QED
      BY <1>2, <3>3
  <2>2. \A k \in 1 .. Len(msEvents') : msEvents'[k].type \in Ends => ~msServer'.alive
    BY <1>2 DEF MessageInv, NewestLast
  <2> QED
    BY <2>1, <2>2 DEF NewestLast
<1> QED
  BY <1>2, <1>4, <1>5, <1>6, <1>7, <1>8 DEF EventTaken

\* The message stays in touch when what the event says is done, or will be by a handler.
LEMMA TouchKept ==
    ASSUME MessageInv, EventTaken, msEvents' = Tail(msEvents), UNCHANGED <<msServer, msChanges>>,
           msCached # None, ~wrong, Head(msEvents).type \notin Ends,
           msCached'.version = IF Head(msEvents).type = "UPDATE" THEN Head(msEvents).version ELSE msCached.version,
           \A x \in Emojis : Known(x)' = After(Head(msEvents), x, Known(x))
    PROVE  InTouch'
<1>1. /\ msServer.alive \/ \E k \in 1 .. Len(msEvents) : msEvents[k].type \in Ends
      /\ (\A k \in 1 .. Len(msEvents) : msEvents[k].type # "UPDATE") => msCached.version = msServer.version
      /\ \A x \in Emojis : Amounts(msEvents, x, Known(x), msServer.counts[x])
  BY DEF MessageInv, InTouch
<1>2. msServer'.alive \/ \E k \in 1 .. Len(msEvents') : msEvents'[k].type \in Ends
  <2>1. CASE msServer.alive
    BY <2>1
  <2>2. ASSUME NEW k \in 1 .. Len(msEvents), msEvents[k].type \in Ends
        PROVE  \E j \in 1 .. Len(msEvents') : msEvents'[j].type \in Ends
    <3>1. k # 1 /\ k - 1 \in 1 .. Len(msEvents')
      BY <2>2 DEF EventTaken
    <3>2. msEvents'[k - 1] = msEvents[k]
      BY <3>1 DEF EventTaken
    <3> QED
      BY <2>2, <3>1, <3>2
  <2> QED
    BY <1>1, <2>1, <2>2
<1>3. ASSUME \A k \in 1 .. Len(msEvents') : msEvents'[k].type # "UPDATE"
      PROVE  msCached'.version = msServer'.version
  <2>1. \A k \in 2 .. Len(msEvents) : msEvents[k].type # "UPDATE"
    <3> TAKE k \in 2 .. Len(msEvents)
    <3>1. k - 1 \in 1 .. Len(msEvents') /\ msEvents'[k - 1] = msEvents[k]
      BY DEF EventTaken
    <3> QED
      BY <1>3, <3>1
  <2>2. CASE Head(msEvents).type = "UPDATE"
    <3>1. 1 \in 1 .. Len(msEvents) /\ msEvents[1].type = "UPDATE" /\ Head(msEvents) = msEvents[1]
      BY <2>2 DEF EventTaken
    <3>2. msEvents[1].version = msServer.version
      BY <2>1, <3>1 DEF MessageInv, NewestLast
    <3> QED
      BY <2>2, <3>1, <3>2
  <2>3. CASE Head(msEvents).type # "UPDATE"
    <3>1. \A k \in 1 .. Len(msEvents) : msEvents[k].type # "UPDATE"
      BY <2>1, <2>3 DEF EventTaken
    <3> QED
      BY <1>1, <2>3, <3>1
  <2> QED
    BY <2>2, <2>3
<1>4. ASSUME NEW x \in Emojis PROVE Amounts(msEvents', x, Known(x)', msServer'.counts[x])
  <2>1. msEvents \in Seq(Told) /\ msEvents # <<>>
    BY DEF MessageInv, MessageTypes, EventTaken
  <2>2. Amounts(Tail(msEvents), x, After(Head(msEvents), x, Known(x)), msServer.counts[x])
    BY <1>1, <2>1, AmountsLeft
  <2> QED
    BY <2>2
<1> QED
  BY <1>2, <1>3, <1>4 DEF InTouch

\* What the types and the numbers are after an event, from what became of the handlers.
LEMMA ArrivedTyped ==
    ASSUME MessageInv, EventTaken, UNCHANGED <<msServer, msChanges>>,
           wrong' \in BOOLEAN, msCached' # None => msCached' \in Copies,
           msHandlers' \in SUBSET Waiting,
           \A h \in msHandlers' : h.at = "author" => h.type \in Reactions /\ h.emoji \in Emojis,
           \A type \in Reactions, x \in Emojis : IsFiniteSet(Late(type, x)'),
           \A h \in msHandlers' : h.number <= msChanges' - Len(msEvents'),
           AnswersTell', InTouch'
    PROVE  MessageInv'
<1>1. MessageTypes'
  BY DEF MessageTypes, MessageInv, EventTaken
<1>2. Numbered'
  BY DEF Numbered, EventTaken
<1> QED
  BY <1>1, <1>2 DEF MessageInv, EventTaken

\* The processor lets a handler wait.
LEMMA HandlerWaits ==
    ASSUME MessageInv, EventTaken, msEvents' = Tail(msEvents), UNCHANGED <<msServer, msChanges>>,
           Head(msEvents).type \notin {"UPDATE"} \cup Ends, NEW at \in {"author", "permission", "asked"},
           Ms!Waits(Head(msEvents), at), at = "author" => Head(msEvents).type \in Reactions,
           at # "author" => msCached = None
    PROVE  MessageInv'
<1> DEFINE e == Head(msEvents)
           g == Ms!Handler(e.number, e.type, e.emoji, at)
<1>1. msHandlers' = msHandlers \cup {g} /\ msCached' = msCached /\ wrong' = wrong
  BY DEF Ms!Waits
<1>2. /\ g \in Waiting /\ g.at = at /\ g.type = e.type /\ g.emoji = e.emoji /\ g.number = e.number
  BY DEF Ms!Handler, Waiting, EventTaken, Told
<1>3. \A h \in msHandlers : h \in Waiting /\ h.number < g.number
  BY <1>2 DEF EventTaken, MessageInv, MessageTypes
<1>4. g \notin msHandlers
  <2>1. g.number \in Nat
    BY <1>2 DEF EventTaken, Told
  <2> QED
    BY <1>3, <2>1
<1>5. MessageTypes /\ e \in Told
  BY DEF MessageInv, EventTaken
<1>h. e = Head(msEvents)
  OBVIOUS
<1> HIDE DEF g, e
<1>6. \A h \in msHandlers' : h.number <= msChanges' - Len(msEvents')
  <2>1. msChanges' - Len(msEvents') \in Int /\ g.number = msChanges' - Len(msEvents')
    BY <1>2, <1>h DEF EventTaken
  <2>2. \A h \in msHandlers : h.number \in Nat /\ h.number < msChanges' - Len(msEvents')
    BY <1>3 DEF Waiting, EventTaken
  <2>3. \A h \in msHandlers : h.number <= msChanges' - Len(msEvents')
    BY <2>1, <2>2
  <2>4. g.number <= msChanges' - Len(msEvents')
    BY <2>1
  <2> QED
    BY <1>1, <2>3, <2>4
<1>7. \A h \in msHandlers' : h.at = "author" => h.type \in Reactions /\ h.emoji \in Emojis
  BY <1>1, <1>2, <1>5, <1>h DEF MessageTypes, EventTaken
<1>8. \A type \in Reactions, x \in Emojis : IsFiniteSet(Late(type, x)')
  <2>1. CASE at = "author"
    BY <1>1, <1>2, <1>4, <1>5, <2>1, LateComes
  <2>2. CASE at # "author"
    BY <1>1, <1>2, <1>5, <2>2, OthersCome DEF MessageTypes
  <2> QED
    BY <2>1, <2>2
<1>9. AnswersTell'
  <2>1. \A h \in msHandlers : ~(h.at = "answered" /\ ~h.raced)
    <3>1. 1 \in 1 .. Len(msEvents) /\ msEvents[1].type \notin {"UPDATE"} \cup Ends
      BY DEF EventTaken
    <3> QED
      BY <3>1 DEF MessageInv, AnswersTell
  <2> QED
    BY <1>1, <1>2, <2>1 DEF AnswersTell
<1>10. InTouch'
  <2> SUFFICES ASSUME msCached # None, ~wrong PROVE InTouch'
    BY <1>1 DEF InTouch
  <2>1. at = "author" /\ e.type \in Reactions
    BY <1>h
  <2>2. ASSUME NEW x \in Emojis PROVE Known(x)' = After(e, x, Known(x))
    <3>1. "ADD" \in Reactions /\ "REMOVE" \in Reactions
      BY DEF Reactions
    <3>2. \A type \in Reactions :
            /\ Cardinality(Late(type, x)) \in Nat
            /\ Cardinality(Late(type, x)') = IF e.type = type /\ e.emoji = x THEN Cardinality(Late(type, x)) + 1
                                                                           ELSE Cardinality(Late(type, x))
      BY <1>1, <1>2, <1>4, <1>5, <2>1, LateComes, LateNumbers
    <3>3. msCached.counts[x] \in Nat
      BY <1>5 DEF MessageTypes, Copies
    <3> QED
      BY <1>1, <2>1, <3>1, <3>2, <3>3 DEF Known, After, Reactions
  <2>3. msCached'.version = msCached.version /\ e.type # "UPDATE" /\ e.type \notin Ends
    BY <1>1, <2>1 DEF Reactions, Ends
  <2> QED
    BY <1>h, <2>2, <2>3, TouchKept
<1> QED
  BY <1>1, <1>2, <1>3, <1>5, <1>6, <1>7, <1>8, <1>9, <1>10, ArrivedTyped DEF MessageTypes

\* The handler of an event, at work on the cached message, leaves the others as they are.
LEMMA HandledAtOnce ==
    ASSUME MessageInv, EventTaken, msEvents' = Tail(msEvents), UNCHANGED <<msServer, msChanges, msHandlers>>,
           Head(msEvents).type \notin Ends,
           wrong' \in BOOLEAN, msCached' \in Copies,
           msCached = None => wrong',
           msCached # None /\ ~wrong' =>
              /\ ~wrong
              /\ msCached'.version = IF Head(msEvents).type = "UPDATE" THEN Head(msEvents).version
                                                                     ELSE msCached.version
              /\ \A x \in Emojis : Known(x)' = After(Head(msEvents), x, Known(x))
    PROVE  MessageInv'
<1>1. MessageTypes
  BY DEF MessageInv
<1>2. \A type, x : Late(type, x)' = Late(type, x)
  BY DEF Late
<1>3. /\ msHandlers' \in SUBSET Waiting
      /\ \A h \in msHandlers' : h.at = "author" => h.type \in Reactions /\ h.emoji \in Emojis
      /\ \A type \in Reactions, x \in Emojis : IsFiniteSet(Late(type, x)')
  BY <1>1, <1>2 DEF MessageTypes
<1>4. \A h \in msHandlers' : h.number <= msChanges' - Len(msEvents')
  <2>1. \A h \in msHandlers : h.number \in Nat
    BY <1>1 DEF MessageTypes, Waiting
  <2>2. msChanges' - Len(msEvents') \in Int
    BY DEF EventTaken
  <2>3. \A h \in msHandlers : h.number < msChanges' - Len(msEvents')
    BY DEF EventTaken
  <2> QED
    BY <2>1, <2>2, <2>3
<1>5. AnswersTell'
  <2> SUFFICES ASSUME NEW h \in msHandlers, h.at = "answered", ~h.raced
               PROVE  /\ msServer'.alive /\ h.answer = Ms!Seen'
                      /\ \A k \in 1 .. Len(msEvents') : msEvents'[k].type \in {"UPDATE"} \cup Ends
                      /\ \A g \in msHandlers' : g.at # "author"
    BY DEF AnswersTell
  <2>1. /\ msServer.alive /\ h.answer = Ms!Seen
        /\ \A k \in 1 .. Len(msEvents) : msEvents[k].type \in {"UPDATE"} \cup Ends
        /\ \A g \in msHandlers : g.at # "author"
    BY DEF MessageInv, AnswersTell
  <2>2. \A k \in 1 .. Len(msEvents') : msEvents'[k].type \in {"UPDATE"} \cup Ends
    BY <2>1 DEF EventTaken
  <2> QED
    BY <2>1, <2>2 DEF Ms!Seen
<1>6. InTouch'
  <2>1. CASE msCached = None \/ wrong'
    BY <2>1 DEF InTouch
  <2>2. CASE msCached # None /\ ~wrong'
    BY <2>2, TouchKept
  <2> QED
    BY <2>1, <2>2
<1> QED
  BY <1>3, <1>4, <1>5, <1>6, ArrivedTyped

\* The processor of a deletion.
LEMMA HandlersOvertaken ==
    ASSUME MessageInv, EventTaken, UNCHANGED <<msServer, msChanges>>, msHandlers' = Ms!Overtaken(msHandlers),
           wrong' \in BOOLEAN, msCached' # None => msCached' \in Copies /\ wrong'
    PROVE  MessageInv'
<1>1. MessageTypes
  BY DEF MessageInv
<1>2. /\ msHandlers' \in SUBSET Waiting
      /\ \A h \in msHandlers' : h.at = "answered" => h.raced
      /\ \A h \in msHandlers' : h.at = "author" => h \in msHandlers
      /\ \A h \in msHandlers' : \E g \in msHandlers : h.number = g.number
      /\ \A type, x : Late(type, x)' = Late(type, x)
  BY <1>1, OvertakenStay
<1>3. /\ \A h \in msHandlers' : h.at = "author" => h.type \in Reactions /\ h.emoji \in Emojis
      /\ \A type \in Reactions, x \in Emojis : IsFiniteSet(Late(type, x)')
  BY <1>1, <1>2 DEF MessageTypes
<1>4. \A h \in msHandlers' : h.number <= msChanges' - Len(msEvents')
  <2>1. \A h \in msHandlers : h.number \in Nat
    BY <1>1 DEF MessageTypes, Waiting
  <2>2. msChanges' - Len(msEvents') \in Int
    BY DEF EventTaken
  <2>3. \A h \in msHandlers : h.number < msChanges' - Len(msEvents')
    BY DEF EventTaken
  <2> QED
    BY <1>2, <2>1, <2>2, <2>3
<1>5. AnswersTell' /\ InTouch'
  BY <1>2 DEF AnswersTell, InTouch
<1> QED
  BY <1>2, <1>3, <1>4, <1>5, ArrivedTyped

\* Every event keeps the invariant.
LEMMA EventKeeps ==
    ASSUME MessageInv, Ms!EventArrives
    PROVE  MessageInv'
<1> DEFINE e == Head(msEvents)
<1>1. /\ msEvents # <<>> /\ msEvents' = Tail(msEvents) /\ UNCHANGED <<msServer, msChanges>>
      /\ \/ e.type \in {"ADD", "REMOVE"} /\ Ms!Reaction(e)
         \/ e.type \in {"REMOVE_ALL", "REMOVE_EMOJI"} /\ Ms!Cleared(e)
         \/ e.type = "UPDATE" /\ Ms!Updated(e)
         \/ e.type = "DELETE" /\ Ms!Deleted
         \/ e.type = "DELETE_BULK" /\ Ms!DeletedBulk
  BY DEF Ms!EventArrives
<1>2. EventTaken
  BY <1>1, TakingEvent
<1>3. /\ e = Head(msEvents) /\ e \in Told
      /\ (e.type \in Reactions \cup {"REMOVE_EMOJI"} => e.emoji \in Emojis)
  BY <1>2 DEF EventTaken
<1>4. MessageTypes /\ wrong \in BOOLEAN /\ (msCached # None => msCached \in Copies)
  BY DEF MessageInv, MessageTypes
<1> HIDE DEF e
<1>5. ASSUME UNCHANGED msHandlers PROVE \A type, x : Late(type, x)' = Late(type, x)
  BY <1>5 DEF Late
<1>6. CASE e.type \in {"ADD", "REMOVE"} /\ Ms!Reaction(e)
  <2>1. CASE Ms!Waits(e, "author") \/ (msCached = None /\ Ms!Waits(e, "permission"))
    BY <1>1, <1>2, <1>3, <1>6, <2>1, HandlerWaits DEF Reactions, Ends
  <2>2. CASE msCached # None /\ Ms!Counted(e.type, e.emoji) /\ UNCHANGED msHandlers
    <3>1. e.type \in Reactions /\ e.emoji \in Emojis /\ e.type \notin Ends /\ e.type # "UPDATE"
      BY <1>3, <1>6 DEF Reactions, Ends
    <3>2. /\ msCached' \in Copies /\ wrong' \in BOOLEAN /\ msCached'.version = msCached.version
          /\ ~wrong' => ~wrong /\ \A x \in Emojis : msCached'.counts[x] = After(e, x, msCached.counts[x])
      BY <1>4, <2>2, <3>1, CountedAs
    <3>3. ASSUME ~wrong', NEW x \in Emojis PROVE Known(x)' = After(e, x, Known(x))
      <4>1. "ADD" \in Reactions /\ "REMOVE" \in Reactions
        BY DEF Reactions
      <4>2. \A type \in Reactions : Cardinality(Late(type, x)) \in Nat
        BY <1>4, LateNumbers
      <4>3. msCached.counts[x] \in Nat
        BY <1>4, <2>2 DEF Copies
      <4>4. msCached'.counts[x] = After(e, x, msCached.counts[x])
        BY <3>2, <3>3
      <4> QED
        BY <1>5, <2>2, <3>1, <4>1, <4>2, <4>3, <4>4 DEF Known, After, Reactions
    <3> QED
      BY <1>1, <1>2, <1>3, <2>2, <3>1, <3>2, <3>3, HandledAtOnce
  <2> QED
    BY <1>6, <2>1, <2>2 DEF Ms!Reaction
<1>7. CASE e.type \in {"REMOVE_ALL", "REMOVE_EMOJI"} /\ Ms!Cleared(e)
  <2>1. CASE msCached = None /\ Ms!Waits(e, "asked")
    BY <1>1, <1>2, <1>3, <1>7, <2>1, HandlerWaits DEF Ends
  <2>2. CASE msCached # None /\ ~(msCached = None /\ Ms!Waits(e, "asked"))
    <3>1. /\ msCached' = IF e.type = "REMOVE_ALL" THEN [msCached EXCEPT !.counts = Ms!Blank]
                                                  ELSE [msCached EXCEPT !.counts[e.emoji] = 0]
          /\ wrong' = (wrong \/ \E h \in msHandlers : h.at = "author")
          /\ UNCHANGED msHandlers
      BY <1>7, <2>2 DEF Ms!Cleared, Ms!place_message_data
    <3>2. e.type \notin Ends /\ e.type # "UPDATE"
      BY <1>7 DEF Ends
    <3>3. msCached \in Copies /\ msCached.counts \in [Emojis -> Nat] /\ Ms!Blank \in [Emojis -> Nat]
      BY <1>4, <2>2 DEF Copies, Ms!Blank
    <3>4. /\ msCached' \in Copies /\ msCached'.version = msCached.version
          /\ \A x \in Emojis : msCached'.counts[x] = After(e, x, msCached.counts[x])
      <4>1. CASE e.type = "REMOVE_ALL"
        <5>1. msCached' = [msCached EXCEPT !.counts = Ms!Blank]
          BY <3>1, <4>1
        <5>2. msCached' \in Copies /\ msCached'.version = msCached.version /\ msCached'.counts = Ms!Blank
          BY <3>3, <5>1 DEF Copies
        <5> QED
          BY <4>1, <5>2 DEF After, Ms!Blank
      <4>2. CASE e.type = "REMOVE_EMOJI"
        <5>1. msCached' = [msCached EXCEPT !.counts[e.emoji] = 0] /\ e.emoji \in Emojis
          BY <1>3, <3>1, <4>2
        <5>2. /\ msCached' \in Copies /\ msCached'.version = msCached.version
              /\ msCached'.counts = [msCached.counts EXCEPT ![e.emoji] = 0]
          BY <3>3, <5>1 DEF Copies
        <5>3. \A x \in Emojis : msCached'.counts[x] = IF x = e.emoji THEN 0 ELSE msCached.counts[x]
          BY <3>3, <5>2
        <5> QED
          BY <4>2, <5>2, <5>3 DEF After
      <4> QED
        BY <1>7, <4>1, <4>2
    <3>5. wrong' \in BOOLEAN
      BY <3>1
    <3>6. ASSUME ~wrong' PROVE ~wrong /\ \A h \in msHandlers : h.at # "author"
      BY <3>1, <3>6
    <3>7. ASSUME ~wrong', NEW x \in Emojis PROVE Known(x)' = After(e, x, Known(x))
      <4>1. /\ Late("ADD", x) = {} /\ Late("ADD", x)' = {}
            /\ Late("REMOVE", x) = {} /\ Late("REMOVE", x)' = {}
        BY <1>5, <3>1, <3>6, <3>7 DEF Late
      <4>2. /\ Cardinality(Late("ADD", x)) = 0 /\ Cardinality(Late("ADD", x)') = 0
            /\ Cardinality(Late("REMOVE", x)) = 0 /\ Cardinality(Late("REMOVE", x)') = 0
        BY <4>1, FS_EmptySet
      <4>3. msCached.counts[x] \in Nat /\ msCached'.counts[x] \in Nat
        BY <3>3, <3>4 DEF Copies
      <4>4. Known(x)' = msCached'.counts[x] /\ Known(x) = msCached.counts[x]
        BY <4>2, <4>3 DEF Known
      <4> QED
        BY <3>4, <4>4
    <3> QED
      BY <1>1, <1>2, <1>3, <2>2, <3>1, <3>2, <3>4, <3>5, <3>6, <3>7, HandledAtOnce
  <2> QED
    BY <1>7, <2>1, <2>2 DEF Ms!Cleared
<1>8. CASE e.type = "UPDATE" /\ Ms!Updated(e)
  <2>1. UNCHANGED msHandlers /\ e.type \notin Ends /\ e.version \in Nat
    BY <1>3, <1>8 DEF Ms!Updated, Ends, Told
  <2>2. CASE msCached = None
    <3>1. msCached' = [version |-> e.version, counts |-> Ms!Blank] /\ wrong' = TRUE
      BY <1>8, <2>2 DEF Ms!Updated, Ms!place_message_data
    <3>2. msCached' \in Copies
      BY <2>1, <3>1 DEF Copies, Ms!Blank
    <3> QED
      BY <1>1, <1>2, <1>3, <2>1, <2>2, <3>1, <3>2, HandledAtOnce
  <2>3. CASE msCached # None
    <3>1. msCached' = [msCached EXCEPT !.version = e.version] /\ wrong' = wrong
      BY <1>8, <2>3 DEF Ms!Updated, Ms!place_message_data
    <3>2. msCached' \in Copies /\ msCached'.version = e.version /\ msCached'.counts = msCached.counts
      BY <1>4, <2>1, <2>3, <3>1 DEF Copies
    <3>3. \A x \in Emojis : Known(x)' = After(e, x, Known(x))
      BY <1>5, <1>8, <2>1, <3>2 DEF Known, After
    <3> QED
      BY <1>1, <1>2, <1>3, <1>4, <1>8, <2>1, <2>3, <3>1, <3>2, <3>3, HandledAtOnce
  <2> QED
    BY <2>2, <2>3
<1>9. CASE e.type = "DELETE" /\ Ms!Deleted
  <2>1. msCached' = None /\ wrong' = FALSE /\ msHandlers' = Ms!Overtaken(msHandlers)
    BY <1>9 DEF Ms!Deleted, Ms!delete_message
  <2> QED
    BY <1>1, <1>2, <2>1, HandlersOvertaken
<1>10. CASE e.type = "DELETE_BULK" /\ Ms!DeletedBulk
  <2>1. msCached' = msCached /\ wrong' = (msCached # None) /\ msHandlers' = Ms!Overtaken(msHandlers)
    BY <1>10 DEF Ms!DeletedBulk
  <2> QED
    BY <1>1, <1>2, <1>4, <2>1, HandlersOvertaken
<1> QED
  BY <1>1, <1>6, <1>7, <1>8, <1>9, <1>10

-----------------------------------------------------------------------------
\* A step of the cache or of a handler: what the server did and sent stays.
LEMMA StaysNumbered ==
    ASSUME MessageInv, UNCHANGED <<msServer, msEvents, msChanges>>,
           wrong' \in BOOLEAN, msCached' # None => msCached' \in Copies,
           msHandlers' \in SUBSET Waiting,
           \A h \in msHandlers' : h.at = "author" => h.type \in Reactions /\ h.emoji \in Emojis,
           \A type \in Reactions, x \in Emojis : IsFiniteSet(Late(type, x)'),
           \A h \in msHandlers' : h.number = 0 \/ \E g \in msHandlers : h.number = g.number,
           AnswersTell', InTouch'
    PROVE  MessageInv'
<1>1. MessageTypes'
  BY DEF MessageTypes, MessageInv
<1>2. /\ msChanges \in Nat /\ Len(msEvents) \in Nat /\ Len(msEvents) <= msChanges
      /\ \A g \in msHandlers : g.number <= msChanges - Len(msEvents)
  BY DEF MessageInv, MessageTypes, Numbered
<1>3. Numbered'
  BY <1>2 DEF MessageInv, Numbered
<1>4. NewestLast'
  BY DEF MessageInv, NewestLast
<1> QED
  BY <1>1, <1>3, <1>4 DEF MessageInv

\* An entry is dropped.
LEMMA ExpiryKeepsMessage ==
    ASSUME MessageInv, Ms!Expire
    PROVE  MessageInv'
<1>1. /\ msCached' = None /\ wrong' = FALSE /\ UNCHANGED <<msServer, msEvents, msHandlers, msChanges>>
  BY DEF Ms!Expire, Ms!delete_message
<1>2. InTouch'
  BY <1>1 DEF InTouch
<1>3. AnswersTell'
  BY <1>1 DEF MessageInv, AnswersTell, Ms!Seen
<1>4. \A type, x : Late(type, x)' = Late(type, x)
  BY <1>1 DEF Late
<1> QED
  BY <1>1, <1>2, <1>3, <1>4, StaysNumbered DEF MessageInv, MessageTypes

\* A message is asked for.
LEMMA FetchKeepsMessage ==
    ASSUME MessageInv, Ms!fetch_message
    PROVE  MessageInv'
<1> DEFINE g == Ms!Handler(0, "FETCH", None, "asked")
<1>1. msHandlers' = msHandlers \cup {g} /\ UNCHANGED <<msServer, msEvents, msCached, wrong, msChanges>>
  BY DEF Ms!fetch_message
<1>2. g \in Waiting /\ g.at = "asked" /\ g.number = 0
  BY DEF Ms!Handler, Waiting
<1> HIDE DEF g
<1>3. MessageTypes
  BY DEF MessageInv
<1>4. \A type, x : Late(type, x)' = Late(type, x)
  BY <1>1, <1>2, <1>3, OthersCome
<1>5. InTouch'
  BY <1>1, <1>4 DEF MessageInv, InTouch, Known
<1>6. AnswersTell'
  BY <1>1, <1>2 DEF MessageInv, AnswersTell, Ms!Seen
<1> QED
  BY <1>1, <1>2, <1>3, <1>4, <1>5, <1>6, StaysNumbered DEF MessageTypes

\* The server answers.
LEMMA AnswerKeepsMessage ==
    ASSUME MessageInv, NEW h, Ms!Answered(h)
    PROVE  MessageInv'
<1> DEFINE g == [h EXCEPT !.at = "answered", !.answer = Ms!Seen, !.raced = Ms!Uncounted]
           G == IF msServer.alive THEN {g} ELSE {}
<1>1. /\ h \in msHandlers /\ h.at = "asked" /\ msHandlers' = (msHandlers \ {h}) \cup G
      /\ UNCHANGED <<msServer, msEvents, msCached, wrong, msChanges>>
  BY DEF Ms!Answered
<1>2. MessageTypes /\ h \in Waiting
  BY <1>1 DEF MessageInv, MessageTypes
<1>3. Ms!Seen \in Copies /\ Ms!Uncounted \in BOOLEAN
  BY <1>2 DEF Ms!Seen, Ms!Uncounted, MessageTypes, Copies
<1>4. /\ g \in Waiting /\ g.at = "answered" /\ g.number = h.number /\ g.answer = Ms!Seen
      /\ g.raced = Ms!Uncounted
  BY <1>2, <1>3 DEF Waiting
<1>5. \A f \in G : f = g /\ msServer.alive
  OBVIOUS
<1> HIDE DEF g, G
<1>6. /\ \A type, x : Late(type, x)' = Late(type, x)
      /\ \A type \in Reactions, x \in Emojis : IsFiniteSet(Late(type, x)')
  BY <1>1, <1>2, <1>4, <1>5, LateLess
<1>7. InTouch'
  BY <1>1, <1>6 DEF MessageInv, InTouch, Known
<1>8. ASSUME msServer.alive, ~g.raced
      PROVE  /\ \A k \in 1 .. Len(msEvents) : msEvents[k].type \in {"UPDATE"} \cup Ends
             /\ \A f \in msHandlers : f.at # "author"
  <2>1. ~Ms!Uncounted
    BY <1>4, <1>8
  <2>2. DOMAIN msEvents = 1 .. Len(msEvents)
    BY <1>2 DEF MessageTypes
  <2> QED
    BY <2>1, <2>2 DEF Ms!Uncounted, Ends
<1>9. AnswersTell'
  <2> SUFFICES ASSUME NEW f \in msHandlers', f.at = "answered", ~f.raced
               PROVE  /\ msServer'.alive /\ f.answer = Ms!Seen'
                      /\ \A k \in 1 .. Len(msEvents') : msEvents'[k].type \in {"UPDATE"} \cup Ends
                      /\ \A d \in msHandlers' : d.at # "author"
    BY DEF AnswersTell
  <2>1. Ms!Seen' = Ms!Seen /\ msServer' = msServer /\ msEvents' = msEvents
    BY <1>1 DEF Ms!Seen
  <2>2. CASE f \in msHandlers
    <3>1. /\ msServer.alive /\ f.answer = Ms!Seen
          /\ \A k \in 1 .. Len(msEvents) : msEvents[k].type \in {"UPDATE"} \cup Ends
          /\ \A d \in msHandlers : d.at # "author"
      BY <2>2 DEF MessageInv, AnswersTell
    <3> QED
      BY <1>1, <1>4, <1>5, <2>1, <3>1
  <2>3. CASE f \in G
    BY <1>1, <1>4, <1>5, <1>8, <2>1, <2>3
  <2> QED
    BY <1>1, <2>2, <2>3
<1>10. /\ msHandlers' \in SUBSET Waiting
       /\ \A f \in msHandlers' : f.at = "author" => f.type \in Reactions /\ f.emoji \in Emojis
       /\ \A f \in msHandlers' : \E d \in msHandlers : f.number = d.number
  BY <1>1, <1>2, <1>4, <1>5 DEF MessageTypes
<1>11. wrong' \in BOOLEAN /\ (msCached' # None => msCached' \in Copies)
  BY <1>1, <1>2 DEF MessageTypes
<1> QED
  BY <1>1, <1>6, <1>7, <1>9, <1>10, <1>11, StaysNumbered

\* The answer is placed.
LEMMA PlacingKeepsMessage ==
    ASSUME MessageInv, NEW h, Ms!AnswerPlaced(h)
    PROVE  MessageInv'
<1> DEFINE kept == [h.answer EXCEPT !.counts = msCached.counts]
<1>1. /\ h \in msHandlers /\ h.at = "answered" /\ msHandlers' = msHandlers \ {h}
      /\ msCached' = (IF Ms!KeepsReactions(h.answer) THEN kept ELSE h.answer)
      /\ wrong' = (h.raced \/ (wrong /\ msCached' # h.answer))
      /\ UNCHANGED <<msServer, msEvents, msChanges>>
  BY DEF Ms!AnswerPlaced, Ms!place_message_data
<1>2. MessageTypes /\ h \in Waiting /\ h.answer \in Copies
  BY <1>1 DEF MessageInv, MessageTypes, Waiting
<1>3. /\ msCached # None => kept \in Copies /\ kept.version = h.answer.version /\ kept.counts = msCached.counts
      /\ Ms!KeepsReactions(h.answer) => msCached # None
  BY <1>2 DEF MessageTypes, Copies, Ms!KeepsReactions
<1> HIDE DEF kept
<1>4. wrong' \in BOOLEAN /\ msCached' \in Copies
  BY <1>1, <1>2, <1>3 DEF Waiting
<1>5. /\ \A type, x : Late(type, x)' = Late(type, x)
      /\ \A type \in Reactions, x \in Emojis : IsFiniteSet(Late(type, x)')
  BY <1>1, <1>2, LateEnds
<1>6. AnswersTell'
  BY <1>1 DEF MessageInv, AnswersTell, Ms!Seen
<1>7. InTouch'
  <2> SUFFICES ASSUME ~wrong' PROVE InTouch'
    BY DEF InTouch
  <2>1. /\ msServer.alive /\ h.answer = Ms!Seen
        /\ \A k \in 1 .. Len(msEvents) : msEvents[k].type \in {"UPDATE"} \cup Ends
        /\ \A g \in msHandlers : g.at # "author"
    BY <1>1 DEF MessageInv, AnswersTell
  <2>2. ASSUME NEW x \in Emojis
        PROVE  /\ Cardinality(Late("ADD", x)) = 0 /\ Cardinality(Late("REMOVE", x)) = 0
               /\ Late("ADD", x) = {} /\ Late("REMOVE", x) = {}
    <3>1. Late("ADD", x) = {} /\ Late("REMOVE", x) = {}
      BY <2>1 DEF Late
    <3> QED
      BY <3>1, FS_EmptySet
  <2>3. msEvents \in Seq(Told) /\ msServer.counts \in [Emojis -> Nat]
    BY <1>2 DEF MessageTypes
  <2>4. msCached'.version = msServer.version /\ msCached'.counts = msServer.counts
    <3>1. CASE ~Ms!KeepsReactions(h.answer)
      BY <1>1, <2>1, <3>1 DEF Ms!Seen
    <3>2. CASE Ms!KeepsReactions(h.answer) /\ ~wrong
      <4>1. msCached # None /\ msCached \in Copies /\ msCached.counts \in [Emojis -> Nat]
        BY <1>2, <1>3, <3>2 DEF MessageTypes, Copies
      <4>2. ASSUME NEW x \in Emojis PROVE msCached.counts[x] = msServer.counts[x]
        <5>1. Amounts(msEvents, x, Known(x), msServer.counts[x])
          BY <3>2, <4>1 DEF MessageInv, InTouch
        <5>2. Known(x) = msCached.counts[x]
          BY <2>2, <4>1 DEF Known
        <5> QED
          BY <2>1, <2>3, <5>1, <5>2, AmountsSame
      <4>3. msCached.counts = msServer.counts
        BY <2>3, <4>1, <4>2
      <4> QED
        BY <1>1, <1>3, <2>1, <3>2, <4>1, <4>3 DEF Ms!Seen
    <3>3. CASE wrong = TRUE
      <4>1. msCached' = h.answer
        BY <1>1, <3>3, Zenon
      <4>2. h.answer.version = msServer.version /\ h.answer.counts = msServer.counts
        BY <2>1 DEF Ms!Seen
      <4> QED
        BY <4>1, <4>2, Zenon
    <3>4. wrong \in BOOLEAN
      BY <1>2 DEF MessageTypes
    <3> QED
      BY <3>1, <3>2, <3>3, <3>4
  <2>5. ASSUME NEW x \in Emojis PROVE Amounts(msEvents', x, Known(x)', msServer'.counts[x])
    <3>1. Late("ADD", x)' = Late("ADD", x) /\ Late("REMOVE", x)' = Late("REMOVE", x)
      BY <1>5
    <3>2. msServer.counts[x] \in Int
      BY <2>3
    <3>3. Known(x)' = msServer.counts[x]
      BY <2>2, <2>4, <3>1, <3>2 DEF Known
    <3>4. Amounts(msEvents, x, msServer.counts[x], msServer.counts[x])
      BY <2>1, <2>3, <3>2, AmountsStay
    <3> QED
      BY <1>1, <3>3, <3>4
  <2> QED
    BY <1>1, <2>1, <2>4, <2>5 DEF InTouch
<1>8. /\ msHandlers' \in SUBSET Waiting
      /\ \A f \in msHandlers' : f.at = "author" => f.type \in Reactions /\ f.emoji \in Emojis
      /\ \A f \in msHandlers' : \E d \in msHandlers : f.number = d.number
  BY <1>1, <1>2 DEF MessageTypes
<1> QED
  BY <1>1, <1>4, <1>5, <1>6, <1>7, <1>8, StaysNumbered

\* An author is known at last.
LEMMA AuthorKeepsMessage ==
    ASSUME MessageInv, NEW h, Ms!AuthorKnown(h)
    PROVE  MessageInv'
<1>1. /\ h \in msHandlers /\ h.at = "author" /\ UNCHANGED <<msServer, msEvents, msChanges>>
      /\ \/ msCached # None /\ Ms!Counted(h.type, h.emoji) /\ msHandlers' = msHandlers \ {h}
         \/ /\ msCached = None /\ UNCHANGED <<msCached, wrong>>
            /\ msHandlers' = (msHandlers \ {h}) \cup {[h EXCEPT !.at = "permission"]}
  BY DEF Ms!AuthorKnown
<1>2. MessageTypes /\ h \in Waiting /\ h.type \in Reactions /\ h.emoji \in Emojis
  BY <1>1 DEF MessageInv, MessageTypes
<1>3. \A f \in msHandlers : ~(f.at = "answered" /\ ~f.raced)
  BY <1>1 DEF MessageInv, AnswersTell
<1>4. CASE msCached # None /\ Ms!Counted(h.type, h.emoji) /\ msHandlers' = msHandlers \ {h}
  <2>1. /\ msCached' \in Copies /\ wrong' \in BOOLEAN /\ msCached'.version = msCached.version
        /\ ~wrong' => ~wrong /\ \A x \in Emojis : msCached'.counts[x] = After(h, x, msCached.counts[x])
    BY <1>2, <1>4, CountedAs
  <2>2. \A type \in Reactions, x \in Emojis : IsFiniteSet(Late(type, x)')
    BY <1>1, <1>2, <1>4, LateEnds
  <2>3. ASSUME ~wrong', NEW x \in Emojis PROVE Known(x)' = Known(x)
    <3>1. "ADD" \in Reactions /\ "REMOVE" \in Reactions
      BY DEF Reactions
    <3>2. \A type \in Reactions :
            /\ Cardinality(Late(type, x)) \in Nat
            /\ Cardinality(Late(type, x)') = IF h.type = type /\ h.emoji = x THEN Cardinality(Late(type, x)) - 1
                                                                           ELSE Cardinality(Late(type, x))
      BY <1>1, <1>2, <1>4, LateCounted, LateNumbers
    <3>3. msCached.counts[x] \in Nat
      BY <1>2, <1>4 DEF MessageTypes, Copies
    <3>4. msCached'.counts[x] = After(h, x, msCached.counts[x])
      BY <2>1, <2>3
    <3> QED
      BY <1>2, <3>1, <3>2, <3>3, <3>4 DEF Known, After, Reactions
  <2>4. InTouch'
    <3> SUFFICES ASSUME ~wrong' PROVE InTouch'
      BY DEF InTouch
    <3>1. ~wrong
      BY <2>1
    <3> QED
      BY <1>1, <1>4, <2>1, <2>3, <3>1 DEF MessageInv, InTouch
  <2>5. AnswersTell'
    BY <1>3, <1>4 DEF AnswersTell
  <2>6. /\ msHandlers' \in SUBSET Waiting
        /\ \A f \in msHandlers' : f.at = "author" => f.type \in Reactions /\ f.emoji \in Emojis
        /\ \A f \in msHandlers' : \E d \in msHandlers : f.number = d.number
    BY <1>2, <1>4 DEF MessageTypes
  <2> QED
    BY <1>1, <2>1, <2>2, <2>4, <2>5, <2>6, StaysNumbered
<1>5. CASE /\ msCached = None /\ UNCHANGED <<msCached, wrong>>
           /\ msHandlers' = (msHandlers \ {h}) \cup {[h EXCEPT !.at = "permission"]}
  <2>1. /\ [h EXCEPT !.at = "permission"] \in Waiting /\ [h EXCEPT !.at = "permission"].at = "permission"
        /\ [h EXCEPT !.at = "permission"].number = h.number
    BY <1>2 DEF Waiting
  <2>2. \A type \in Reactions, x \in Emojis : IsFiniteSet(Late(type, x)')
    BY <1>1, <1>2, <1>5, <2>1, LateLess
  <2>3. AnswersTell' /\ InTouch'
    BY <1>3, <1>5, <2>1 DEF AnswersTell, InTouch
  <2>4. /\ msHandlers' \in SUBSET Waiting
        /\ \A f \in msHandlers' : f.at = "author" => f.type \in Reactions /\ f.emoji \in Emojis
        /\ \A f \in msHandlers' : \E d \in msHandlers : f.number = d.number
    BY <1>1, <1>2, <1>5, <2>1 DEF MessageTypes
  <2>5. wrong' \in BOOLEAN /\ msCached' = None
    BY <1>2, <1>5 DEF MessageTypes
  <2> QED
    BY <1>1, <2>2, <2>3, <2>4, <2>5, StaysNumbered
<1> QED
  BY <1>1, <1>4, <1>5

\* An author cannot be fetched.
LEMMA AuthorsFailureKeepsMessage ==
    ASSUME MessageInv, NEW h, Ms!AuthorUnknown(h)
    PROVE  MessageInv'
<1>1. /\ h \in msHandlers /\ h.at = "author" /\ msHandlers' = msHandlers \ {h}
      /\ wrong' = (wrong \/ msCached # None) /\ UNCHANGED <<msServer, msEvents, msCached, msChanges>>
  BY DEF Ms!AuthorUnknown
<1>2. MessageTypes /\ h \in Waiting
  BY <1>1 DEF MessageInv, MessageTypes
<1>3. \A type \in Reactions, x \in Emojis : IsFiniteSet(Late(type, x)')
  BY <1>1, <1>2, LateEnds
<1>4. AnswersTell' /\ InTouch'
  BY <1>1 DEF MessageInv, AnswersTell, InTouch, Ms!Seen
<1>5. /\ msHandlers' \in SUBSET Waiting
      /\ \A f \in msHandlers' : f.at = "author" => f.type \in Reactions /\ f.emoji \in Emojis
      /\ \A f \in msHandlers' : \E d \in msHandlers : f.number = d.number
  BY <1>1, <1>2 DEF MessageTypes
<1>6. wrong' \in BOOLEAN /\ (msCached' # None => msCached' \in Copies)
  BY <1>1, <1>2 DEF MessageTypes
<1> QED
  BY <1>1, <1>3, <1>4, <1>5, <1>6, StaysNumbered

\* The permissions are known.
LEMMA PermissionKeepsMessage ==
    ASSUME MessageInv, NEW h, Ms!PermissionKnown(h)
    PROVE  MessageInv'
<1>1. PICK G \in {{}, {[h EXCEPT !.at = "asked"]}} : msHandlers' = (msHandlers \ {h}) \cup G
  <2>1. \/ msHandlers' = msHandlers \ {h}
        \/ msHandlers' = (msHandlers \ {h}) \cup {[h EXCEPT !.at = "asked"]}
    BY DEF Ms!PermissionKnown
  <2>2. msHandlers \ {h} = (msHandlers \ {h}) \cup {}
    OBVIOUS
  <2> QED
    BY <2>1, <2>2
<1>2. /\ h \in msHandlers /\ h.at = "permission" /\ wrong' = (wrong \/ msCached # None)
      /\ UNCHANGED <<msServer, msEvents, msCached, msChanges>>
  BY DEF Ms!PermissionKnown
<1>3. MessageTypes /\ h \in Waiting
  BY <1>2 DEF MessageInv, MessageTypes
<1>4. \A g \in G : g \in Waiting /\ g.at = "asked" /\ g.number = h.number
  <2>1. [h EXCEPT !.at = "asked"] \in Waiting
    BY <1>3 DEF Waiting
  <2>2. [h EXCEPT !.at = "asked"].at = "asked" /\ [h EXCEPT !.at = "asked"].number = h.number
    BY <1>3 DEF Waiting
  <2> QED
    BY <2>1, <2>2
<1>5. \A type \in Reactions, x \in Emojis : IsFiniteSet(Late(type, x)')
  BY <1>1, <1>2, <1>3, <1>4, LateLess
<1>6. InTouch'
  BY <1>2 DEF InTouch
<1>7. AnswersTell'
  <2> SUFFICES ASSUME NEW f \in msHandlers', f.at = "answered", ~f.raced
               PROVE  /\ msServer'.alive /\ f.answer = Ms!Seen'
                      /\ \A k \in 1 .. Len(msEvents') : msEvents'[k].type \in {"UPDATE"} \cup Ends
                      /\ \A d \in msHandlers' : d.at # "author"
    BY DEF AnswersTell
  <2>1. f \in msHandlers
    BY <1>1, <1>4
  <2>2. /\ msServer.alive /\ f.answer = Ms!Seen
        /\ \A k \in 1 .. Len(msEvents) : msEvents[k].type \in {"UPDATE"} \cup Ends
        /\ \A d \in msHandlers : d.at # "author"
    BY <2>1 DEF MessageInv, AnswersTell
  <2> QED
    BY <1>1, <1>2, <1>4, <2>2 DEF Ms!Seen
<1>8. /\ msHandlers' \in SUBSET Waiting
      /\ \A f \in msHandlers' : f.at = "author" => f.type \in Reactions /\ f.emoji \in Emojis
      /\ \A f \in msHandlers' : \E d \in msHandlers : f.number = d.number
  BY <1>1, <1>2, <1>3, <1>4 DEF MessageTypes
<1>9. wrong' \in BOOLEAN /\ (msCached' # None => msCached' \in Copies)
  BY <1>2, <1>3 DEF MessageTypes
<1> QED
  BY <1>2, <1>5, <1>6, <1>7, <1>8, <1>9, StaysNumbered

\* The changes that the server makes are those that the events tell.
LEMMA ServerKeepsMessage ==
    ASSUME MessageInv,
           \/ Ms!Edit \/ Ms!ClearAll \/ Ms!Delete \/ Ms!DeleteBulk
           \/ \E x \in Emojis : Ms!React(x) \/ Ms!Unreact(x) \/ Ms!ClearEmoji(x)
    PROVE  MessageInv'
<1> DEFINE Servers == [alive : BOOLEAN, version : Nat, counts : [Emojis -> Nat]]
<1>1. msServer \in Servers /\ msServer.version \in Nat /\ msServer.counts \in [Emojis -> Nat]
  BY DEF MessageInv, MessageTypes
<1>2. CASE Ms!Edit
  <2> DEFINE new == [msServer EXCEPT !.version = @ + 1]
  <2>1. msServer.alive /\ Ms!Send("UPDATE", None, new)
    BY <1>2 DEF Ms!Edit, Ms!Send
  <2>2. new \in Servers /\ new.alive /\ new.version = msServer.version + 1 /\ new.counts = msServer.counts
    BY <1>1, <2>1
  <2> HIDE DEF new
  <2>3. \A x \in Emojis : \A number, version :
          new.counts[x] = After([type |-> "UPDATE", emoji |-> None, number |-> number, version |-> version],
                                x, msServer.counts[x])
    BY <2>2 DEF After
  <2> QED
    <3>1. "UPDATE" \in Kinds /\ "UPDATE" \notin Ends /\ "UPDATE" \notin Reactions \cup {"REMOVE_EMOJI"}
      BY DEF Kinds, Reactions, Ends
    <3>2. PICK m : m = new
      OBVIOUS
    <3> QED
      BY <2>1, <2>2, <2>3, <3>1, <3>2, ChangeSent
<1>3. CASE Ms!ClearAll
  <2> DEFINE new == [msServer EXCEPT !.counts = Ms!Blank]
  <2>1. msServer.alive /\ Ms!Send("REMOVE_ALL", None, new)
    BY <1>3 DEF Ms!ClearAll, Ms!Send
  <2>2. new \in Servers /\ new.alive /\ new.version = msServer.version /\ new.counts = Ms!Blank
    BY <1>1, <2>1 DEF Ms!Blank
  <2> HIDE DEF new
  <2>3. \A x \in Emojis : \A number, version :
          new.counts[x] = After([type |-> "REMOVE_ALL", emoji |-> None, number |-> number, version |-> version],
                                x, msServer.counts[x])
    BY <2>2 DEF After, Ms!Blank
  <2> QED
    <3>1. /\ "REMOVE_ALL" \in Kinds /\ "REMOVE_ALL" \notin Ends /\ "REMOVE_ALL" # "UPDATE"
          /\ "REMOVE_ALL" \notin Reactions \cup {"REMOVE_EMOJI"}
      BY DEF Kinds, Clears, Reactions, Ends
    <3>2. PICK m : m = new
      OBVIOUS
    <3> QED
      BY <2>1, <2>2, <2>3, <3>1, <3>2, ChangeSent
<1>4. ASSUME NEW type \in Ends, Ms!Send(type, None, [msServer EXCEPT !.alive = FALSE])
      PROVE  MessageInv'
  <2> DEFINE new == [msServer EXCEPT !.alive = FALSE]
  <2>1. Ms!Send(type, None, new)
    BY <1>4
  <2>2. new \in Servers /\ ~new.alive /\ new.version = msServer.version /\ new.counts = msServer.counts
    BY <1>1
  <2> HIDE DEF new
  <2>3. \A x \in Emojis : \A number, version :
          new.counts[x] = After([type |-> type, emoji |-> None, number |-> number, version |-> version],
                                x, msServer.counts[x])
    BY <2>2 DEF After, Ends
  <2> QED
    <3>1. /\ type \in Kinds /\ type \notin Reactions \cup {"REMOVE_EMOJI"} /\ type # "UPDATE"
          /\ None \in Emojis \cup {None}
      BY DEF Kinds, Reactions, Ends
    <3> QED
      BY <2>1, <2>2, <2>3, <3>1, ChangeSent
<1>5. CASE Ms!Delete \/ Ms!DeleteBulk
  BY <1>4, <1>5 DEF Ms!Delete, Ms!DeleteBulk, Ends
<1>6. ASSUME NEW x \in Emojis, NEW n \in Nat, NEW type \in Reactions \cup {"REMOVE_EMOJI"},
             Ms!Send(type, x, [msServer EXCEPT !.counts[x] = n]),
             n = CASE type = "ADD" -> msServer.counts[x] + 1 [] type = "REMOVE" -> msServer.counts[x] - 1
                   [] type = "REMOVE_EMOJI" -> 0
      PROVE  MessageInv'
  <2> DEFINE new == [msServer EXCEPT !.counts[x] = n]
  <2>1. Ms!Send(type, x, new) /\ msServer.alive
    BY <1>6 DEF Ms!Send
  <2>2. /\ new \in Servers /\ new.alive /\ new.version = msServer.version
        /\ new.counts = [msServer.counts EXCEPT ![x] = n]
    BY <1>1, <2>1
  <2> HIDE DEF new
  <2>3. \A y \in Emojis : new.counts[y] = IF y = x THEN n ELSE msServer.counts[y]
    BY <1>1, <2>2
  <2>4. \A y \in Emojis : \A number, version :
          new.counts[y] = After([type |-> type, emoji |-> x, number |-> number, version |-> version],
                                y, msServer.counts[y])
    BY <1>6, <2>3 DEF After, Reactions
  <2>5. type \in Kinds /\ type \notin Ends /\ type # "UPDATE"
    BY DEF Kinds, Clears, Reactions, Ends
  <2> QED
    BY <2>1, <2>2, <2>4, <2>5, ChangeSent
<1>7. ASSUME NEW x \in Emojis, Ms!React(x) \/ Ms!Unreact(x) \/ Ms!ClearEmoji(x)
      PROVE  MessageInv'
  <2>1. msServer.counts[x] \in Nat /\ "ADD" \in Reactions /\ "REMOVE" \in Reactions
    BY <1>1 DEF Reactions
  <2>2. CASE Ms!React(x)
    <3>1. PICK n \in Nat : n = msServer.counts[x] + 1
      BY <2>1
    <3>2. Ms!Send("ADD", x, [msServer EXCEPT !.counts[x] = n])
      BY <2>2, <3>1 DEF Ms!React
    <3> QED
      BY <1>6, <2>1, <3>1, <3>2
  <2>3. CASE Ms!Unreact(x)
    <3>1. PICK n \in Nat : n = msServer.counts[x] - 1
      BY <2>1, <2>3 DEF Ms!Unreact
    <3>2. Ms!Send("REMOVE", x, [msServer EXCEPT !.counts[x] = n])
      BY <2>3, <3>1 DEF Ms!Unreact
    <3> QED
      BY <1>6, <2>1, <3>1, <3>2
  <2>4. CASE Ms!ClearEmoji(x)
    BY <1>6, <2>1, <2>4 DEF Ms!ClearEmoji
  <2> QED
    BY <1>7, <2>2, <2>3, <2>4
<1> QED
  BY <1>2, <1>3, <1>5, <1>7

\* Every step keeps the invariant.
LEMMA MessageKept == MessageInv /\ [Ms!Next]_msVars => MessageInv'
<1> SUFFICES ASSUME MessageInv, [Ms!Next]_msVars
             PROVE  MessageInv'
  OBVIOUS
<1>1. CASE UNCHANGED msVars
  <2>1. /\ msServer' = msServer /\ msEvents' = msEvents /\ msHandlers' = msHandlers /\ msCached' = msCached
        /\ wrong' = wrong /\ msChanges' = msChanges
    BY <1>1 DEF msVars
  <2>2. \A type, x : Late(type, x)' = Late(type, x)
    BY <2>1 DEF Late
  <2>3. InTouch' /\ AnswersTell'
    BY <2>1, <2>2 DEF MessageInv, InTouch, AnswersTell, Known, Ms!Seen
  <2> QED
    BY <2>1, <2>2, <2>3, StaysNumbered DEF MessageInv, MessageTypes
<1>2. CASE Ms!Next
  BY <1>2, ServerKeepsMessage, ExpiryKeepsMessage, FetchKeepsMessage, EventKeeps, AnswerKeepsMessage,
     PlacingKeepsMessage, AuthorKeepsMessage, AuthorsFailureKeepsMessage, PermissionKeepsMessage DEF Ms!Next
<1> QED
  BY <1>1, <1>2

\* At first the cached message, if there is one, is what the server has.
LEMMA MessageAtFirst == Ms!Init => MessageInv
<1> SUFFICES ASSUME Ms!Init
             PROVE  MessageInv
  OBVIOUS
<1>1. /\ msServer = [alive |-> TRUE, version |-> 0, counts |-> Ms!Blank] /\ msCached \in {None, Ms!Seen}
      /\ msEvents = <<>> /\ msHandlers = {} /\ wrong = FALSE /\ msChanges = 0
  BY DEF Ms!Init
<1>2. Ms!Blank \in [Emojis -> Nat] /\ Ms!Seen \in Copies
  BY <1>1 DEF Ms!Blank, Ms!Seen, Copies
<1>3. \A type, x : Late(type, x) = {}
  BY <1>1 DEF Late
<1>4. IsFiniteSet({}) /\ Cardinality({}) = 0
  BY FS_EmptySet
<1>5. msEvents \in Seq(Told) /\ Len(msEvents) = 0
  BY <1>1
<1>6. MessageTypes
  <2>1. msServer \in [alive : BOOLEAN, version : Nat, counts : [Emojis -> Nat]]
    BY <1>1, <1>2
  <2>2. /\ \A k \in 1 .. Len(msEvents) :
              msEvents[k].type \in Reactions \cup {"REMOVE_EMOJI"} => msEvents[k].emoji \in Emojis
        /\ msHandlers \in SUBSET Waiting
        /\ \A h \in msHandlers : h.at = "author" => h.type \in Reactions /\ h.emoji \in Emojis
    BY <1>1, <1>5
  <2>3. msCached # None => msCached \in Copies
    BY <1>1, <1>2
  <2>4. \A type \in Reactions, x \in Emojis : IsFiniteSet(Late(type, x))
    BY <1>3, <1>4
  <2> QED
    BY <1>1, <1>5, <2>1, <2>2, <2>3, <2>4 DEF MessageTypes
<1>7. Numbered /\ NewestLast /\ AnswersTell
  BY <1>1, <1>5 DEF Numbered, NewestLast, AnswersTell
<1>8. ASSUME msCached # None, NEW x \in Emojis PROVE Amounts(msEvents, x, Known(x), msServer.counts[x])
  <2>1. msCached.counts[x] = msServer.counts[x] /\ msServer.counts[x] \in Nat
    BY <1>1, <1>2, <1>8 DEF Ms!Seen
  <2>2. Cardinality(Late("ADD", x)) = 0 /\ Cardinality(Late("REMOVE", x)) = 0
    BY <1>3, <1>4
  <2>3. Known(x) = msServer.counts[x] /\ msServer.counts[x] \in Int
    BY <2>1, <2>2 DEF Known
  <2>4. \A k \in 1 .. Len(msEvents) : msEvents[k].type \in {"UPDATE"} \cup Ends
    BY <1>5
  <2>5. Amounts(msEvents, x, msServer.counts[x], msServer.counts[x])
    BY <1>5, <2>3, <2>4, AmountsStay
  <2> QED
    BY <2>3, <2>5
<1>9. InTouch
  BY <1>1, <1>2, <1>8 DEF InTouch, Ms!Seen
<1> QED
  BY <1>6, <1>7, <1>9 DEF MessageInv

\* InStep follows when nothing is on its way.
LEMMA QuietIsInStep == MessageInv => InStep
<1> SUFFICES ASSUME MessageInv, msEvents = <<>>, msHandlers = {}, msCached # None, ~wrong
             PROVE  msServer.alive /\ msCached = Ms!Seen
  BY DEF InStep, Ms!InStep, Ms!Quiet
<1>1. Len(msEvents) = 0
  OBVIOUS
<1>2. msServer.alive /\ msCached.version = msServer.version
  BY <1>1 DEF MessageInv, InTouch
<1>3. /\ msCached \in Copies /\ msServer.counts \in [Emojis -> Nat] /\ msCached.counts \in [Emojis -> Nat]
  BY DEF MessageInv, MessageTypes, Copies
<1>4. ASSUME NEW x \in Emojis PROVE msCached.counts[x] = msServer.counts[x]
  <2>1. Amounts(<<>>, x, Known(x), msServer.counts[x])
    BY DEF MessageInv, InTouch
  <2>2. Known(x) = msServer.counts[x]
    BY <2>1, AmountsAtLast
  <2>3. Late("ADD", x) = {} /\ Late("REMOVE", x) = {}
    BY DEF Late
  <2>4. /\ Cardinality(Late("ADD", x)) = 0 /\ Cardinality(Late("REMOVE", x)) = 0
        /\ msCached.counts[x] \in Nat
    BY <1>3, <2>3, FS_EmptySet
  <2> QED
    BY <2>2, <2>4 DEF Known
<1>5. msCached.counts = msServer.counts
  BY <1>3, <1>4
<1>6. msCached = [version |-> msCached.version, counts |-> msCached.counts]
  BY <1>3 DEF Copies
<1> QED
  BY <1>2, <1>5, <1>6 DEF Ms!Seen

\* Once every event has arrived and every handler is done, a cached message is what the server
\* has, with as many of every reaction, or one of the races that Messages names came in between
\* (message_cache of GlobalCache and the processors of message and reaction events).
THEOREM MessagesInStep == Spec => []InStep
<1>1. Init => MessageInv
  BY MessageAtFirst DEF Init
<1>2. MessageInv /\ [Next]_vars => MessageInv'
  BY MessageStep, MessageKept
<1> QED
  BY <1>1, <1>2, QuietIsInStep, PTL DEF Spec

-----------------------------------------------------------------------------
\* A copy of the message whose numbers are at most n.
Below(copy, n) == copy.version <= n /\ \A x \in Emojis : copy.counts[x] <= n

\* The handlers that wait for an author, each with an event of its own.
Authors == {h \in msHandlers : h.at = "author"}
AuthorsTold ==
    /\ IsFiniteSet(Authors)
    /\ \A h \in Authors : h.number >= 1
    /\ \A g, h \in Authors : g.number = h.number => g = h

\* What the server has and tells is at most the number of its changes.  A cached count is at most
\* that and what was counted again since, for which each event counts once.
MessageBounds ==
    /\ msChanges <= MaxChanges
    /\ Below(msServer, msChanges)
    /\ \A k \in 1 .. Len(msEvents) : msEvents[k].version <= msChanges
    /\ \A h \in msHandlers : h.answer # None => Below(h.answer, msChanges)
    /\ AuthorsTold
    /\ msCached # None =>
        /\ msCached.version <= msChanges
        /\ \A x \in Emojis : msCached.counts[x] + Len(msEvents) + Cardinality(Authors) <= 2 * msChanges

\* What the numbers are.
LEMMA MessageNumbers ==
    ASSUME MessageInv
    PROVE  /\ msChanges \in Nat /\ msEvents \in Seq(Told) /\ Len(msEvents) \in Nat
           /\ msServer.version \in Nat /\ msServer.counts \in [Emojis -> Nat]
           /\ \A k \in 1 .. Len(msEvents) : msEvents[k] \in Told /\ msEvents[k].version \in Nat
           /\ \A h \in msHandlers : h \in Waiting /\ h.number \in Nat /\ (h.answer # None => h.answer \in Copies)
           /\ msCached # None => /\ msCached \in Copies /\ msCached.version \in Nat
                                 /\ msCached.counts \in [Emojis -> Nat]
<1>1. MessageTypes
  BY DEF MessageInv
<1>2. msChanges \in Nat /\ msEvents \in Seq(Told) /\ Len(msEvents) \in Nat
  BY <1>1 DEF MessageTypes
<1>3. \A k \in 1 .. Len(msEvents) : msEvents[k] \in Told /\ msEvents[k].version \in Nat
  <2> SUFFICES ASSUME NEW k \in 1 .. Len(msEvents)
               PROVE  msEvents[k] \in Told /\ msEvents[k].version \in Nat
    OBVIOUS
  <2>1. msEvents[k] \in Told
    BY <1>2
  <2> QED
    BY <2>1 DEF Told
<1>4. \A h \in msHandlers : h \in Waiting /\ h.number \in Nat /\ (h.answer # None => h.answer \in Copies)
  BY <1>1 DEF MessageTypes, Waiting
<1> QED
  BY <1>1, <1>2, <1>3, <1>4 DEF MessageTypes, Copies

\* No more handlers wait for authors than there were events.
LEMMA AuthorsFew ==
    ASSUME MessageInv, AuthorsTold
    PROVE  Cardinality(Authors) \in Nat /\ Cardinality(Authors) + Len(msEvents) <= msChanges
<1> DEFINE f == [h \in Authors |-> h.number]
           n == msChanges - Len(msEvents)
           T == 1 .. n
<1>1. n \in Nat /\ msChanges \in Nat /\ Len(msEvents) \in Nat
  BY MessageNumbers DEF MessageInv, Numbered
<1>2. \A h \in Authors : h.number \in Nat /\ h.number >= 1 /\ h.number <= n
  BY MessageNumbers DEF MessageInv, Numbered, Authors, AuthorsTold
<1>3. f \in [Authors -> T] /\ \A g, h \in Authors : f[g] = f[h] => g = h
  <2>1. \A h \in Authors : h.number \in T
    BY <1>1, <1>2
  <2> QED
    BY <2>1 DEF AuthorsTold
<1>4. IsFiniteSet(T) /\ Cardinality(T) = n
  <2> HIDE DEF n
  <2>1. 1 \in Int /\ n \in Int
    BY <1>1
  <2>2. IsFiniteSet(T) /\ Cardinality(T) = IF 1 > n THEN 0 ELSE n - 1 + 1
    BY ONLY <2>1, FS_Interval
  <2> QED
    BY <1>1, <2>2
<1> HIDE DEF f, T
<1>5. f \in Injection(Authors, T)
  BY <1>3, Fun_IsInj
<1>6. Cardinality(Authors) <= n
  BY <1>4, <1>5, FS_Injection
<1>7. Cardinality(Authors) \in Nat
  BY FS_CardinalityType DEF AuthorsTold
<1> QED
  BY <1>1, <1>6, <1>7

\* The same handlers wait for authors.
LEMMA SameAuthors ==
    ASSUME AuthorsTold, Authors' = Authors
    PROVE  AuthorsTold'
BY DEF AuthorsTold

\* A step of the client.
LEMMA ClientBounded ==
    ASSUME MessageInv, MessageBounds, UNCHANGED <<msServer, msChanges>>,
           msEvents' = msEvents \/ EventTaken,
           \A h \in msHandlers' : h.answer # None => Below(h.answer, msChanges),
           AuthorsTold',
           msCached' # None =>
              /\ msCached'.version <= msChanges
              /\ \A x \in Emojis : msCached'.counts[x] + Len(msEvents') + Cardinality(Authors') <= 2 * msChanges
    PROVE  MessageBounds'
<1>1. \A k \in 1 .. Len(msEvents') : msEvents'[k].version <= msChanges
  <2>1. CASE msEvents' = msEvents
    BY <2>1 DEF MessageBounds
  <2>2. CASE EventTaken
    <3>1. /\ Len(msEvents) \in Nat \ {0} /\ Len(msEvents') = Len(msEvents) - 1
          /\ \A k \in 1 .. Len(msEvents') : msEvents'[k] = msEvents[k + 1]
      BY <2>2 DEF EventTaken
    <3> QED
      BY <3>1 DEF MessageBounds
  <2> QED
    BY <2>1, <2>2
<1>2. Below(msServer, msChanges)' /\ msChanges' = msChanges
  BY DEF MessageBounds, Below
<1>3. \A h \in msHandlers' : h.answer # None => Below(h.answer, msChanges)'
  BY <1>2 DEF Below
<1> QED
  BY <1>1, <1>2, <1>3 DEF MessageBounds

\* A step that leaves the cached message and the handlers that wait for authors.
LEMMA NothingCounted ==
    ASSUME MessageInv, MessageBounds, UNCHANGED <<msServer, msChanges>>,
           msEvents' = msEvents \/ EventTaken,
           \A h \in msHandlers' : h.answer # None => Below(h.answer, msChanges),
           Authors' = Authors, msCached' \in {msCached, None}
    PROVE  MessageBounds'
<1>1. AuthorsTold'
  BY SameAuthors DEF MessageBounds
<1>2. /\ Len(msEvents') <= Len(msEvents) /\ Len(msEvents') \in Nat /\ Len(msEvents) \in Nat /\ msChanges \in Nat
      /\ Cardinality(Authors) \in Nat
  BY MessageNumbers, AuthorsFew DEF EventTaken, MessageBounds
<1>3. ASSUME msCached' # None
      PROVE  /\ msCached'.version <= msChanges
             /\ \A x \in Emojis : msCached'.counts[x] + Len(msEvents') + Cardinality(Authors') <= 2 * msChanges
  <2>1. msCached' = msCached /\ \A x \in Emojis : msCached.counts[x] \in Nat
    BY <1>3, MessageNumbers
  <2>2. /\ msCached.version <= msChanges
        /\ \A x \in Emojis : msCached.counts[x] + Len(msEvents) + Cardinality(Authors) <= 2 * msChanges
    BY <1>3, <2>1 DEF MessageBounds
  <2> QED
    BY <1>2, <2>1, <2>2
<1> QED
  BY <1>1, <1>3, ClientBounded

\* A handler that is overtaken keeps its answer.
LEMMA OvertakenAnswers ==
    ASSUME MessageInv, msHandlers' = Ms!Overtaken(msHandlers)
    PROVE  /\ \A h \in msHandlers' : \E g \in msHandlers : h.answer = g.answer
           /\ Authors' = Authors
<1>1. ASSUME NEW h \in msHandlers'
      PROVE  \E g \in msHandlers : h.answer = g.answer
  <2>1. PICK g \in msHandlers : h = [g EXCEPT !.raced = @ \/ g.at = "answered"]
    BY DEF Ms!Overtaken
  <2>2. g \in Waiting
    BY MessageNumbers
  <2> QED
    BY <2>1, <2>2 DEF Waiting
<1>2. MessageTypes
  BY DEF MessageInv
<1>3. \A h \in msHandlers' : h.at = "author" => h \in msHandlers
  BY <1>2, OvertakenStay
<1>4. ASSUME NEW h \in msHandlers, h.at = "author"
      PROVE  h \in msHandlers'
  <2>1. PICK type, x : type = h.type /\ x = h.emoji
    OBVIOUS
  <2>2. Late(type, x)' = Late(type, x)
    BY <1>2, OvertakenStay
  <2> QED
    BY <1>4, <2>1, <2>2 DEF Late
<1> QED
  BY <1>1, <1>3, <1>4 DEF Authors

\* The server's changes.
LEMMA SendBounded ==
    ASSUME MessageInv, MessageBounds, NEW type, NEW emoji, NEW new, Ms!Send(type, emoji, new),
           new.version \in Nat, new.version <= msServer.version + 1, MaxChanges \in Nat,
           \A x \in Emojis : new.counts[x] \in Nat /\ new.counts[x] <= msChanges + 1
    PROVE  MessageBounds'
<1>1. /\ msChanges < MaxChanges /\ msChanges' = msChanges + 1 /\ msServer' = new /\ msCached' = msCached
      /\ msHandlers' = Ms!Overtaken(msHandlers)
      /\ msEvents' = Append(msEvents, [type |-> type, emoji |-> emoji, number |-> msChanges', version |-> new.version])
  BY DEF Ms!Send
<1>2. msChanges \in Nat /\ msServer.version \in Nat /\ Len(msEvents) \in Nat /\ msEvents \in Seq(Told)
  BY MessageNumbers
<1>3. msServer.version <= msChanges
  BY DEF MessageBounds, Below
<1>4. /\ Len(msEvents') = Len(msEvents) + 1 /\ msEvents'[Len(msEvents) + 1].version = new.version
      /\ \A k \in 1 .. Len(msEvents) : msEvents'[k] = msEvents[k]
  BY <1>1, <1>2
<1>5. \A k \in 1 .. Len(msEvents') : msEvents'[k].version <= msChanges'
  <2>1. \A k \in 1 .. Len(msEvents) : msEvents[k].version \in Nat /\ msEvents[k].version <= msChanges
    BY MessageNumbers DEF MessageBounds
  <2> QED
    BY <1>1, <1>2, <1>3, <1>4, <2>1
<1>6. Below(msServer, msChanges)'
  BY <1>1, <1>2, <1>3 DEF Below
<1>7. Authors' = Authors /\ \A h \in msHandlers' : \E g \in msHandlers : h.answer = g.answer
  BY <1>1, OvertakenAnswers
<1>8. ASSUME NEW h \in msHandlers', h.answer # None
      PROVE  Below(h.answer, msChanges)'
  <2>1. PICK g \in msHandlers : h.answer = g.answer
    BY <1>7
  <2>2. h.answer \in Copies /\ Below(h.answer, msChanges)
    BY <1>8, <2>1, MessageNumbers DEF MessageBounds
  <2>3. h.answer.version \in Nat /\ \A x \in Emojis : h.answer.counts[x] \in Nat
    BY <2>2 DEF Copies
  <2> QED
    BY <1>1, <1>2, <2>2, <2>3 DEF Below
<1>9. AuthorsTold' /\ Cardinality(Authors) \in Nat
  BY <1>7, SameAuthors, AuthorsFew DEF MessageBounds
<1>10. ASSUME msCached' # None
       PROVE  /\ msCached'.version <= msChanges'
              /\ \A x \in Emojis : msCached'.counts[x] + Len(msEvents') + Cardinality(Authors') <= 2 * msChanges'
  <2>1. /\ msCached.version \in Nat /\ \A x \in Emojis : msCached.counts[x] \in Nat
        /\ msCached.version <= msChanges
        /\ \A x \in Emojis : msCached.counts[x] + Len(msEvents) + Cardinality(Authors) <= 2 * msChanges
    BY <1>1, <1>10, MessageNumbers DEF MessageBounds
  <2> QED
    BY SMTT(60), <1>1, <1>2, <1>4, <1>7, <1>9, <2>1
<1>11. msChanges' <= MaxChanges
  BY <1>1, <1>2
<1> QED
  BY <1>5, <1>6, <1>8, <1>9, <1>10, <1>11 DEF MessageBounds

\* Each of them.
LEMMA ServerBounded ==
    ASSUME MessageInv, MessageBounds, MaxChanges \in Nat,
           \/ Ms!Edit \/ Ms!ClearAll \/ Ms!Delete \/ Ms!DeleteBulk
           \/ \E x \in Emojis : Ms!React(x) \/ Ms!Unreact(x) \/ Ms!ClearEmoji(x)
    PROVE  MessageBounds'
<1>1. /\ msServer \in [alive : BOOLEAN, version : Nat, counts : [Emojis -> Nat]]
      /\ msChanges \in Nat /\ msServer.version \in Nat
      /\ \A x \in Emojis : msServer.counts[x] \in Nat /\ msServer.counts[x] <= msChanges
  BY MessageNumbers DEF MessageInv, MessageTypes, MessageBounds, Below
<1>2. ASSUME NEW type, NEW emoji, NEW new, Ms!Send(type, emoji, new),
             new.version \in {msServer.version, msServer.version + 1},
             \A x \in Emojis : new.counts[x] \in {0, msServer.counts[x], msServer.counts[x] + 1}
                               \/ (msServer.counts[x] > 0 /\ new.counts[x] = msServer.counts[x] - 1)
      PROVE  MessageBounds'
  <2>1. new.version \in Nat /\ new.version <= msServer.version + 1
    BY <1>1, <1>2
  <2>2. \A x \in Emojis : new.counts[x] \in Nat /\ new.counts[x] <= msChanges + 1
    BY <1>1, <1>2
  <2> QED
    BY <1>2, <2>1, <2>2, SendBounded
<1>3. CASE Ms!Edit
  <2>1. PICK new : new = [msServer EXCEPT !.version = @ + 1]
    OBVIOUS
  <2>2. Ms!Send("UPDATE", None, new) /\ new.version = msServer.version + 1 /\ new.counts = msServer.counts
    BY <1>1, <1>3, <2>1 DEF Ms!Edit
  <2> QED
    BY <1>2, <2>2
<1>4. CASE Ms!ClearAll
  <2>1. PICK new : new = [msServer EXCEPT !.counts = Ms!Blank]
    OBVIOUS
  <2>2. Ms!Send("REMOVE_ALL", None, new) /\ new.version = msServer.version /\ new.counts = Ms!Blank
    BY <1>1, <1>4, <2>1 DEF Ms!ClearAll
  <2>3. \A x \in Emojis : new.counts[x] = 0
    BY <2>2 DEF Ms!Blank
  <2> QED
    BY <1>2, <2>2, <2>3
<1>5. CASE Ms!Delete \/ Ms!DeleteBulk
  <2>1. PICK new : new = [msServer EXCEPT !.alive = FALSE]
    OBVIOUS
  <2>2. /\ Ms!Send("DELETE", None, new) \/ Ms!Send("DELETE_BULK", None, new)
        /\ new.version = msServer.version /\ new.counts = msServer.counts
    BY <1>1, <1>5, <2>1 DEF Ms!Delete, Ms!DeleteBulk
  <2> QED
    BY <1>2, <2>2
<1>6. ASSUME NEW x \in Emojis, Ms!React(x) \/ Ms!Unreact(x) \/ Ms!ClearEmoji(x)
      PROVE  MessageBounds'
  <2>1. PICK n : /\ \/ n = msServer.counts[x] + 1 /\ Ms!React(x)
                    \/ n = msServer.counts[x] - 1 /\ Ms!Unreact(x)
                    \/ n = 0 /\ Ms!ClearEmoji(x)
    BY <1>6
  <2>2. PICK new : new = [msServer EXCEPT !.counts[x] = n]
    OBVIOUS
  <2>3. \E type : Ms!Send(type, x, new)
    BY <2>1, <2>2 DEF Ms!React, Ms!Unreact, Ms!ClearEmoji
  <2>4. /\ new.version = msServer.version
        /\ \A y \in Emojis : new.counts[y] = IF y = x THEN n ELSE msServer.counts[y]
    BY <1>1, <2>2
  <2>5. n \in {0, msServer.counts[x] + 1} \/ (msServer.counts[x] > 0 /\ n = msServer.counts[x] - 1)
    BY <2>1 DEF Ms!Unreact
  <2> QED
    BY <1>2, <2>3, <2>4, <2>5
<1> QED
  BY <1>3, <1>4, <1>5, <1>6

\* Requests, their answers, and handlers that end or go on.
LEMMA HandlersBounded ==
    ASSUME MessageInv, MessageBounds,
           \/ Ms!Expire \/ Ms!fetch_message
           \/ \E h \in msHandlers : Ms!Answered(h) \/ Ms!AnswerPlaced(h) \/ Ms!PermissionKnown(h)
    PROVE  MessageBounds'
<1>1. \A h \in msHandlers : h \in Waiting /\ (h.answer # None => Below(h.answer, msChanges))
  BY MessageNumbers DEF MessageBounds
<1>2. CASE Ms!Expire
  <2>1. UNCHANGED <<msServer, msEvents, msHandlers, msChanges>> /\ msCached' = None
    BY <1>2 DEF Ms!Expire, Ms!delete_message
  <2> QED
    BY <1>1, <2>1, NothingCounted DEF Authors
<1>3. CASE Ms!fetch_message
  <2>1. PICK g : g = Ms!Handler(0, "FETCH", None, "asked")
    OBVIOUS
  <2>2. UNCHANGED <<msServer, msEvents, msCached, msChanges>> /\ msHandlers' = msHandlers \cup {g}
    BY <1>3, <2>1 DEF Ms!fetch_message
  <2>3. g.at = "asked" /\ g.answer = None
    BY <2>1 DEF Ms!Handler
  <2>4. Authors' = Authors
    BY <2>2, <2>3 DEF Authors
  <2> QED
    BY <1>1, <2>2, <2>3, <2>4, NothingCounted
<1>4. ASSUME NEW h \in msHandlers, Ms!Answered(h)
      PROVE  MessageBounds'
  <2>1. PICK g : g = [h EXCEPT !.at = "answered", !.answer = Ms!Seen, !.raced = Ms!Uncounted]
    OBVIOUS
  <2>2. /\ UNCHANGED <<msServer, msEvents, msCached, msChanges>> /\ h.at = "asked"
        /\ msHandlers' \in {msHandlers \ {h}, (msHandlers \ {h}) \cup {g}}
    BY <1>4, <2>1 DEF Ms!Answered
  <2>3. g.at = "answered" /\ g.answer = Ms!Seen
    BY <1>1, <2>1 DEF Waiting
  <2>4. Below(Ms!Seen, msChanges)
    BY DEF MessageBounds, Below, Ms!Seen
  <2>5. Authors' = Authors
    BY <2>2, <2>3 DEF Authors
  <2>6. \A k \in msHandlers' : k.answer # None => Below(k.answer, msChanges)
    BY <1>1, <2>2, <2>3, <2>4
  <2> QED
    BY <2>2, <2>5, <2>6, NothingCounted
<1>5. ASSUME NEW h \in msHandlers, Ms!AnswerPlaced(h)
      PROVE  MessageBounds'
  <2>1. /\ UNCHANGED <<msServer, msEvents, msChanges>> /\ h.at = "answered"
        /\ msHandlers' = msHandlers \ {h}
        /\ msCached' = IF Ms!KeepsReactions(h.answer) THEN [h.answer EXCEPT !.counts = msCached.counts]
                                                      ELSE h.answer
    BY <1>5 DEF Ms!AnswerPlaced, Ms!place_message_data
  <2>2. Authors' = Authors
    BY <2>1 DEF Authors
  <2>3. AuthorsTold'
    BY <2>2, SameAuthors DEF MessageBounds
  <2>4. /\ Cardinality(Authors) \in Nat /\ Cardinality(Authors) + Len(msEvents) <= msChanges
        /\ msChanges \in Nat /\ Len(msEvents) \in Nat
    BY AuthorsFew, MessageNumbers DEF MessageBounds
  <2>5. /\ msCached'.version <= msChanges
        /\ \A x \in Emojis : msCached'.counts[x] + Len(msEvents') + Cardinality(Authors') <= 2 * msChanges
    <3>1. h.answer \in Copies /\ Below(h.answer, msChanges)
      BY <1>1, <2>1, MessageBound DEF Waiting, Copies, Ms!BoundsAssumption
    <3>2. \A x \in Emojis : h.answer.counts[x] \in Nat /\ h.answer.counts[x] <= msChanges
      BY <3>1 DEF Copies, Below
    <3>3. h.answer.version <= msChanges
      BY <3>1 DEF Below
    <3>4. CASE ~Ms!KeepsReactions(h.answer)
      BY <2>1, <2>2, <2>4, <3>2, <3>3, <3>4
    <3>5. CASE Ms!KeepsReactions(h.answer)
      <4>1. /\ msCached.counts \in [Emojis -> Nat]
            /\ \A x \in Emojis : msCached.counts[x] + Len(msEvents) + Cardinality(Authors) <= 2 * msChanges
        BY <3>5, MessageNumbers DEF MessageBounds, Ms!KeepsReactions
      <4>2. msCached'.version = h.answer.version /\ msCached'.counts = msCached.counts
        BY <2>1, <3>1, <3>5 DEF Copies
      <4> QED
        BY <2>1, <2>2, <3>3, <4>1, <4>2
    <3> QED
      BY <3>4, <3>5
  <2> QED
    BY <1>1, <2>1, <2>3, <2>5, ClientBounded
<1>6. ASSUME NEW h \in msHandlers, Ms!PermissionKnown(h)
      PROVE  MessageBounds'
  <2>1. PICK g : g = [h EXCEPT !.at = "asked"]
    OBVIOUS
  <2>2. /\ UNCHANGED <<msServer, msEvents, msCached, msChanges>> /\ h.at = "permission"
        /\ msHandlers' \in {msHandlers \ {h}, (msHandlers \ {h}) \cup {g}}
    BY <1>6, <2>1 DEF Ms!PermissionKnown
  <2>3. g.at = "asked" /\ g.answer = h.answer
    BY <1>1, <2>1 DEF Waiting
  <2>4. Authors' = Authors
    BY <2>2, <2>3 DEF Authors
  <2>5. \A k \in msHandlers' : k.answer # None => Below(k.answer, msChanges)
    BY <1>1, <2>2, <2>3
  <2> QED
    BY <2>2, <2>4, <2>5, NothingCounted
<1> QED
  BY <1>2, <1>3, <1>4, <1>5, <1>6

\* A reaction counts one at most.
LEMMA CountedBounded ==
    ASSUME MessageInv, msCached # None, NEW type, NEW e \in Emojis, Ms!Counted(type, e)
    PROVE  /\ msCached'.version = msCached.version
           /\ \A x \in Emojis : msCached'.counts[x] \in Nat /\ msCached'.counts[x] <= msCached.counts[x] + 1
<1> DEFINE n == Ms!Changed(type, e)
<1>1. msCached \in Copies /\ msCached.counts \in [Emojis -> Nat]
  BY MessageNumbers
<1>2. msCached' = [msCached EXCEPT !.counts[e] = n]
  BY DEF Ms!Counted, Ms!place_message_data
<1>3. n \in Nat /\ n <= msCached.counts[e] + 1
  BY <1>1 DEF Ms!Changed
<1> HIDE DEF n
<1>4. msCached'.counts = [msCached.counts EXCEPT ![e] = n] /\ msCached'.version = msCached.version
  BY <1>1, <1>2, <1>3 DEF Copies
<1> QED
  BY <1>1, <1>3, <1>4

\* A handler learns its author.
LEMMA AuthorBounded ==
    ASSUME MessageInv, MessageBounds, NEW h \in msHandlers, Ms!AuthorKnown(h)
    PROVE  MessageBounds'
<1>1. PICK g : g = [h EXCEPT !.at = "permission"]
  OBVIOUS
<1>2. /\ UNCHANGED <<msServer, msEvents, msChanges>> /\ h.at = "author"
      /\ \/ msCached # None /\ Ms!Counted(h.type, h.emoji) /\ msHandlers' = msHandlers \ {h}
         \/ msCached = None /\ msHandlers' = (msHandlers \ {h}) \cup {g} /\ msCached' = msCached
  BY <1>1 DEF Ms!AuthorKnown
<1>3. /\ \A k \in msHandlers : k \in Waiting /\ (k.answer # None => Below(k.answer, msChanges))
      /\ h.emoji \in Emojis
  BY <1>2, MessageNumbers DEF MessageBounds, MessageInv, MessageTypes
<1>4. g.at = "permission" /\ g.answer = h.answer
  BY <1>1, <1>3 DEF Waiting
<1>5. Authors' = Authors \ {h} /\ h \in Authors
  BY <1>2, <1>4 DEF Authors
<1>6. /\ IsFiniteSet(Authors) /\ Cardinality(Authors) \in Nat
      /\ IsFiniteSet(Authors') /\ Cardinality(Authors') = Cardinality(Authors) - 1
  <2>1. IsFiniteSet(Authors) /\ Cardinality(Authors) \in Nat
    BY AuthorsFew DEF MessageBounds, AuthorsTold
  <2> QED
    BY <1>5, <2>1, FS_RemoveElement
<1>7. AuthorsTold'
  BY <1>5, <1>6 DEF MessageBounds, AuthorsTold
<1>8. \A k \in msHandlers' : k.answer # None => Below(k.answer, msChanges)
  BY <1>2, <1>3, <1>4
<1>9. ASSUME msCached' # None
      PROVE  /\ msCached'.version <= msChanges
             /\ \A x \in Emojis : msCached'.counts[x] + Len(msEvents') + Cardinality(Authors') <= 2 * msChanges
  <2>1. msCached # None /\ Ms!Counted(h.type, h.emoji)
    BY <1>2, <1>9
  <2>2. /\ msCached'.version = msCached.version
        /\ \A x \in Emojis : msCached'.counts[x] \in Nat /\ msCached'.counts[x] <= msCached.counts[x] + 1
    BY <1>3, <2>1, CountedBounded
  <2>3. /\ msCached.version <= msChanges /\ msChanges \in Nat /\ Len(msEvents) \in Nat
        /\ \A x \in Emojis : msCached.counts[x] \in Nat
        /\ \A x \in Emojis : msCached.counts[x] + Len(msEvents) + Cardinality(Authors) <= 2 * msChanges
    BY <2>1, MessageNumbers DEF MessageBounds
  <2> QED
    BY SMTT(60), <1>2, <1>6, <2>2, <2>3
<1> QED
  BY <1>2, <1>7, <1>8, <1>9, ClientBounded

\* A handler does not learn its author.
LEMMA AuthorsFailureBounded ==
    ASSUME MessageInv, MessageBounds, NEW h \in msHandlers, Ms!AuthorUnknown(h)
    PROVE  MessageBounds'
<1>1. /\ UNCHANGED <<msServer, msEvents, msCached, msChanges>> /\ h.at = "author"
      /\ msHandlers' = msHandlers \ {h}
  BY DEF Ms!AuthorUnknown
<1>2. Authors' = Authors \ {h} /\ h \in Authors
  BY <1>1 DEF Authors
<1>3. /\ IsFiniteSet(Authors) /\ Cardinality(Authors) \in Nat
      /\ IsFiniteSet(Authors') /\ Cardinality(Authors') = Cardinality(Authors) - 1
  <2>1. IsFiniteSet(Authors) /\ Cardinality(Authors) \in Nat
    BY AuthorsFew DEF MessageBounds, AuthorsTold
  <2> QED
    BY <1>2, <2>1, FS_RemoveElement
<1>4. AuthorsTold'
  BY <1>2, <1>3 DEF MessageBounds, AuthorsTold
<1>5. \A k \in msHandlers' : k.answer # None => Below(k.answer, msChanges)
  BY <1>1 DEF MessageBounds
<1>6. ASSUME msCached' # None
      PROVE  /\ msCached'.version <= msChanges
             /\ \A x \in Emojis : msCached'.counts[x] + Len(msEvents') + Cardinality(Authors') <= 2 * msChanges
  <2>1. /\ msCached.version <= msChanges /\ msChanges \in Nat /\ Len(msEvents) \in Nat
        /\ \A x \in Emojis : msCached.counts[x] \in Nat
        /\ \A x \in Emojis : msCached.counts[x] + Len(msEvents) + Cardinality(Authors) <= 2 * msChanges
    BY <1>1, <1>6, MessageNumbers DEF MessageBounds
  <2> QED
    BY <1>1, <1>3, <2>1
<1> QED
  BY <1>1, <1>4, <1>5, <1>6, ClientBounded

\* An event arrives.
LEMMA EventBounded ==
    ASSUME MessageInv, MessageBounds, Ms!EventArrives
    PROVE  MessageBounds'
<1> DEFINE e == Head(msEvents)
<1>1. /\ msEvents # <<>> /\ msEvents' = Tail(msEvents) /\ UNCHANGED <<msServer, msChanges>>
      /\ \/ e.type \in {"ADD", "REMOVE"} /\ Ms!Reaction(e)
         \/ e.type \in {"REMOVE_ALL", "REMOVE_EMOJI"} /\ Ms!Cleared(e)
         \/ e.type = "UPDATE" /\ Ms!Updated(e)
         \/ e.type = "DELETE" /\ Ms!Deleted
         \/ e.type = "DELETE_BULK" /\ Ms!DeletedBulk
  BY DEF Ms!EventArrives
<1>2. EventTaken
  BY <1>1, TakingEvent
<1>3. /\ Len(msEvents) \in Nat \ {0} /\ Len(msEvents') = Len(msEvents) - 1 /\ msChanges \in Nat
      /\ e = msEvents[1] /\ e \in Told /\ e.number = msChanges - Len(msEvents')
      /\ (e.type \in Reactions \cup {"REMOVE_EMOJI"} => e.emoji \in Emojis)
      /\ e.version <= msChanges /\ e.version \in Nat
  <2>1. 1 \in 1 .. Len(msEvents) /\ msChanges \in Nat
    BY <1>2, MessageNumbers DEF EventTaken
  <2>2. e = msEvents[1]
    BY <1>2 DEF EventTaken
  <2> QED
    BY <1>1, <1>2, <2>1, <2>2, MessageNumbers DEF EventTaken, MessageBounds
<1> HIDE DEF e
<1>4. \A h \in msHandlers : h.answer # None => Below(h.answer, msChanges)
  BY DEF MessageBounds
<1>5. AuthorsTold /\ Cardinality(Authors) \in Nat /\ Cardinality(Authors) + Len(msEvents) <= msChanges
  BY AuthorsFew DEF MessageBounds
<1>6. ASSUME UNCHANGED msHandlers, msCached'.version <= msChanges,
             \A x \in Emojis : /\ msCached'.counts[x] \in Nat
                               /\ msCached'.counts[x] = 0
                                  \/ (msCached # None /\ msCached'.counts[x] <= msCached.counts[x] + 1)
      PROVE  MessageBounds'
  <2>1. Authors' = Authors
    BY <1>6 DEF Authors
  <2>2. AuthorsTold'
    BY <1>5, <2>1, SameAuthors
  <2>3. ASSUME NEW x \in Emojis
        PROVE  msCached'.counts[x] + Len(msEvents') + Cardinality(Authors') <= 2 * msChanges
    <3>1. CASE msCached'.counts[x] = 0
      BY <1>3, <1>5, <2>1, <3>1
    <3>2. CASE msCached # None /\ msCached'.counts[x] <= msCached.counts[x] + 1
      <4>1. /\ msCached.counts[x] \in Nat /\ msCached'.counts[x] \in Nat
            /\ msCached.counts[x] + Len(msEvents) + Cardinality(Authors) <= 2 * msChanges
        BY <1>6, <3>2, MessageNumbers DEF MessageBounds
      <4> QED
        BY SMTT(60), <1>3, <1>5, <2>1, <3>2, <4>1
    <3> QED
      BY <1>6, <3>1, <3>2
  <2> QED
    BY <1>1, <1>2, <1>4, <1>6, <2>2, <2>3, ClientBounded
<1>7. ASSUME NEW at \in {"author", "permission", "asked"}, Ms!Waits(e, at)
      PROVE  MessageBounds'
  <2>1. PICK g : g = Ms!Handler(e.number, e.type, e.emoji, at)
    OBVIOUS
  <2>2. msHandlers' = msHandlers \cup {g} /\ msCached' = msCached
    BY <1>7, <2>1 DEF Ms!Waits
  <2>3. g.at = at /\ g.answer = None /\ g.number = e.number
    BY <2>1 DEF Ms!Handler
  <2>4. \A h \in msHandlers' : h.answer # None => Below(h.answer, msChanges)
    BY <1>4, <2>2, <2>3
  <2>5. CASE at # "author"
    <3>1. Authors' = Authors
      BY <2>2, <2>3, <2>5 DEF Authors
    <3> QED
      BY <1>1, <1>2, <2>2, <2>4, <3>1, NothingCounted
  <2>6. CASE at = "author"
    <3>1. Authors' = Authors \cup {g}
      BY <2>2, <2>3, <2>6 DEF Authors
    <3>2. \A h \in Authors : h.number \in Nat /\ h.number < e.number
      <4>1. \A h \in msHandlers : h.number \in Nat /\ h.number <= msChanges - Len(msEvents)
        BY MessageNumbers DEF MessageInv, Numbered
      <4> QED
        BY <1>3, <4>1 DEF Authors
    <3>3. e.number \in Nat /\ e.number >= 1
      BY <1>3, <1>5
    <3>4. /\ IsFiniteSet(Authors') /\ Cardinality(Authors') = Cardinality(Authors) + 1
      <4>1. g \notin Authors
        BY <2>3, <3>2, <3>3
      <4>2. IsFiniteSet(Authors)
        BY <1>5 DEF AuthorsTold
      <4> QED
        BY <3>1, <4>1, <4>2, FS_AddElement
    <3>5. AuthorsTold'
      BY <1>5, <2>3, <3>1, <3>2, <3>3, <3>4 DEF AuthorsTold
    <3>6. ASSUME msCached' # None
          PROVE  /\ msCached'.version <= msChanges
                 /\ \A x \in Emojis : msCached'.counts[x] + Len(msEvents') + Cardinality(Authors') <= 2 * msChanges
      <4>1. /\ msCached.version <= msChanges
            /\ \A x \in Emojis : msCached.counts[x] \in Nat
            /\ \A x \in Emojis : msCached.counts[x] + Len(msEvents) + Cardinality(Authors) <= 2 * msChanges
        BY <2>2, <3>6, MessageNumbers DEF MessageBounds
      <4> QED
        BY <1>3, <1>5, <2>2, <3>4, <4>1
    <3> QED
      BY <1>1, <1>2, <2>4, <3>5, <3>6, ClientBounded
  <2> QED
    BY <2>5, <2>6
<1>8. CASE e.type \in {"ADD", "REMOVE"} /\ Ms!Reaction(e)
  <2>1. CASE msCached # None /\ Ms!Counted(e.type, e.emoji) /\ UNCHANGED msHandlers
    <3>1. e.emoji \in Emojis
      BY <1>3, <1>8 DEF Reactions
    <3>2. PICK type, x : type = e.type /\ x = e.emoji
      OBVIOUS
    <3>3. /\ msCached'.version = msCached.version
          /\ \A y \in Emojis : msCached'.counts[y] \in Nat /\ msCached'.counts[y] <= msCached.counts[y] + 1
      BY <2>1, <3>1, <3>2, CountedBounded
    <3> QED
      BY <1>6, <2>1, <3>3 DEF MessageBounds
  <2> QED
    BY <1>7, <1>8, <2>1 DEF Ms!Reaction
<1>9. CASE e.type \in {"REMOVE_ALL", "REMOVE_EMOJI"} /\ Ms!Cleared(e)
  <2>1. CASE msCached # None /\ ~(msCached = None /\ Ms!Waits(e, "asked"))
    <3>1. /\ msCached' = IF e.type = "REMOVE_ALL" THEN [msCached EXCEPT !.counts = Ms!Blank]
                                                  ELSE [msCached EXCEPT !.counts[e.emoji] = 0]
          /\ UNCHANGED msHandlers
      BY <1>9, <2>1 DEF Ms!Cleared, Ms!place_message_data
    <3>2. msCached \in Copies /\ msCached.counts \in [Emojis -> Nat]
      BY <2>1, MessageNumbers
    <3>3. /\ msCached'.version = msCached.version
          /\ \A x \in Emojis : msCached'.counts[x] \in {0, msCached.counts[x]}
      <4>1. CASE e.type = "REMOVE_ALL"
        BY <3>1, <3>2, <4>1 DEF Copies, Ms!Blank
      <4>2. CASE e.type # "REMOVE_ALL"
        BY <3>1, <3>2, <4>2 DEF Copies
      <4> QED
        BY <4>1, <4>2
    <3>4. \A x \in Emojis : /\ msCached'.counts[x] \in Nat
                            /\ msCached'.counts[x] = 0 \/ msCached'.counts[x] <= msCached.counts[x] + 1
      BY <3>2, <3>3
    <3> QED
      BY <1>6, <2>1, <3>1, <3>3, <3>4 DEF MessageBounds
  <2> QED
    BY <1>7, <1>9, <2>1 DEF Ms!Cleared
<1>10. CASE e.type = "UPDATE" /\ Ms!Updated(e)
  <2>1. UNCHANGED msHandlers
    BY <1>10 DEF Ms!Updated
  <2>2. CASE msCached = None
    <3>1. msCached' = [version |-> e.version, counts |-> Ms!Blank]
      BY <1>10, <2>2 DEF Ms!Updated, Ms!place_message_data
    <3>2. msCached'.version <= msChanges /\ \A x \in Emojis : msCached'.counts[x] = 0
      BY <1>3, <3>1 DEF Ms!Blank
    <3> QED
      BY <1>6, <2>1, <3>2
  <2>3. CASE msCached # None
    <3>1. msCached' = [msCached EXCEPT !.version = e.version]
      BY <1>10, <2>3 DEF Ms!Updated, Ms!place_message_data
    <3>2. msCached \in Copies /\ \A x \in Emojis : msCached.counts[x] \in Nat
      BY <2>3, MessageNumbers
    <3>3. msCached'.version <= msChanges /\ msCached'.counts = msCached.counts
      BY <1>3, <3>1, <3>2 DEF Copies
    <3>4. \A x \in Emojis : msCached'.counts[x] \in Nat /\ msCached'.counts[x] <= msCached.counts[x] + 1
      BY <3>2, <3>3
    <3> QED
      BY <1>6, <2>1, <2>3, <3>3, <3>4
  <2> QED
    BY <2>2, <2>3
<1>11. CASE (e.type = "DELETE" /\ Ms!Deleted) \/ (e.type = "DELETE_BULK" /\ Ms!DeletedBulk)
  <2>1. msCached' \in {None, msCached} /\ msHandlers' = Ms!Overtaken(msHandlers)
    BY <1>11 DEF Ms!Deleted, Ms!delete_message, Ms!DeletedBulk
  <2>2. Authors' = Authors /\ \A h \in msHandlers' : \E g \in msHandlers : h.answer = g.answer
    BY <2>1, OvertakenAnswers
  <2>3. \A h \in msHandlers' : h.answer # None => Below(h.answer, msChanges)
    BY <1>4, <2>2
  <2> QED
    BY <1>1, <1>2, <2>1, <2>2, <2>3, NothingCounted
<1> QED
  BY <1>1, <1>8, <1>9, <1>10, <1>11

\* Always.
LEMMA BoundsKept == Spec => [](MessageInv /\ MessageBounds)
<1>1. Init => MessageInv /\ MessageBounds
  <2> SUFFICES ASSUME Init
               PROVE  MessageInv /\ MessageBounds
    OBVIOUS
  <2>1. Ms!Init
    BY DEF Init
  <2>2. MessageInv
    BY <2>1, MessageAtFirst
  <2>3. MaxChanges \in Nat
    BY MessageBound DEF Ms!BoundsAssumption
  <2>4. /\ msServer = [alive |-> TRUE, version |-> 0, counts |-> Ms!Blank]
        /\ msCached \in {None, Ms!Seen} /\ msEvents = <<>> /\ msHandlers = {} /\ msChanges = 0
    BY <2>1 DEF Ms!Init
  <2>5. \A x \in Emojis : Ms!Blank[x] = 0
    BY DEF Ms!Blank
  <2>6. Authors = {} /\ IsFiniteSet(Authors) /\ Cardinality(Authors) = 0
    BY <2>4, FS_EmptySet DEF Authors
  <2>7. AuthorsTold /\ Below(msServer, msChanges)
    BY <2>4, <2>5, <2>6 DEF AuthorsTold, Below
  <2>8. ASSUME msCached # None
        PROVE  /\ msCached.version <= msChanges
               /\ \A x \in Emojis : msCached.counts[x] + Len(msEvents) + Cardinality(Authors) <= 2 * msChanges
    <3>1. msCached.version = 0 /\ \A x \in Emojis : msCached.counts[x] = 0
      BY <2>4, <2>5, <2>8 DEF Ms!Seen
    <3> QED
      BY <2>4, <2>6, <3>1
  <2> QED
    BY <2>2, <2>3, <2>4, <2>7, <2>8 DEF MessageBounds
<1>2. MessageInv /\ MessageBounds /\ [Next]_vars => (MessageInv /\ MessageBounds)'
  <2> SUFFICES ASSUME MessageInv, MessageBounds, [Ms!Next]_msVars
               PROVE  MessageInv' /\ MessageBounds'
    BY MessageStep
  <2>1. MessageInv'
    BY MessageKept
  <2>2. MaxChanges \in Nat
    BY MessageBound DEF Ms!BoundsAssumption
  <2>3. CASE Ms!Next
    <3>1. CASE \/ Ms!Edit \/ Ms!ClearAll \/ Ms!Delete \/ Ms!DeleteBulk
               \/ \E x \in Emojis : Ms!React(x) \/ Ms!Unreact(x) \/ Ms!ClearEmoji(x)
      BY <2>1, <2>2, <3>1, ServerBounded
    <3>2. CASE \/ Ms!Expire \/ Ms!fetch_message
               \/ \E h \in msHandlers : Ms!Answered(h) \/ Ms!AnswerPlaced(h) \/ Ms!PermissionKnown(h)
      BY <2>1, <3>2, HandlersBounded
    <3>3. CASE Ms!EventArrives
      BY <2>1, <3>3, EventBounded
    <3>4. CASE \E h \in msHandlers : Ms!AuthorKnown(h) \/ Ms!AuthorUnknown(h)
      BY <2>1, <3>4, AuthorBounded, AuthorsFailureBounded
    <3> QED
      BY <2>3, <3>1, <3>2, <3>3, <3>4 DEF Ms!Next
  <2>4. CASE UNCHANGED msVars
    <3>1. Authors' = Authors
      BY <2>4 DEF msVars, Authors
    <3>2. AuthorsTold'
      BY <3>1, SameAuthors DEF MessageBounds
    <3>3. Below(msServer, msChanges)' /\ \A h \in msHandlers' : h.answer # None => Below(h.answer, msChanges)'
      BY <2>4 DEF msVars, MessageBounds, Below
    <3> QED
      BY <2>1, <2>4, <3>1, <3>2, <3>3 DEF msVars, MessageBounds
  <2> QED
    BY <2>1, <2>3, <2>4
<1> QED
  BY <1>1, <1>2, PTL DEF Spec

\* The types of Messages, and the bound on what is ever counted.
THEOREM MessageTypesKept == Spec => []Ms!TypeOK
<1>1. MessageInv /\ MessageBounds => Ms!TypeOK
  <2> SUFFICES ASSUME MessageInv, MessageBounds
               PROVE  Ms!TypeOK
    OBVIOUS
  <2>1. \A h \in msHandlers : h.at \in {"author", "permission", "asked", "answered"}
    BY MessageNumbers DEF Waiting
  <2>2. ASSUME msCached # None
        PROVE  msCached.version \in 0 .. MaxChanges /\ msCached.counts \in [Emojis -> 0 .. 2 * MaxChanges]
    <3>1. /\ msChanges \in Nat /\ msChanges <= MaxChanges /\ MaxChanges \in Nat /\ Len(msEvents) \in Nat
          /\ Cardinality(Authors) \in Nat
      BY MessageBound, MessageNumbers, AuthorsFew DEF MessageBounds, Ms!BoundsAssumption
    <3>2. /\ msCached.version \in Nat /\ msCached.version <= msChanges
          /\ msCached.counts \in [Emojis -> Nat]
          /\ \A x \in Emojis : msCached.counts[x] + Len(msEvents) + Cardinality(Authors) <= 2 * msChanges
      BY <2>2, MessageNumbers DEF MessageBounds
    <3>3. \A x \in Emojis : msCached.counts[x] \in 0 .. 2 * MaxChanges
      BY <3>1, <3>2
    <3>4. msCached.version \in 0 .. MaxChanges
      BY <3>1, <3>2
    <3> QED
      BY <3>2, <3>3, <3>4
  <2> QED
    BY <2>1, <2>2 DEF Ms!TypeOK
<1> QED
  BY <1>1, BoundsKept, PTL

-----------------------------------------------------------------------------
(***************************************************************************)
(* GuildCache, whose proof GuildCacheProofs gives for the module on its    *)
(* own.                                                                    *)
(***************************************************************************)
GcP == INSTANCE GuildCacheProofs WITH
    Guilds <- CachedGuilds, Users <- CachedUsers, Channels <- CachedChannels, Threads <- CachedThreads,
    Roles <- CachedRoles,
    Types <- ChannelTypes, Home <- GuildOf, Bot <- OwnUser, MaxChanges <- MaxGuildChanges,
    server <- gcServer, events <- gcEvents, changes <- gcChanges

\* A step of the composition is one of GuildCache or leaves its variables.
LEMMA GuildsStep == [Next]_vars => [GcP!Next]_gcVars
<1>0. \A S : GcP!Cardinality(S) = Gc!Cardinality(S)
  BY DEF GcP!Cardinality, Gc!Cardinality
<1>1. [Next]_vars => [Gc!Next]_gcVars
  BY DEF Next, vars, gcVars
<1>2. \A g : GcP!DataOf(g) = Gc!DataOf(g) /\ GcP!BareData(g) = Gc!BareData(g)
  BY DEF GcP!DataOf, Gc!DataOf, GcP!BareData, Gc!BareData
<1>3. Gc!ServerMoves => GcP!ServerMoves
  BY <1>2 DEF GcP!DataOf, Gc!DataOf, GcP!BareData, Gc!BareData, GcP!Event, Gc!Event, GcP!Change, Gc!Change,
     GcP!BotJoins, Gc!BotJoins, GcP!BotLeaves, Gc!BotLeaves, GcP!GoesAway, Gc!GoesAway, GcP!ComesBack,
     Gc!ComesBack, GcP!GuildChanges, Gc!GuildChanges, GcP!Creates, Gc!Creates, GcP!Retypes, Gc!Retypes,
     GcP!Deletes, Gc!Deletes, GcP!Joins, Gc!Joins, GcP!Leaves, Gc!Leaves, GcP!Objects, Gc!Objects,
     GcP!ServerMoves, Gc!ServerMoves
<1>4. Gc!Requests => GcP!Requests
  <2>1. \A c : Gc!fetch_channel(c) => GcP!fetch_channel(c)
    BY <1>0 DEF GcP!fetch_channel, Gc!fetch_channel, GcP!Asked, Gc!Asked
  <2>2. \A g, u : Gc!fetch_member(g, u) => GcP!fetch_member(g, u)
    BY <1>0 DEF GcP!fetch_member, Gc!fetch_member, GcP!Asked, Gc!Asked
  <2>3. \A g : (Gc!fetch_guild(g) => GcP!fetch_guild(g)) /\ (Gc!fetch_role(g) => GcP!fetch_role(g))
    BY <1>0, <1>2 DEF GcP!fetch_guild, Gc!fetch_guild, GcP!fetch_role, Gc!fetch_role, GcP!Asked, Gc!Asked
  <2>4. \A u : Gc!LookStarts(u) => GcP!LookStarts(u)
    BY <1>0 DEF GcP!LookStarts, Gc!LookStarts, GcP!NoLook, Gc!NoLook
  <2>5. \A g : Gc!LookAsks(g) => GcP!LookAsks(g)
    BY <1>0 DEF GcP!LookAsks, Gc!LookAsks, GcP!Known, Gc!Known
  <2> QED
    BY <2>1, <2>2, <2>3, <2>4, <2>5 DEF Gc!Requests, GcP!Requests
<1>5. Gc!Arrivals => GcP!Arrivals
  <2>1. \A k, cs, types : GcP!place_channel_data(k, cs, types) = Gc!place_channel_data(k, cs, types)
    BY DEF GcP!place_channel_data, Gc!place_channel_data
  <2>2. \A k, g, us : GcP!place_member_data(k, g, us) = Gc!place_member_data(k, g, us)
    BY DEF GcP!place_member_data, Gc!place_member_data, GcP!place_user_guild, Gc!place_user_guild
  <2>3. ASSUME NEW k, NEW g, NEW data PROVE GcP!place_guild_data(k, g, data) = Gc!place_guild_data(k, g, data)
    BY Zenon DEF GcP!place_channel_data, Gc!place_channel_data, GcP!place_user_guild, Gc!place_user_guild,
       GcP!place_member_data, Gc!place_member_data, GcP!place_role_data, Gc!place_role_data,
       GcP!place_guild_data, Gc!place_guild_data
  <2>4. \A k, a : GcP!Placed(k, a) = Gc!Placed(k, a)
    BY <2>1, <2>2, <2>3 DEF GcP!Placed, Gc!Placed, GcP!place_role_data, Gc!place_role_data
  <2>5. \A k, e : GcP!Handled(k, e) = Gc!Handled(k, e)
    <3>a. ASSUME NEW k, NEW g PROVE GcP!delete_guild(k, g) = Gc!delete_guild(k, g)
      BY Zenon DEF GcP!delete_guild, Gc!delete_guild
    <3>1. \A k, e : GcP!GuildHandled(k, e) = Gc!GuildHandled(k, e)
      BY Zenon, <2>3, <3>a DEF GcP!GuildHandled, Gc!GuildHandled
    <3>2. \A k, e : GcP!ChannelHandled(k, e) = Gc!ChannelHandled(k, e)
      BY <2>1 DEF GcP!ChannelHandled, Gc!ChannelHandled, GcP!delete_channel, Gc!delete_channel
    <3>3. \A k, e : GcP!RoleHandled(k, e) = Gc!RoleHandled(k, e)
      BY DEF GcP!RoleHandled, Gc!RoleHandled, GcP!delete_role, Gc!delete_role, GcP!place_role_data,
         Gc!place_role_data
    <3>4. \A k, e : GcP!MemberHandled(k, e) = Gc!MemberHandled(k, e)
      BY <2>2 DEF GcP!MemberHandled, Gc!MemberHandled, GcP!delete_member, Gc!delete_member,
         GcP!delete_user_guild, Gc!delete_user_guild
    <3> QED
      BY <3>1, <3>2, <3>3, <3>4 DEF GcP!Handled, Gc!Handled, GcP!Pairs, Gc!Pairs
  <2>6. \A k, k2, gone : GcP!Astray(k, k2, gone) = Gc!Astray(k, k2, gone)
    BY DEF GcP!Astray, Gc!Astray, GcP!Kept, Gc!Kept, GcP!Unlisted, Gc!Unlisted
  <2>7. \A e : GcP!Gone(e) = Gc!Gone(e) /\ GcP!Raced(e) = Gc!Raced(e)
    BY DEF GcP!Gone, Gc!Gone, GcP!Raced, Gc!Raced, GcP!Awaited, Gc!Awaited, GcP!About, Gc!About, GcP!Kept,
       Gc!Kept, GcP!Unlisted, Gc!Unlisted, GcP!Forgotten, Gc!Forgotten, GcP!Objects, Gc!Objects, GcP!Pairs, Gc!Pairs
  <2>8. Gc!EventArrives => GcP!EventArrives
    BY <1>2, <2>5, <2>6, <2>7 DEF GcP!EventArrives, Gc!EventArrives
  <2>9. \A a : Gc!AnswerArrives(a) => GcP!AnswerArrives(a)
    BY <2>4, <2>6 DEF GcP!AnswerArrives, Gc!AnswerArrives
  <2>10. Gc!LookAnswered => GcP!LookAnswered
    BY <2>2 DEF GcP!LookAnswered, Gc!LookAnswered
  <2>11. Gc!LookEnds => GcP!LookEnds
    BY <1>0 DEF GcP!LookEnds, Gc!LookEnds, GcP!NoLook, Gc!NoLook
  <2> QED
    BY <2>8, <2>9, <2>10, <2>11 DEF GcP!Arrivals, Gc!Arrivals
<1> QED
  BY <1>1, <1>3, <1>4, <1>5 DEF Gc!Next, GcP!Next

\* The first values are those of GuildCache.
LEMMA GuildsAtFirst == Init => GcP!Init
  BY DEF Init, GcP!Init, Gc!Init, GcP!Filled, Gc!Filled, GcP!NoLook, Gc!NoLook, GcP!Objects, Gc!Objects,
     GcP!Pairs, Gc!Pairs

\* What is said of GuildCache in one module is what is said of it in the other.
LEMMA GuildsSame ==
    /\ GcP!NamesAssumption
    /\ GcP!TypeOK = Gc!TypeOK /\ GcP!ListedAreKept = Gc!ListedAreKept
    /\ GcP!NothingMissing = Gc!NothingMissing /\ GcP!OnlyRacesRemain = Gc!OnlyRacesRemain
<1>1. GcP!NamesAssumption
  BY GuildCacheNames DEF GcP!NamesAssumption, Gc!NamesAssumption, GcP!Objects, Gc!Objects, GcP!Pairs, Gc!Pairs
<1>2. GcP!TypeOK = Gc!TypeOK
  BY DEF GcP!TypeOK, Gc!TypeOK, GcP!Objects, Gc!Objects, GcP!Pairs, Gc!Pairs
<1>3. GcP!ListedAreKept = Gc!ListedAreKept
  BY DEF GcP!ListedAreKept, Gc!ListedAreKept
<1>4. GcP!Quiet = Gc!Quiet /\ GcP!Excused = Gc!Excused
  BY DEF GcP!Quiet, Gc!Quiet, GcP!Excused, Gc!Excused, GcP!NoLook, Gc!NoLook
<1>5. GcP!NothingMissing = Gc!NothingMissing
  BY <1>4 DEF GcP!NothingMissing, Gc!NothingMissing
<1>6. GcP!OnlyRacesRemain = Gc!OnlyRacesRemain
  BY <1>4 DEF GcP!OnlyRacesRemain, Gc!OnlyRacesRemain, GcP!Objects, Gc!Objects
<1> QED
  BY <1>1, <1>2, <1>3, <1>5, <1>6

\* The invariant of GuildCacheProofs holds in the composition.
LEMMA GuildsInv == Spec => []GcP!CacheInv
<1>1. Init => GcP!CacheInv
  BY GuildsAtFirst, GuildsSame, GcP!CacheAtFirst
<1>2. GcP!CacheInv /\ [Next]_vars => GcP!CacheInv'
  <2>1. [GcP!Next]_gcVars => [GcP!Next]_(GcP!vars)
    BY DEF gcVars, GcP!vars
  <2> QED
    BY <2>1, GuildsStep, GuildsSame, GcP!CacheKept
<1> QED
  BY <1>1, <1>2, PTL DEF Spec

\* GlobalCache lists in a guild only what it keeps, and only of guilds that it has.
THEOREM CacheListsWhatItKeeps == Spec => [](Gc!TypeOK /\ Gc!ListedAreKept)
<1>1. GcP!CacheInv => Gc!TypeOK /\ Gc!ListedAreKept
  BY GuildsSame, GcP!TypesIn
<1> QED
  BY <1>1, GuildsInv, PTL

\* Once everything has arrived, GlobalCache has what the server has of the client's guilds, and a
\* guild that says it is chunked has all its members.
THEOREM NothingIsMissing == Spec => []NothingMissing
<1>1. GcP!CacheInv => Gc!NothingMissing
  BY GuildsSame, GcP!MissingIn
<1>2. Gc!NothingMissing /\ Ch!ChunkedMeansAll => NothingMissing
  BY DEF NothingMissing
<1> QED
  BY <1>1, <1>2, GuildsInv, ChunkedIsWhole, PTL

\* Once everything has arrived, what GlobalCache has beside that raced with its deletion, was not
\* told while its guild was unavailable, was not listed by its guild, or is a thread of a guild that
\* the client has left.
THEOREM OnlyRacesAreLeft == Spec => []OnlyRacesRemain
<1>1. GcP!CacheInv => OnlyRacesRemain
  BY GuildsSame, GcP!RemainingIn DEF OnlyRacesRemain
<1> QED
  BY <1>1, GuildsInv, PTL
=============================================================================
