----------------------------- MODULE CallProofs -----------------------------
(***************************************************************************)
(* Proofs about four parts of SafeParts that a call passes through.        *)
(* Cooldowns: no strategy gives more tokens in an interval than it may,    *)
(* wherever the interval starts, and the time that is left on a cooldown   *)
(* is the true one.  EndPoints: every path of the wrappers is resolved,    *)
(* and the key of an end point tells its calls apart.  PrefixedCalls: a    *)
(* prefixed command gets the words of its message in their order, whatever *)
(* its parameters are.  Extensions: an unloaded extension leaves nothing   *)
(* behind, a loaded one has all it defines.                                *)
(***************************************************************************)
EXTENDS SafeProofs

\* The tokens were acquired in this order.
Rises(r) == \A i, j \in 1 .. Len(r) : i <= j => r[i] <= r[j]

\* The longest interval.
Longest == Multiplier * Cd!Max({Interval, MaxInterval})

\* What the three numbers of a strategy are: t tokens, opened a ticks ago, interval i.
Numbers3(t, a, i) ==
    /\ t \in Nat /\ a \in 0 .. Cd!Far
    /\ i \in Nat /\ Interval <= i /\ i <= Longest
    /\ system # "backoff" => i = Interval

\* Fixed intervals: the tokens taken since the first one of the interval are the last ones
\* given, and that one opened it.  Precedes it came at most the rest of an interval.
Periods(t, a, r) ==
    LET n == Rate - t IN
    /\ t <= Rate
    /\ t = Rate => Len(r) < Rate
    /\ t < Rate => \/ a <= Interval /\ n <= Len(r) /\ r[n] = a /\ Len(r) < n + Rate
                   \/ a > Interval /\ Len(r) < n

\* What a bucket holds at most.
Brim == IF system = "leaky" THEN Rate ELSE Cd!Max({Rate, BurstRate})

\* Buckets: what was given since the bucket was last filled, and what is in it, is not more
\* than it holds, and one token more with all of the last interval.
Drops(t, a, r) ==
    /\ t <= Brim /\ Len(r) + t <= Brim + 1
    /\ \A j \in 1 .. Len(r) : a < r[j] + Interval /\ (r[j] <= a => j + t <= Brim)

Given(t, a, i, r) ==
    /\ Numbers3(t, a, i)
    /\ r \in Seq(0 .. Interval) /\ Rises(r)
    /\ system = "sliding" => t = Rate /\ Len(r) <= Rate
    /\ system \in {"fixed", "backoff"} => Periods(t, a, r)
    /\ system \in {"leaky", "burst"} => Drops(t, a, r)

CooldownInv == system \in Cd!Strategies /\ Given(tokens, age, interval, recent)

\* A step of the composition is one of Cooldowns, or changes nothing of it.
LEMMA CooldownStep == [Next]_vars => [Cd!Next]_cdVars
BY DEF Next, vars, cdVars

\* What __init__ is given.
LEMMA CooldownData ==
    /\ Rate \in Nat \ {0} /\ Interval \in Nat \ {0} /\ Multiplier \in Nat \ {0}
    /\ MaxInterval \in Nat /\ BurstRate \in Nat
BY CooldownNumbers DEF Cd!NumbersAssumption

\* The entries of a sequence.
LEMMA Entry ==
    ASSUME NEW S, NEW q \in Seq(S)
    PROVE  Len(q) \in Nat /\ \A j \in 1 .. Len(q) : q[j] \in S
OBVIOUS

\* The greater and the smaller of two numbers.
LEMMA OfTwo ==
    ASSUME NEW a \in Int, NEW b \in Int
    PROVE  /\ Cd!Max({a, b}) = IF a <= b THEN b ELSE a
           /\ Cd!Min({a, b}) = IF a <= b THEN a ELSE b
<1>1. \E x \in {a, b} : \A y \in {a, b} : x >= y
  OBVIOUS
<1>2. \E x \in {a, b} : \A y \in {a, b} : x <= y
  OBVIOUS
<1> QED
  BY <1>1, <1>2 DEF Cd!Max, Cd!Min

\* A product grows with its factors.
LEMMA Multiplied ==
    ASSUME NEW a \in Nat, NEW b \in Nat, a <= b, NEW c \in Nat
    PROVE  c * a \in Nat /\ c * b \in Nat /\ c * a <= c * b
<1>1. PICK d \in Nat : b = a + d
  BY b - a \in Nat
<1>2. c * b = c * a + c * d /\ c * d \in Nat /\ c * a \in Nat
  BY <1>1
<1> QED
  BY <1>2

\* How many intervals of length i have passed in a ticks.
LEMMA Passed ==
    ASSUME NEW a \in Nat, NEW i \in Nat \ {0}
    PROVE  /\ a \div i \in Nat
           /\ a < i => a \div i = 0
           /\ i <= a => a \div i >= 1
           /\ a < i + i => a \div i <= 1
OBVIOUS

\* Far is longer than any interval, and than two of the buckets.
LEMMA FarIsFar ==
    /\ Longest \in Nat /\ Cd!Far \in Nat /\ Interval <= Longest
    /\ Longest < Cd!Far /\ Interval + Interval < Cd!Far
    /\ \A i \in Nat : i <= MaxInterval => i * Multiplier <= Longest
<1> USE CooldownData
<1> DEFINE m == Cd!Max({Interval, MaxInterval})
<1>1. m \in Nat /\ Interval <= m /\ MaxInterval <= m
  BY OfTwo
<1>2. Multiplier * 1 <= Multiplier * m /\ Multiplier * m \in Nat
  BY <1>1, Multiplied
<1>3. m * 1 <= m * Multiplier
  BY <1>1, Multiplied
<1>4. Interval * 1 <= Interval * (Rate + BurstRate) /\ Interval * (Rate + BurstRate) \in Nat
  BY Multiplied, 1 <= Rate + BurstRate
<1>5. Longest = Multiplier * m /\ Cd!Far = (Rate + BurstRate) * Interval + Multiplier * m + 1
  BY DEF Longest, Cd!Far
<1>6. ASSUME NEW i \in Nat, i <= MaxInterval
      PROVE  i * Multiplier <= Longest
  <2>1. Multiplier * i <= Multiplier * m
    BY <1>1, <1>6, Multiplied
  <2> QED
    BY <1>1, <1>5, <2>1
<1> HIDE DEF m
<1>7. m * Multiplier = Multiplier * m /\ Interval * (Rate + BurstRate) = (Rate + BurstRate) * Interval
  BY <1>1
<1>8. Longest \in Nat /\ Interval <= Longest
  BY <1>1, <1>2, <1>3, <1>5, <1>7
<1>9. Cd!Far \in Nat /\ Longest + Interval < Cd!Far
  BY <1>2, <1>4, <1>5, <1>7, <1>8
<1> QED
  BY <1>6, <1>8, <1>9

\* What determine_cooldown leaves is as it should be, and a bucket is not to be filled again yet.
LEMMA DeterminedKeeps ==
    ASSUME CooldownInv
    PROVE  LET d == Cd!Determined(age) IN
           /\ Given(d.tokens, d.age, d.interval, recent)
           /\ system \in {"leaky", "burst"} => d.age < Interval
<1> USE CooldownData DEF CooldownInv, Given, Numbers3, Cd!State
<1> DEFINE d == Cd!Determined(age)
<1> SUFFICES /\ Given(d.tokens, d.age, d.interval, recent)
             /\ system \in {"leaky", "burst"} => d.age < Interval
  OBVIOUS
<1>0. /\ age \in Nat /\ tokens \in Nat /\ recent \in Seq(0 .. Interval)
      /\ \A j \in 1 .. Len(recent) : recent[j] \in 0 .. Interval
  <2>1. \A j \in 1 .. Len(recent) : recent[j] \in 0 .. Interval
    BY Entry
  <2> QED
    BY <2>1, FarIsFar
<1>1. CASE system = "sliding"
  BY <1>1 DEF Cd!Determined
<1>2. CASE system = "fixed"
  <2>1. d = IF age > interval THEN Cd!State(Rate, Cd!Far, interval) ELSE Cd!State(tokens, age, interval)
    BY <1>2 DEF Cd!Determined
  <2> HIDE DEF d
  <2>2. age > interval => Periods(Rate, Cd!Far, recent)
    BY <1>2 DEF Periods
  <2> QED
    BY <1>2, <2>1, <2>2, FarIsFar
<1>3. CASE system = "backoff"
  <2> DEFINE i == IF interval < MaxInterval THEN interval * Multiplier ELSE interval
  <2>1. d = IF age > interval THEN Cd!State(Rate, Cd!Far, i) ELSE Cd!State(tokens, age, interval)
    BY <1>3 DEF Cd!Determined
  <2>2. age > interval => Periods(Rate, Cd!Far, recent)
    BY <1>3 DEF Periods
  <2>3. i \in Nat /\ Interval <= i /\ i <= Longest
    <3>1. interval * 1 <= interval * Multiplier /\ interval * Multiplier \in Nat
      BY Multiplied
    <3> QED
      BY <3>1, FarIsFar
  <2> HIDE DEF d, i
  <2> QED
    BY <1>3, <2>1, <2>2, <2>3, FarIsFar
<1>4. CASE system \in {"leaky", "burst"}
  <2> DEFINE top == IF system = "leaky" THEN Rate ELSE BurstRate
             q == age \div Interval
             sum == tokens + q
  <2>1. d = IF q >= 1 THEN Cd!State(IF top <= sum THEN top ELSE sum, 0, Interval)
                      ELSE Cd!State(tokens, age, Interval)
    <3>0. q \in Nat
      BY <1>0, Passed
    <3>1. top \in Int /\ sum \in Int
      BY <1>0, <3>0
    <3>2. Cd!Min({top, sum}) = IF top <= sum THEN top ELSE sum
      BY <3>1, OfTwo
    <3> QED
      BY <1>4, <3>2 DEF Cd!Determined, Cd!Filled
  <2>2. q \in Nat /\ (age < Interval => q = 0) /\ (Interval <= age => q >= 1)
        /\ (age < Interval + Interval => q <= 1)
    BY <1>0, Passed
  <2>3. top \in Nat /\ Brim \in Nat /\ top <= Brim
    BY <1>4, OfTwo DEF Brim
  <2> HIDE DEF d, q, top
  <2>4. CASE q = 0
    BY <1>4, <2>1, <2>2, <2>4
  <2>5. CASE q >= 1
    <3>1. d = Cd!State(IF top <= sum THEN top ELSE sum, 0, Interval) /\ Interval <= age
      BY <2>1, <2>2, <2>5
    <3>2. sum \in Nat
      BY <2>2
    <3> DEFINE t == IF top <= sum THEN top ELSE sum
    <3>3. t \in Nat /\ t <= top /\ t <= sum
      BY <2>3, <3>2
    <3> HIDE DEF t
    <3>4. Drops(t, 0, recent)
      <4>1. ASSUME NEW j \in 1 .. Len(recent)
            PROVE  recent[j] \in 1 .. Interval /\ age < recent[j] + Interval /\ j + tokens <= Brim
        BY <1>4, <2>3, <3>1, <4>1 DEF Drops
      <4>2. CASE Len(recent) = 0
        BY <2>3, <3>3, <4>2 DEF Drops
      <4>3. CASE Len(recent) >= 1
        <5>1. age < Interval + Interval /\ Len(recent) + tokens <= Brim
          BY <4>1, <4>3
        <5>2. t <= tokens + 1
          BY <2>2, <3>3, <5>1
        <5> QED
          BY <2>3, <3>3, <4>1, <5>1, <5>2 DEF Drops
      <4> QED
        BY <4>2, <4>3
    <3>5. d.tokens = t /\ d.age = 0 /\ d.interval = Interval
      BY <3>1 DEF t
    <3> QED
      BY <1>4, <3>3, <3>4, <3>5, FarIsFar
  <2> QED
    BY <2>2, <2>4, <2>5
<1> QED
  BY <1>1, <1>2, <1>3, <1>4 DEF Cd!Strategies

\* One timestamp more, in front.
LEMMA OneMore ==
    ASSUME NEW r \in Seq(0 .. Interval), Rises(r)
    PROVE  LET s == << 0 >> \o r IN
           /\ s \in Seq(0 .. Interval) /\ Rises(s) /\ Len(s) = Len(r) + 1
           /\ s[1] = 0 /\ \A j \in 1 .. Len(r) : s[j + 1] = r[j]
           /\ \A j \in 2 .. Len(s) : s[j] = r[j - 1] /\ j - 1 \in 1 .. Len(r)
<1> DEFINE s == << 0 >> \o r
<1>1. << 0 >> \in Seq(0 .. Interval) /\ Len(<< 0 >>) = 1
  BY CooldownData
<1>2. s \in Seq(0 .. Interval) /\ Len(s) = Len(r) + 1
  BY <1>1
<1>3. s[1] = 0 /\ \A j \in 1 .. Len(r) : s[j + 1] = r[j]
  BY <1>1
<1>4. \A j \in 2 .. Len(s) : s[j] = r[j - 1] /\ j - 1 \in 1 .. Len(r)
  BY <1>1, <1>2
<1>5. \A j \in 1 .. Len(r) : r[j] \in 0 .. Interval
  BY Entry
<1> HIDE DEF s
<1>6. ASSUME NEW i \in 1 .. Len(s), NEW j \in 1 .. Len(s), i <= j
      PROVE  s[i] <= s[j]
  <2>1. CASE i = 1 /\ j = 1
    BY <1>3, <2>1
  <2>2. CASE i = 1 /\ j # 1
    BY <1>3, <1>4, <1>5, <2>2
  <2>3. CASE i # 1
    <3>1. i \in 2 .. Len(s) /\ j \in 2 .. Len(s) /\ i - 1 <= j - 1
      BY <1>2, <1>6, <2>3
    <3> QED
      BY <1>4, <3>1 DEF Rises
  <2> QED
    BY <2>1, <2>2, <2>3
<1>7. Rises(s)
  BY <1>6 DEF Rises
<1> QED
  BY <1>2, <1>3, <1>4, <1>7 DEF s

\* acquire_token takes a token, and the first one opens the interval.
LEMMA TakenKeeps ==
    ASSUME NEW t, NEW a, NEW i, Given(t, a, i, recent), t > 0, system \in Cd!Strategies \ {"sliding"},
           system \in {"leaky", "burst"} => a < Interval
    PROVE  Given(t - 1, IF t = Rate THEN 0 ELSE a, i, << 0 >> \o recent)
<1> USE CooldownData DEF Given, Numbers3
<1> DEFINE s == << 0 >> \o recent
           b == IF t = Rate THEN 0 ELSE a
<1>1. /\ s \in Seq(0 .. Interval) /\ Rises(s) /\ Len(s) = Len(recent) + 1
      /\ s[1] = 0 /\ \A j \in 1 .. Len(recent) : s[j + 1] = recent[j]
      /\ \A j \in 2 .. Len(s) : s[j] = recent[j - 1] /\ j - 1 \in 1 .. Len(recent)
  BY OneMore
<1>2. t - 1 \in Nat /\ b \in 0 .. Cd!Far
  BY FarIsFar
<1> HIDE DEF s
<1>0. a \in Nat /\ \A j \in 1 .. Len(recent) : recent[j] \in 0 .. Interval
  BY Entry, FarIsFar
<1>3. ASSUME system \in {"fixed", "backoff"}
      PROVE  Periods(t - 1, b, s)
  <2>1. CASE t = Rate
    BY <1>1, <1>3, <2>1 DEF Periods
  <2>2. CASE t < Rate /\ a <= Interval
    <3>1. Rate - (t - 1) = (Rate - t) + 1 /\ Rate - t \in 1 .. Len(recent)
      BY <1>3, <2>2 DEF Periods
    <3>2. recent[Rate - t] = a
      BY <1>0, <1>3, <2>2, <3>1 DEF Periods
    <3>3. s[(Rate - t) + 1] = a
      BY <1>1, <3>1, <3>2
    <3> QED
      BY SMTT(60), <1>1, <1>3, <2>2, <3>1, <3>3 DEF Periods
  <2>3. CASE t < Rate /\ a > Interval
    BY <1>1, <1>3, <2>3 DEF Periods
  <2> QED
    BY <1>3, <2>1, <2>2, <2>3 DEF Periods
<1>4. ASSUME system \in {"leaky", "burst"}
      PROVE  Drops(t - 1, b, s)
  <2>1. Brim \in Nat /\ b <= a /\ b < Interval
    BY <1>4, OfTwo DEF Brim
  <2>0. t <= Brim /\ \A j \in 1 .. Len(recent) : a < recent[j] + Interval /\ (recent[j] <= a => j + t <= Brim)
    BY <1>4 DEF Drops
  <2>2. ASSUME NEW j \in 1 .. Len(s)
        PROVE  b < s[j] + Interval /\ (s[j] <= b => j + (t - 1) <= Brim)
    <3>1. CASE j = 1
      <4>1. s[j] = 0
        BY <1>1, <3>1
      <4> QED
        BY <2>0, <2>1, <3>1, <4>1
    <3>2. CASE j # 1
      <4>1. s[j] = recent[j - 1] /\ j - 1 \in 1 .. Len(recent) /\ recent[j - 1] \in 0 .. Interval
        BY <1>0, <1>1, <3>2
      <4>2. a < s[j] + Interval /\ (s[j] <= a => (j - 1) + t <= Brim)
        BY <2>0, <4>1
      <4>3. (j - 1) + t = j + (t - 1)
        BY <1>1
      <4> QED
        BY <1>0, <2>1, <4>1, <4>2, <4>3
    <3> QED
      BY <3>1, <3>2
  <2> QED
    BY <1>1, <1>4, <2>1, <2>2 DEF Drops
<1> HIDE DEF b
<1>5. Given(t - 1, b, i, s)
  BY <1>1, <1>2, <1>3, <1>4
<1> QED
  BY <1>5 DEF s, b

\* A part of the places of a sequence with every place before one of its own is its beginning.
LEMMA Beginning ==
    ASSUME NEW m \in Nat, NEW S \in SUBSET (1 .. m), \A i \in S : \A j \in 1 .. m : j <= i => j \in S
    PROVE  \E n \in 0 .. m : S = 1 .. n
<1> DEFINE T == {n \in Nat : n + 1 \notin S}
<1>1. m \in T
  OBVIOUS
<1>2. PICK n \in T : \A k \in T : ~(<<k, n>> \in OpToRel(<, Nat))
  BY <1>1, NatLessThanWellFounded, WFMin
<1>3. \A k \in T : n <= k
  <2>1. ASSUME NEW k \in Nat, NEW l \in Nat, k < l
        PROVE  <<k, l>> \in OpToRel(<, Nat)
    BY <2>1, Zenon DEF OpToRel
  <2>2. \A k \in T : ~(k < n)
    BY <1>2, <2>1
  <2> QED
    BY <2>2
<1>4. n <= m
  BY <1>1, <1>3
<1>5. \A i \in 1 .. n : i \in S
  <2>1. ASSUME NEW i \in 1 .. n
        PROVE  i \in S
    <3>1. i - 1 \in Nat /\ i - 1 < n /\ (i - 1) + 1 = i
      OBVIOUS
    <3>2. i - 1 \notin T
      BY <1>3, <3>1
    <3> QED
      BY <3>1, <3>2
  <2> QED
    BY <2>1
<1>6. \A i \in S : i <= n
  <2>1. ASSUME NEW i \in S, n < i
        PROVE  FALSE
    <3>1. n + 1 \in 1 .. m /\ n + 1 <= i
      BY <2>1
    <3>2. n + 1 \in S
      BY <2>1, <3>1
    <3> QED
      BY <3>2
  <2> QED
    BY <2>1
<1>7. S = 1 .. n
  <2>1. n \in Nat
    OBVIOUS
  <2> HIDE DEF T
  <2>2. \A i \in S : i \in 1 .. n
    BY <1>6, <2>1
  <2> QED
    BY <1>5, <2>2
<1> QED
  BY <1>4, <1>7

\* A tick: the tokens that are an interval old drop out, and the others are a tick older.
LEMMA Older ==
    ASSUME CooldownInv, Cd!Tick
    PROVE  /\ recent' \in Seq(0 .. Interval) /\ Len(recent') \in 0 .. Len(recent)
           /\ \A i \in 1 .. Len(recent') : recent[i] < Interval /\ recent'[i] = recent[i] + 1
           /\ \A i \in 1 .. Len(recent) : recent[i] < Interval => i <= Len(recent')
<1> USE CooldownData
<1> DEFINE S == {j \in DOMAIN recent : recent[j] < Interval}
<1>1. /\ recent \in Seq(0 .. Interval) /\ DOMAIN recent = 1 .. Len(recent)
      /\ Len(recent) \in Nat /\ \A j \in 1 .. Len(recent) : recent[j] \in 0 .. Interval
  BY Entry DEF CooldownInv, Given
<1>2. S \in SUBSET (1 .. Len(recent)) /\ \A i \in S : \A j \in 1 .. Len(recent) : j <= i => j \in S
  BY <1>1 DEF Rises, CooldownInv, Given
<1>3. PICK n \in 0 .. Len(recent) : S = 1 .. n
  <2> HIDE DEF S
  <2> QED
    BY <1>1, <1>2, Beginning
<1>4. recent' = [i \in 1 .. n |-> recent[i] + 1]
  BY <1>3 DEF Cd!Tick
<1>5. \A i \in 1 .. n : i \in 1 .. Len(recent) /\ recent[i] < Interval /\ recent[i] + 1 \in 0 .. Interval
  <2>1. \A i \in S : i \in 1 .. Len(recent) /\ recent[i] < Interval
    BY <1>1
  <2> HIDE DEF S
  <2> QED
    BY <1>1, <1>3, <2>1
<1>6. \A i \in 1 .. Len(recent) : recent[i] < Interval => i \in 1 .. n
  <2>1. \A i \in 1 .. Len(recent) : recent[i] < Interval => i \in S
    BY <1>1
  <2> HIDE DEF S
  <2> QED
    BY <1>3, <2>1
<1>7. ASSUME NEW R, NEW f \in [1 .. n -> R]
      PROVE  f \in Seq(R) /\ Len(f) = n
  BY <1>7
<1>8. recent' \in [1 .. n -> 0 .. Interval] /\ \A i \in 1 .. n : recent'[i] = recent[i] + 1
  BY <1>4, <1>5
<1>9. recent' \in Seq(0 .. Interval) /\ Len(recent') = n
  BY <1>7, <1>8
<1> QED
  BY <1>5, <1>6, <1>8, <1>9

\* Time passes.
LEMMA TickKeeps == CooldownInv /\ Cd!Tick => CooldownInv'
<1> SUFFICES ASSUME CooldownInv, Cd!Tick
             PROVE  CooldownInv'
  OBVIOUS
<1> USE CooldownData
<1>1. /\ recent' \in Seq(0 .. Interval) /\ Len(recent') \in 0 .. Len(recent)
      /\ \A i \in 1 .. Len(recent') : recent[i] < Interval /\ recent'[i] = recent[i] + 1
      /\ \A i \in 1 .. Len(recent) : recent[i] < Interval => i <= Len(recent')
  BY Older
<1>2. Len(recent) \in Nat /\ \A j \in 1 .. Len(recent) : recent[j] \in 0 .. Interval
  BY Entry DEF CooldownInv, Given
<1>3. /\ age \in 0 .. Cd!Far /\ Cd!Far \in Nat /\ Interval + Interval < Cd!Far
      /\ tokens \in Nat /\ UNCHANGED <<system, tokens, interval>>
      /\ age' = IF Cd!Far <= age + 1 THEN Cd!Far ELSE age + 1
  <2>1. /\ age \in 0 .. Cd!Far /\ Cd!Far \in Nat /\ Interval + Interval < Cd!Far
        /\ tokens \in Nat
    BY FarIsFar DEF CooldownInv, Given, Numbers3
  <2>2. UNCHANGED <<system, tokens, interval>> /\ age' = Cd!Min({Cd!Far, age + 1})
    BY DEF Cd!Tick
  <2>3. Cd!Far \in Int /\ age + 1 \in Int
    BY <2>1
  <2>4. Cd!Min({Cd!Far, age + 1}) = IF Cd!Far <= age + 1 THEN Cd!Far ELSE age + 1
    BY <2>3, OfTwo
  <2> QED
    BY <2>1, <2>2, <2>4
<1>4. \A i \in 1 .. Len(recent') : i \in 1 .. Len(recent)
  BY <1>1, <1>2
<1>5. Rises(recent')
  <2>1. Rises(recent)
    BY DEF CooldownInv, Given
  <2>2. ASSUME NEW i \in 1 .. Len(recent'), NEW j \in 1 .. Len(recent'), i <= j
        PROVE  recent'[i] <= recent'[j]
    <3>1. recent[i] <= recent[j] /\ recent[i] \in Int /\ recent[j] \in Int
      BY <1>2, <1>4, <2>1, <2>2 DEF Rises
    <3>2. recent'[i] = recent[i] + 1 /\ recent'[j] = recent[j] + 1
      BY <1>1
    <3> QED
      BY <3>1, <3>2
  <2> QED
    BY <2>2 DEF Rises
<1>6. Numbers3(tokens, age', interval)
  BY <1>3 DEF CooldownInv, Given, Numbers3
<1>7. ASSUME system \in {"fixed", "backoff"}
      PROVE  Periods(tokens, age', recent')
  <2>1. Periods(tokens, age, recent)
    BY <1>7 DEF CooldownInv, Given
  <2>2. CASE tokens < Rate /\ age < Interval
    <3>1. Rate - tokens \in 1 .. Len(recent) /\ recent[Rate - tokens] = age /\ Len(recent) < (Rate - tokens) + Rate
      BY <1>3, <2>1, <2>2 DEF Periods
    <3>2. Rate - tokens \in 1 .. Len(recent') /\ recent'[Rate - tokens] = age + 1 /\ age' = age + 1
      BY <1>1, <1>2, <1>3, <2>2, <3>1, SMTT(30)
    <3> QED
      BY <1>1, <1>3, <2>1, <2>2, <3>1, <3>2 DEF Periods
  <2>3. CASE tokens < Rate /\ age = Interval
    <3>1. Rate - tokens \in 1 .. Len(recent) /\ recent[Rate - tokens] = Interval
      BY <1>3, <2>1, <2>3 DEF Periods
    <3>2. Len(recent') < Rate - tokens
      <4>1. ASSUME Rate - tokens <= Len(recent')
            PROVE  FALSE
        <5>1. Rate - tokens \in 1 .. Len(recent')
          BY <1>1, <3>1, <4>1
        <5> QED
          BY <1>1, <3>1, <5>1
      <4> QED
        BY <1>1, <1>3, <4>1
    <3>3. age' > Interval
      BY <1>3, <2>3
    <3> QED
      BY <1>3, <2>1, <2>3, <3>2, <3>3 DEF Periods
  <2>4. CASE tokens < Rate /\ age > Interval
    <3>1. age' > Interval /\ Len(recent) < Rate - tokens
      BY <1>3, <2>1, <2>4 DEF Periods
    <3> QED
      BY <1>1, <1>2, <1>3, <2>1, <2>4, <3>1 DEF Periods
  <2>5. CASE tokens = Rate
    BY <1>1, <1>2, <2>1, <2>5 DEF Periods
  <2> QED
    BY <1>3, <2>1, <2>2, <2>3, <2>4, <2>5 DEF Periods
<1>8. ASSUME system \in {"leaky", "burst"}
      PROVE  Drops(tokens, age', recent')
  <2>1. Drops(tokens, age, recent)
    BY <1>8 DEF CooldownInv, Given
  <2>2. Brim \in Nat
    BY <1>8, OfTwo DEF Brim
  <2>3. ASSUME NEW j \in 1 .. Len(recent')
        PROVE  age' < recent'[j] + Interval /\ (recent'[j] <= age' => j + tokens <= Brim)
    <3>1. recent'[j] = recent[j] + 1 /\ recent[j] \in 0 .. Interval /\ recent[j] < Interval
      BY <1>1, <1>2, <1>4
    <3>2. age < recent[j] + Interval /\ (recent[j] <= age => j + tokens <= Brim)
      BY <1>4, <2>1 DEF Drops
    <3> QED
      BY <1>3, <3>1, <3>2
  <2>4. tokens <= Brim /\ Len(recent') + tokens <= Brim + 1
    BY <1>1, <1>2, <1>3, <2>1, <2>2 DEF Drops
  <2> QED
    BY <2>3, <2>4 DEF Drops
<1>9. system = "sliding" => tokens = Rate /\ Len(recent') <= Rate
  BY <1>1, <1>2 DEF CooldownInv, Given
<1>10. Given(tokens, age', interval, recent')
  BY <1>1, <1>5, <1>6, <1>7, <1>8, <1>9 DEF Given
<1>11. system' = system /\ tokens' = tokens /\ interval' = interval /\ system \in Cd!Strategies
  BY <1>3 DEF CooldownInv
<1> QED
  BY <1>10, <1>11 DEF CooldownInv, Given, Numbers3, Periods, Drops, Brim

\* acquire_token
LEMMA AcquireKeeps == CooldownInv /\ Cd!Acquire => CooldownInv'
<1> SUFFICES ASSUME CooldownInv, Cd!Acquire
             PROVE  CooldownInv'
  OBVIOUS
<1> DEFINE d == Cd!Determined(age)
<1>1. /\ Given(d.tokens, d.age, d.interval, recent)
      /\ system \in {"leaky", "burst"} => d.age < Interval
  BY DeterminedKeeps
<1>2. system' = system /\ system \in Cd!Strategies
  BY DEF Cd!Acquire, CooldownInv
<1>3. CASE Cd!Available(0) > 0 /\ system = "sliding"
  <2>1. recent' = << 0 >> \o recent /\ UNCHANGED <<tokens, age, interval>>
    BY <1>3 DEF Cd!Acquire
  <2>2. Len(recent) < Rate
    BY <1>3, CooldownData DEF Cd!Available, CooldownInv, Given
  <2>3. recent \in Seq(0 .. Interval) /\ Rises(recent) /\ tokens = Rate /\ Numbers3(tokens, age, interval)
    BY <1>3 DEF CooldownInv, Given
  <2>4. recent' \in Seq(0 .. Interval) /\ Rises(recent') /\ Len(recent') = Len(recent) + 1
    BY <2>1, <2>3, OneMore
  <2>5. Given(tokens, age, interval, recent')
    BY <1>3, <2>2, <2>3, <2>4, CooldownData DEF Given
  <2> QED
    BY <1>2, <2>1, <2>5 DEF CooldownInv, Given, Numbers3, Periods, Drops, Brim
<1>4. CASE Cd!Available(0) > 0 /\ system # "sliding"
  <2>1. /\ recent' = << 0 >> \o recent /\ interval' = d.interval /\ tokens' = d.tokens - 1
        /\ age' = IF d.tokens = Rate THEN 0 ELSE d.age
    BY <1>4 DEF Cd!Acquire, Cd!Opened
  <2>2. d.tokens > 0
    <3>1. age \in 0 .. Cd!Far /\ Cd!Far \in Nat
      BY FarIsFar DEF CooldownInv, Given, Numbers3
    <3>2. age + 0 = age /\ Cd!Min({Cd!Far, age + 0}) = age
      BY <3>1, OfTwo
    <3> QED
      BY <1>4, <3>2 DEF Cd!Available
  <2> HIDE DEF d
  <2>3. Given(d.tokens - 1, IF d.tokens = Rate THEN 0 ELSE d.age, d.interval, << 0 >> \o recent)
    BY <1>1, <1>2, <1>4, <2>2, TakenKeeps
  <2>4. Given(tokens', age', interval', recent')
    BY <2>1, <2>3
  <2> QED
    BY <1>2, <2>4 DEF CooldownInv, Given, Numbers3, Periods, Drops, Brim
<1>5. CASE ~(Cd!Available(0) > 0)
  <2>1. tokens' = d.tokens /\ age' = d.age /\ interval' = d.interval /\ recent' = recent
    BY <1>5 DEF Cd!Acquire
  <2> HIDE DEF d
  <2> QED
    BY <1>1, <1>2, <2>1 DEF CooldownInv, Given, Numbers3, Periods, Drops, Brim
<1> QED
  BY <1>3, <1>4, <1>5

\* on_cooldown and get_cooldown_time, and reset
LEMMA OthersKeep == CooldownInv /\ (Cd!Query \/ Cd!Reset) => CooldownInv'
<1>1. ASSUME CooldownInv, Cd!Query
      PROVE  CooldownInv'
  <2> DEFINE d == Cd!Determined(age)
  <2>1. Given(d.tokens, d.age, d.interval, recent)
    BY <1>1, DeterminedKeeps
  <2>2. /\ tokens' = d.tokens /\ age' = d.age /\ interval' = d.interval
        /\ recent' = recent /\ system' = system
    BY <1>1 DEF Cd!Query
  <2> HIDE DEF d
  <2> QED
    BY <1>1, <2>1, <2>2 DEF CooldownInv, Given, Numbers3, Periods, Drops, Brim
<1>2. ASSUME CooldownInv, Cd!Reset
      PROVE  CooldownInv'
  <2>1. /\ tokens' = Rate /\ age' = Cd!Far /\ recent' = << >>
        /\ interval' = interval /\ system' = system
    BY <1>2 DEF Cd!Reset
  <2>2. Given(Rate, Cd!Far, interval, << >>)
    <3>1. << >> \in Seq(0 .. Interval) /\ Len(<< >>) = 0
      OBVIOUS
    <3>2. Rises(<< >>)
      BY DEF Rises
    <3>3. system \in {"leaky", "burst"} => Drops(Rate, Cd!Far, << >>)
      <4>1. system \in {"leaky", "burst"} => Brim \in Nat /\ Rate <= Brim
        BY CooldownData, OfTwo DEF Brim
      <4> QED
        BY <4>1, CooldownData DEF Drops
    <3>4. Periods(Rate, Cd!Far, << >>)
      BY CooldownData DEF Periods
    <3>5. Numbers3(Rate, Cd!Far, interval)
      BY <1>2, CooldownData, FarIsFar DEF CooldownInv, Given, Numbers3
    <3> QED
      BY <3>1, <3>2, <3>3, <3>4, <3>5, CooldownData DEF Given
  <2> QED
    BY <1>2, <2>1, <2>2 DEF CooldownInv, Given, Numbers3, Periods, Drops, Brim
<1> QED
  BY <1>1, <1>2

\* Every step keeps the invariant ...
LEMMA CooldownKept == CooldownInv /\ [Cd!Next]_cdVars => CooldownInv'
<1>1. CooldownInv /\ UNCHANGED cdVars => CooldownInv'
  BY DEF CooldownInv, Given, Numbers3, Periods, Drops, Brim, cdVars
<1> QED
  BY <1>1, AcquireKeeps, OthersKeep, TickKeeps DEF Cd!Next

\* ... which is true at the start.
LEMMA CooldownStart == Init => CooldownInv
<1> SUFFICES ASSUME Cd!Init
             PROVE  CooldownInv
  BY DEF Init
<1>1. << >> \in Seq(0 .. Interval) /\ Len(<< >>) = 0
  OBVIOUS
<1>2. Rises(<< >>)
  BY DEF Rises
<1>3. system \in {"leaky", "burst"} => Drops(Rate, Cd!Far, << >>)
  <2>1. system \in {"leaky", "burst"} => Brim \in Nat /\ Rate <= Brim
    BY CooldownData, OfTwo DEF Brim
  <2> QED
    BY <2>1, CooldownData DEF Drops
<1>4. Periods(Rate, Cd!Far, << >>)
  BY CooldownData DEF Periods
<1>5. Numbers3(Rate, Cd!Far, Interval)
  BY CooldownData, FarIsFar DEF Numbers3
<1>6. Given(Rate, Cd!Far, Interval, << >>)
  BY <1>1, <1>2, <1>3, <1>4, <1>5, CooldownData DEF Given
<1> QED
  BY <1>6 DEF Cd!Init, CooldownInv

\* The variables of Cooldowns have their types: no more tokens than the rate or the burst rate.
THEOREM CooldownTypes == Spec => []Cd!TypeOK
<1>1. CooldownInv => Cd!TypeOK
  <2> SUFFICES ASSUME CooldownInv
               PROVE  Cd!TypeOK
    OBVIOUS
  <2> DEFINE m == Cd!Max({Rate, BurstRate})
  <2>1. m \in Nat /\ Rate <= m
    BY CooldownData, OfTwo
  <2>2. tokens \in Nat /\ tokens <= m
    <3>1. CASE system = "sliding"
      BY <2>1, <3>1 DEF CooldownInv, Given, Numbers3
    <3>2. CASE system \in {"fixed", "backoff"}
      BY <2>1, <3>2, CooldownData DEF CooldownInv, Given, Numbers3, Periods
    <3>3. CASE system \in {"leaky", "burst"}
      BY <2>1, <3>3, CooldownData DEF CooldownInv, Given, Numbers3, Drops, Brim
    <3> QED
      BY <3>1, <3>2, <3>3 DEF CooldownInv, Cd!Strategies
  <2>3. interval \in Nat \ {0} /\ age \in 0 .. Cd!Far /\ recent \in Seq(0 .. Interval) /\ system \in Cd!Strategies
    BY CooldownData DEF CooldownInv, Given, Numbers3
  <2> HIDE DEF m
  <2>4. tokens \in 0 .. m
    BY <2>1, <2>2
  <2> QED
    BY <2>3, <2>4 DEF Cd!TypeOK, m
<1> QED
  BY <1>1, CooldownStart, CooldownKept, CooldownStep, PTL DEF Spec

\* However its tokens are asked for, a cooldown strategy gives no more of them in an interval
\* than its bound (acquire_token of the five strategies).
THEOREM CooldownRateKept == Spec => []RateKept
<1>1. CooldownInv => RateKept
  <2> SUFFICES ASSUME CooldownInv
               PROVE  Len(recent) <= Cd!RateBound
    BY DEF RateKept, Cd!RateKept
  <2>1. Len(recent) \in Nat /\ tokens \in Nat
    BY Entry DEF CooldownInv, Given, Numbers3
  <2>2. CASE system = "sliding"
    BY <2>2 DEF CooldownInv, Given, Cd!RateBound
  <2>3. CASE system \in {"fixed", "backoff"}
    <3>1. Len(recent) <= 2 * Rate - 1
      BY <2>1, <2>3, CooldownData DEF CooldownInv, Given, Periods
    <3> QED
      BY <2>3, <3>1 DEF Cd!RateBound
  <2>4. CASE system \in {"leaky", "burst"}
    <3>1. Len(recent) <= Brim + 1 /\ Cd!RateBound = Brim + 1
      <4>1. Brim \in Nat
        BY <2>4, CooldownData, OfTwo DEF Brim
      <4>2. Len(recent) <= Brim + 1
        BY <2>1, <2>4, <4>1 DEF CooldownInv, Given, Drops
      <4> QED
        BY <2>4, <4>2 DEF Cd!RateBound, Brim
    <3> QED
      BY <3>1
  <2> QED
    BY <2>2, <2>3, <2>4 DEF CooldownInv, Cd!Strategies
<1> QED
  BY <1>1, CooldownStart, CooldownKept, CooldownStep, PTL DEF Spec

\* What acquire_token would find at another time, when the cooldown was opened a ticks before.
LEMMA AvailableThen ==
    ASSUME CooldownInv, NEW n \in Int, system # "sliding", age + n \in 0 .. Cd!Far
    PROVE  Cd!Available(n) = Cd!Determined(age + n).tokens
<1>1. Cd!Far \in Int /\ age + n \in Int /\ age + n <= Cd!Far
  BY FarIsFar
<1>2. Cd!Min({Cd!Far, age + n}) = age + n
  <2> DEFINE x == age + n
  <2>1. x \in Int /\ Cd!Far \in Int /\ x <= Cd!Far
    BY <1>1
  <2> HIDE DEF x
  <2>2. Cd!Min({Cd!Far, x}) = IF Cd!Far <= x THEN Cd!Far ELSE x
    BY <2>1, OfTwo
  <2>3. Cd!Min({Cd!Far, x}) = x
    BY <2>1, <2>2
  <2> QED
    BY <2>3 DEF x
<1> QED
  BY <1>2 DEF Cd!Available

\* The time left of a fixed interval.
LEMMA FixedWait ==
    ASSUME CooldownInv, system \in {"fixed", "backoff"}, Cd!Available(0) = 0
    PROVE  /\ Cd!TimeLeft >= 0
           /\ Cd!Available(Cd!TimeLeft + 1) > 0
           /\ Cd!TimeLeft > 0 => Cd!Available(Cd!TimeLeft - 1) = 0
<1> USE CooldownData
<1>1. /\ age \in 0 .. Cd!Far /\ Cd!Far \in Nat /\ tokens \in Nat
      /\ interval \in Nat /\ 1 <= interval /\ interval + 1 <= Cd!Far
  BY FarIsFar DEF CooldownInv, Given, Numbers3
<1>2. ASSUME NEW a \in 0 .. Cd!Far
      PROVE  Cd!Determined(a).tokens = IF a > interval THEN Rate ELSE tokens
  BY DEF Cd!Determined, Cd!State
<1>3. Cd!Available(0) = Cd!Determined(age).tokens
  <2>1. age + 0 = age
    BY <1>1
  <2> QED
    BY <1>1, <2>1, AvailableThen
<1>4. age <= interval /\ tokens = 0
  BY <1>1, <1>2, <1>3
<1>5. Cd!TimeLeft = interval - age
  <2>1. ~(age > interval)
    BY <1>1, <1>4
  <2>2. Cd!Determined(age) = Cd!State(tokens, age, interval)
    BY <2>1 DEF Cd!Determined
  <2> QED
    BY <2>2 DEF Cd!TimeLeft, Cd!State
<1>6. Cd!Available(interval - age + 1) > 0
  <2>1. age + (interval - age + 1) = interval + 1 /\ interval - age + 1 \in Int /\ interval + 1 \in 0 .. Cd!Far
    BY <1>1
  <2>2. Cd!Available(interval - age + 1) = Cd!Determined(interval + 1).tokens
    BY <2>1, AvailableThen
  <2> QED
    BY <1>1, <1>2, <2>1, <2>2
<1>7. Cd!Available(interval - age - 1) = 0
  <2>1. age + (interval - age - 1) = interval - 1 /\ interval - age - 1 \in Int /\ interval - 1 \in 0 .. Cd!Far
    BY <1>1
  <2>2. Cd!Available(interval - age - 1) = Cd!Determined(interval - 1).tokens
    BY <2>1, AvailableThen
  <2> QED
    BY <1>1, <1>2, <1>4, <2>1, <2>2
<1> QED
  BY <1>1, <1>4, <1>5, <1>6, <1>7

\* The time until a bucket is filled again.
LEMMA BucketWait ==
    ASSUME CooldownInv, system \in {"leaky", "burst"}, Cd!Available(0) = 0, system = "burst" => BurstRate > 0
    PROVE  /\ Cd!TimeLeft >= 0
           /\ Cd!Available(Cd!TimeLeft + 1) > 0
           /\ Cd!TimeLeft > 0 => Cd!Available(Cd!TimeLeft - 1) = 0
<1> USE CooldownData
<1> DEFINE top == IF system = "leaky" THEN Rate ELSE BurstRate
<1>1. /\ age \in 0 .. Cd!Far /\ Cd!Far \in Nat /\ tokens \in Nat
      /\ interval = Interval /\ Interval + 1 <= Cd!Far /\ top \in Nat \ {0}
  BY FarIsFar DEF CooldownInv, Given, Numbers3
<1>2. ASSUME NEW a \in 0 .. Cd!Far
      PROVE  /\ a < Interval => Cd!Determined(a) = Cd!State(tokens, a, interval)
             /\ Interval <= a => Cd!Determined(a).tokens > 0
  <2>1. Cd!Determined(a) = Cd!Filled(top, a)
    BY DEF Cd!Determined
  <2>2. a \div Interval \in Nat /\ (a < Interval => a \div Interval = 0) /\ (Interval <= a => a \div Interval >= 1)
    BY <1>1, Passed
  <2>3. CASE a < Interval
    <3>1. ~(a \div interval >= 1)
      BY <1>1, <2>2, <2>3
    <3> QED
      BY <1>1, <2>1, <2>3, <3>1 DEF Cd!Filled
  <2>4. CASE Interval <= a
    <3> DEFINE q == a \div interval
    <3>1. q \in Nat /\ q >= 1
      BY <1>1, <2>2, <2>4
    <3> HIDE DEF q
    <3>2. top \in Int /\ tokens + q \in Int /\ tokens + q >= 1
      BY <1>1, <3>1
    <3> HIDE DEF top
    <3>3. Cd!Min({top, tokens + q}) = IF top <= tokens + q THEN top ELSE tokens + q
      BY <3>2, OfTwo
    <3>4. Cd!Min({top, tokens + q}) > 0
      BY <1>1, <3>2, <3>3
    <3>5. Cd!Filled(top, a).tokens = Cd!Min({top, tokens + q})
      BY <3>1 DEF Cd!Filled, Cd!State, q
    <3> QED
      BY <1>1, <2>1, <2>4, <3>4, <3>5
  <2> QED
    BY <1>1, <2>3, <2>4
<1>3. Cd!Available(0) = Cd!Determined(age).tokens
  <2>1. age + 0 = age
    BY <1>1
  <2> QED
    BY <1>1, <2>1, AvailableThen
<1>4. age < Interval /\ Cd!Determined(age) = Cd!State(tokens, age, interval) /\ tokens = 0
  <2>1. age < Interval
    BY <1>1, <1>2, <1>3
  <2> QED
    BY <1>1, <1>2, <1>3, <2>1 DEF Cd!State
<1>5. Cd!TimeLeft = Interval - age
  BY <1>1, <1>4 DEF Cd!TimeLeft, Cd!State
<1>6. Cd!Available(Interval - age + 1) > 0
  <2>1. age + (Interval - age + 1) = Interval + 1 /\ Interval - age + 1 \in Int /\ Interval + 1 \in 0 .. Cd!Far
    BY <1>1
  <2>2. Cd!Available(Interval - age + 1) = Cd!Determined(Interval + 1).tokens
    BY <2>1, AvailableThen
  <2>3. Interval <= Interval + 1
    OBVIOUS
  <2> QED
    BY <1>2, <2>1, <2>2, <2>3
<1>7. Cd!Available(Interval - age - 1) = 0
  <2>1. age + (Interval - age - 1) = Interval - 1 /\ Interval - age - 1 \in Int /\ Interval - 1 \in 0 .. Cd!Far
        /\ Interval - 1 < Interval
    BY <1>1
  <2>2. Cd!Available(Interval - age - 1) = Cd!Determined(Interval - 1).tokens
    BY <2>1, AvailableThen
  <2> QED
    BY <1>2, <1>4, <2>1, <2>2 DEF Cd!State
<1> QED
  BY <1>1, <1>4, <1>5, <1>6, <1>7

\* The time until the oldest timestamp is trimmed.
LEMMA SlidingWait ==
    ASSUME CooldownInv, system = "sliding", Cd!Available(0) = 0
    PROVE  /\ Cd!TimeLeft >= 0
           /\ Cd!Available(Cd!TimeLeft + 1) > 0
           /\ Cd!TimeLeft > 0 => Cd!Available(Cd!TimeLeft - 1) = 0
<1> USE CooldownData
<1>1. /\ recent \in Seq(0 .. Interval) /\ Len(recent) \in Nat /\ Len(recent) <= Rate
      /\ \A j \in 1 .. Len(recent) : recent[j] \in 0 .. Interval
  BY Entry DEF CooldownInv, Given
<1>2. Rate \in DOMAIN recent
  BY DEF Cd!Available
<1>3. Len(recent) = Rate
  BY <1>1, <1>2
<1>4. recent[Rate] \in 0 .. Interval /\ Cd!TimeLeft = Interval - recent[Rate]
  BY <1>1, <1>3 DEF Cd!TimeLeft
<1>5. ~(recent[Rate] + (Cd!TimeLeft + 1) <= Interval) /\ recent[Rate] + (Cd!TimeLeft - 1) <= Interval
  BY <1>4
<1> QED
  BY <1>2, <1>4, <1>5 DEF Cd!Available

\* On a cooldown a token is there once the time that get_cooldown_time answers has passed, and
\* not a tick before, for every strategy and wherever its interval stands.
THEOREM CooldownWaitIsEnough == Spec => []WaitIsEnough
<1>1. CooldownInv => WaitIsEnough
  BY FixedWait, BucketWait, SlidingWait DEF WaitIsEnough, Cd!WaitIsEnough, CooldownInv, Cd!Strategies
<1> QED
  BY <1>1, CooldownStart, CooldownKept, CooldownStep, PTL DEF Spec

-----------------------------------------------------------------------------
(***************************************************************************)
(* EndPoints.                                                              *)
(***************************************************************************)
\* What makes the key of an end point tell its calls apart: every field of the path is given, no
\* channel or guild is given that the path does not name, and a webhook always comes with its token.
WellMade(e) ==
    /\ Ep!Fields(e.path) \subseteq e.params \cup e.inlined
    /\ e.inlined \subseteq Ep!Fields(e.path)
    /\ "channel_id" \in e.params => "channel_id" \in Ep!Fields(e.path)
    /\ "guild_id" \in e.params => "guild_id" \in Ep!Fields(e.path)
    /\ "webhook_token" \in e.params => {"webhook_id", "webhook_token"} \subseteq Ep!Fields(e.path) \cap e.params
    /\ "webhook_id" \in Ep!Fields(e.path) => "webhook_token" \in e.params
    /\ e.inlined \cap {"channel_id", "guild_id", "webhook_id"} = {}

\* Every end point of every wrapper is made so.
LEMMA AllWellMade == \A e \in Ep!EndPointSet : WellMade(e)
<1> USE DEF WellMade, Ep!Fields, Ep!FieldNames, Ep!Ep, Ep!Inlined, Ep!Get, Ep!Put, Ep!Post, Ep!Patch, Ep!Delete
<1>1. \A e \in Ep!Bot : WellMade(e)
  BY DEF Ep!Bot
<1>2. \A e \in Ep!ChannelReads : WellMade(e)
  BY DEF Ep!ChannelReads
<1>3. \A e \in Ep!ChannelEdits : WellMade(e)
  BY DEF Ep!ChannelEdits
<1>4. \A e \in Ep!Invites : WellMade(e)
  BY DEF Ep!Invites
<1>5. \A e \in Ep!ChannelPermissions : WellMade(e)
  BY DEF Ep!ChannelPermissions
<1>6. \A e \in Ep!StageInstances : WellMade(e)
  BY DEF Ep!StageInstances
<1>7. \A e \in Ep!ForumTags : WellMade(e)
  BY DEF Ep!ForumTags
<1>8. \A e \in Ep!GuildEmojis : WellMade(e)
  BY DEF Ep!GuildEmojis
<1>9. \A e \in Ep!ApplicationEmojis : WellMade(e)
  BY DEF Ep!ApplicationEmojis
<1>10. \A e \in Ep!Entitlements : WellMade(e)
  BY DEF Ep!Entitlements
<1>11. \A e \in Ep!Guilds : WellMade(e)
  BY DEF Ep!Guilds
<1>12. \A e \in Ep!Bans : WellMade(e)
  BY DEF Ep!Bans
<1>13. \A e \in Ep!Pruning : WellMade(e)
  BY DEF Ep!Pruning
<1>14. \A e \in Ep!GuildRoles : WellMade(e)
  BY DEF Ep!GuildRoles
<1>15. \A e \in Ep!GuildPages : WellMade(e)
  BY DEF Ep!GuildPages
<1>16. \A e \in Ep!GuildSettings : WellMade(e)
  BY DEF Ep!GuildSettings
<1>17. \A e \in Ep!Templates : WellMade(e)
  BY DEF Ep!Templates
<1>18. \A e \in Ep!AutoModeration : WellMade(e)
  BY DEF Ep!AutoModeration
<1>19. \A e \in Ep!Onboarding : WellMade(e)
  BY DEF Ep!Onboarding
<1>20. \A e \in Ep!Members : WellMade(e)
  BY DEF Ep!Members
<1>21. \A e \in Ep!MemberRoles : WellMade(e)
  BY DEF Ep!MemberRoles
<1>22. \A e \in Ep!Messages : WellMade(e)
  BY DEF Ep!Messages
<1>23. \A e \in Ep!Polls : WellMade(e)
  BY DEF Ep!Polls
<1>24. \A e \in Ep!Reactions : WellMade(e)
  BY DEF Ep!Reactions
<1>25. \A e \in Ep!ScheduledEvents : WellMade(e)
  BY DEF Ep!ScheduledEvents
<1>26. \A e \in Ep!EventUsers : WellMade(e)
  BY DEF Ep!EventUsers
<1>27. \A e \in Ep!Stickers : WellMade(e)
  BY DEF Ep!Stickers
<1>28. \A e \in Ep!Threads : WellMade(e)
  BY DEF Ep!Threads
<1>29. \A e \in Ep!NewThreads : WellMade(e)
  BY DEF Ep!NewThreads
<1>30. \A e \in Ep!Users : WellMade(e)
  BY DEF Ep!Users
<1>31. \A e \in Ep!Webhooks : WellMade(e)
  BY DEF Ep!Webhooks
<1>32. \A e \in Ep!WebhookMessages : WellMade(e)
  BY DEF Ep!WebhookMessages
<1> HIDE DEF WellMade
<1> QED
  BY <1>1, <1>2, <1>3, <1>4, <1>5, <1>6, <1>7, <1>8, <1>9, <1>10, <1>11, <1>12, <1>13, <1>14, <1>15, <1>16,
     <1>17, <1>18, <1>19, <1>20, <1>21, <1>22, <1>23, <1>24, <1>25, <1>26, <1>27, <1>28, <1>29, <1>30, <1>31,
     <1>32 DEF Ep!EndPointSet

\* Two calls of an end point have one key if and only if what the key is made of is the same.
LEMMA KeysAgree ==
    ASSUME NEW e \in Ep!EndPointSet, NEW a \in Ep!CallsOf(e), NEW b \in Ep!CallsOf(e)
    PROVE  Ep!RlBucket(a) = Ep!RlBucket(b)
               <=> \A m \in Ep!Majors(e) \cup e.inlined : a.ids[m] = b.ids[m]
<1>1. WellMade(e)
  BY AllWellMade
<1>2. a.ep = e /\ b.ep = e
  BY DEF Ep!CallsOf
<1> DEFINE majors == Ep!Majors(e) \cup e.inlined
<1>3. Ep!EndPoint(a) = Ep!EndPoint(b) <=> \A m \in e.inlined : a.ids[m] = b.ids[m]
  <2>1. ASSUME \A m \in e.inlined : a.ids[m] = b.ids[m]
        PROVE  Ep!EndPoint(a) = Ep!EndPoint(b)
    BY <1>2, <2>1 DEF Ep!EndPoint
  <2>2. ASSUME Ep!EndPoint(a) = Ep!EndPoint(b), NEW m \in e.inlined
        PROVE  a.ids[m] = b.ids[m]
    <3>1. PICK i \in DOMAIN e.path : e.path[i] = m
      BY <1>1 DEF WellMade, Ep!Fields
    <3>2. Ep!EndPoint(a)[i] = <<m, a.ids[m]>> /\ Ep!EndPoint(b)[i] = <<m, b.ids[m]>>
      BY <1>2, <3>1 DEF Ep!EndPoint
    <3> QED
      BY <2>2, <3>2
  <2> QED
    BY <2>1, <2>2
<1>4. Ep!RlBucket(a) = Ep!RlBucket(b)
          <=> /\ "webhook_token" \in e.params =>
                    a.ids["webhook_id"] = b.ids["webhook_id"] /\ a.ids["webhook_token"] = b.ids["webhook_token"]
              /\ "channel_id" \in e.params => a.ids["channel_id"] = b.ids["channel_id"]
              /\ "guild_id" \in e.params => a.ids["guild_id"] = b.ids["guild_id"]
              /\ Ep!EndPoint(a) = Ep!EndPoint(b)
  <2> DEFINE hook(c) == IF "webhook_token" \in e.params
                        THEN <<Ep!Param(c, "webhook_id"), Ep!Param(c, "webhook_token")>> ELSE << >>
  <2>1. Ep!RlBucket(a) = Ep!RlBucket(b)
            <=> /\ hook(a) = hook(b)
                /\ Ep!Param(a, "channel_id") = Ep!Param(b, "channel_id")
                /\ Ep!Param(a, "guild_id") = Ep!Param(b, "guild_id")
                /\ Ep!EndPoint(a) = Ep!EndPoint(b)
    BY <1>2 DEF Ep!RlBucket
  <2>2. \A f : Ep!Param(a, f) = Ep!Param(b, f) <=> (f \in e.params => a.ids[f] = b.ids[f])
    BY <1>2 DEF Ep!Param
  <2>3. "webhook_token" \in e.params => "webhook_id" \in e.params
    BY <1>1 DEF WellMade
  <2>4. hook(a) = hook(b) <=> ("webhook_token" \in e.params =>
            Ep!Param(a, "webhook_id") = Ep!Param(b, "webhook_id")
            /\ Ep!Param(a, "webhook_token") = Ep!Param(b, "webhook_token"))
    OBVIOUS
  <2> HIDE DEF hook
  <2> QED
    BY <2>1, <2>2, <2>3, <2>4
<1>5. /\ "channel_id" \in majors <=> "channel_id" \in e.params
      /\ "guild_id" \in majors <=> "guild_id" \in e.params
      /\ "webhook_token" \in e.params => "webhook_id" \in majors /\ "webhook_token" \in majors
      /\ "webhook_id" \in majors => "webhook_token" \in e.params
      /\ "webhook_token" \in majors => "webhook_token" \in e.params \/ "webhook_token" \in e.inlined
      /\ \A m \in majors : m \in e.inlined \/ m \in {"channel_id", "guild_id", "webhook_id", "webhook_token"}
      /\ e.inlined \subseteq majors
  BY <1>1 DEF WellMade, Ep!Majors
<1> HIDE DEF majors
<1>6. ASSUME Ep!RlBucket(a) = Ep!RlBucket(b), NEW m \in majors
      PROVE  a.ids[m] = b.ids[m]
  BY <1>3, <1>4, <1>5, <1>6
<1>7. ASSUME \A m \in majors : a.ids[m] = b.ids[m]
      PROVE  Ep!RlBucket(a) = Ep!RlBucket(b)
  BY <1>3, <1>4, <1>5, <1>7
<1> QED
  BY <1>6, <1>7 DEF majors

\* The two calls are of one end point.
CallsInv == \E e \in Ep!EndPointSet : first \in Ep!CallsOf(e) /\ second \in Ep!CallsOf(e)

\* They are.
LEMMA CallsAreOfOne == Spec => []CallsInv
<1>1. Init => CallsInv
  <2>1. Ep!Get(<<"oauth2", "@me">>, {}, {}) \in Ep!EndPointSet
    BY DEF Ep!EndPointSet, Ep!Bot
  <2>2. \E e \in Ep!EndPointSet : e.params = {}
    BY <2>1 DEF Ep!Get, Ep!Ep
  <2>3. (CHOOSE e \in Ep!EndPointSet : e.params = {}) \in Ep!EndPointSet
    BY <2>2
  <2> QED
    BY <2>3 DEF Init, Ep!Init, CallsInv
<1>2. CallsInv /\ [Next]_vars => CallsInv'
  <2> SUFFICES ASSUME CallsInv, [Next]_vars
               PROVE  CallsInv'
    OBVIOUS
  <2>1. PICK e \in Ep!EndPointSet : first \in Ep!CallsOf(e) /\ second \in Ep!CallsOf(e)
    BY DEF CallsInv
  <2>2. [Ep!Next]_epVars
    BY DEF Next, vars, epVars
  <2>3. second.ep = e
    BY <2>1 DEF Ep!CallsOf
  <2>4. first' \in Ep!CallsOf(e) /\ second' \in Ep!CallsOf(e)
    BY <2>1, <2>2, <2>3 DEF Ep!Next, Ep!Request, epVars
  <2> QED
    BY <2>1, <2>4 DEF CallsInv
<1> QED
  BY <1>1, <1>2, PTL DEF Spec

\* Route is given every parameter that the path of any wrapper names.
THEOREM PathsAreResolved == Spec => []PathsResolve
<1>1. CallsInv => PathsResolve
  BY AllWellMade DEF CallsInv, PathsResolve, Ep!PathsResolve, WellMade, Ep!CallsOf
<1> QED
  BY <1>1, CallsAreOfOne, PTL

\* rl_bucket tells two calls of a wrapper apart if and only if the server counts them apart.
THEOREM KeysAreToldApart == Spec => []KeysTellApart
<1>1. CallsInv => KeysTellApart
  BY KeysAgree DEF CallsInv, KeysTellApart, Ep!KeysTellApart, Ep!CallsOf
<1> QED
  BY <1>1, CallsAreOfOne, PTL

-----------------------------------------------------------------------------
(***************************************************************************)
(* PrefixedCalls.                                                          *)
(***************************************************************************)
\* The words of a message are numbered as they come.
Ascending(a) ==
    /\ a \in Seq(Nat)
    /\ \A x, y \in 1 .. Len(a) : x < y => a[x] < a[y]

\* What call_callback keeps of a parameter's value.
Item == [for : Nat, words : Seq(Nat)]

\* Only the last parameter takes all the words that are left or is not given by its place.
Declared(ps) ==
    /\ Len(ps) \in Nat /\ DOMAIN ps = 1 .. Len(ps)
    /\ \A i \in 1 .. Len(ps) :
            /\ ps[i].kind \in Pc!Kinds
            /\ \/ ps[i].variable \/ ps[i].rest \/ ps[i].kind \in {"varpos", "kwonly"}
               => i = Len(ps)

\* The parameters that are given by their places are the first ones, this many.
Placed(ps) ==
    IF \E i \in 1 .. Len(ps) : ps[i].kind \in {"varpos", "kwonly"} THEN Len(ps) - 1 ELSE Len(ps)

\* What is given to the parameters.
Items(n, k) == {n[x] : x \in 1 .. Len(n)} \cup {k[i] : i \in DOMAIN k}

\* The words of v come before those of w.
Precedes(v, w) == \A m \in DOMAIN v.words, l \in DOMAIN w.words : v.words[m] < w.words[l]

\* The first u words are in the values V, each once, in the order of the parameters.
Spread(V, a, u) ==
    /\ \A v \in V : \A m \in DOMAIN v.words :
            /\ \E x \in 1 .. u : v.words[m] = a[x]
            /\ \A l \in DOMAIN v.words : m < l => v.words[m] < v.words[l]
    /\ \A v, w \in V : v.for < w.for => Precedes(v, w)
    /\ \A x \in 1 .. u : \E v \in V : \E m \in DOMAIN v.words : v.words[m] = a[x]

\* And those of the arguments in the order of these.
InTurn(n) == \A x, y \in 1 .. Len(n) : x < y => Precedes(n[x], n[y])

\* The values S take the words after the first u up to the first w.
Fresh(S, a, u, w) ==
    /\ \A v \in S : \A m \in DOMAIN v.words :
            /\ \E x \in u + 1 .. w : v.words[m] = a[x]
            /\ \A l \in DOMAIN v.words : m < l => v.words[m] < v.words[l]
    /\ \A x \in u + 1 .. w : \E v \in S : \E m \in DOMAIN v.words : v.words[m] = a[x]

\* Each value is at its parameter's place, and what has none yet has a name ...
Aligned(n, k, f, p) ==
    /\ \A x \in 1 .. Len(n) : n[x].for = IF x <= f THEN x ELSE f + 1
    /\ \A i \in 1 .. f : Len(n) < i /\ i < p => i \in DOMAIN k
\* ... or one that has a name is given by its place too, which Python refuses.
Twice(n, k, f) == \E i \in DOMAIN k : i <= f /\ i <= Len(n)

\* No greedy parameter has a default, and none takes all the words before they are counted.
Plain == \A i \in DOMAIN params :
    ~(params[i].greedy /\ Pc!Optional(params[i])) /\ ~(params[i].rest /\ params[i].variable)

Begun == phase \in {"parse", "fill", "python", "called"}

\* How far the words are used.
Upto == IF inner THEN index - 1 ELSE index

\* What the parameters before p are given of the words up to u; f of them have a place.
Stock(n, k, a, u, f, p) ==
    /\ n \in Seq(Item)
    /\ \A x \in 1 .. Len(n) : n[x].for < p
    /\ \A i \in DOMAIN k : k[i] \in Item /\ k[i].for = i /\ i < p
    /\ Aligned(n, k, f, p) \/ Twice(n, k, f)
    /\ InTurn(n)
    /\ Spread(Items(n, k), a, u)

\* The next word, the next parameter, and whether the word is for this parameter.
Turn ==
    /\ index \in 0 .. Len(args) /\ param \in 1 .. Len(params) + 1 /\ inner \in BOOLEAN
    /\ inner => phase = "parse" /\ index # 0 /\ arg = <<args[index]>> /\ param <= Len(params)
    /\ phase = "fill" => param <= Len(params)

\* Only parameters are given by their names, and *args no word.
NamesFit(k, ps) ==
    /\ DOMAIN k \subseteq 1 .. Len(ps)
    /\ \A i \in DOMAIN k : ps[i].kind = "varpos" => k[i].words = << >>

PlainInv ==
    /\ Turn
    /\ NamesFit(kwargs, params)
    /\ \E u \in 0 .. Len(args), p \in 1 .. Len(params) + 1 :
            /\ Stock(newArgs, kwargs, args, u, Placed(params), p)
            /\ phase \in {"parse", "fill"} => p = param
            /\ phase = "parse" /\ param <= Len(params) => u = Upto

HandsInv ==
    /\ Declared(params) /\ Ascending(args)
    /\ phase \in {"raw", "wait", "resolve", "call"} =>
            newArgs = << >> /\ kwargs = << >> /\ index = 0 /\ param = 1 /\ inner = FALSE
    /\ phase = "called" => Pc!Fits
    /\ Begun /\ Plain => PlainInv

\* r is what is left of the words after the first u.
Remaining(r, a, u) ==
    r \in Seq(Nat) /\ Len(r) = Len(a) - u /\ \A x \in 1 .. Len(r) : r[x] = a[u + x]

\* One value for each of the t words after those.
OneEach(s, a, u, t, p) ==
    s \in Seq(Item) /\ Len(s) = t /\ \A x \in 1 .. t : s[x] = Pc!Value(p, <<a[u + x]>>)

\* Values for one parameter.
Batch(s, a, u, w, p) ==
    /\ s \in Seq(Item) /\ InTurn(s) /\ \A x \in 1 .. Len(s) : s[x].for = p
    /\ Fresh({s[x] : x \in 1 .. Len(s)}, a, u, w)

-----------------------------------------------------------------------------
\* The numbers of parameters and of words.
LEMMA Counts ==
    ASSUME NEW ps, NEW a, Declared(ps), Ascending(a)
    PROVE  Len(ps) \in Nat /\ Len(a) \in Nat
<1>1. Len(ps) \in Nat
  BY DEF Declared
<1>2. a \in Seq(Nat)
  BY DEF Ascending
<1> QED
  BY <1>1, <1>2

\* The first of them.
LEMMA Leading ==
    ASSUME NEW S, NEW q \in Seq(S), NEW t \in 0 .. Len(q)
    PROVE  SubSeq(q, 1, t) \in Seq(S) /\ Len(SubSeq(q, 1, t)) = t /\ \A j \in 1 .. t : SubSeq(q, 1, t)[j] = q[j]
OBVIOUS

\* The first one alone.
LEMMA FirstAlone ==
    ASSUME NEW S, NEW q \in Seq(S), Len(q) # 0
    PROVE  SubSeq(q, 1, 1) = <<q[1]>>
<1>1. Len(q) \in Nat
  OBVIOUS
<1>2. SubSeq(q, 1, 1) \in Seq(S) /\ Len(SubSeq(q, 1, 1)) = 1 /\ SubSeq(q, 1, 1)[1] = q[1]
  BY <1>1, Leading
<1>3. PICK z : z = SubSeq(q, 1, 1)
  OBVIOUS
<1>4. z \in Seq(S) /\ Len(z) = 1 /\ z[1] = q[1]
  BY <1>2, <1>3
<1>5. z = <<z[1]>>
  BY <1>4
<1> QED
  BY <1>3, <1>4, <1>5

\* More words in the values of the next parameter.
LEMMA SpreadGrows ==
    ASSUME NEW a, Ascending(a), NEW u \in 0 .. Len(a), NEW w \in u .. Len(a),
           NEW V, NEW S, NEW p \in Nat, Spread(V, a, u), Fresh(S, a, u, w),
           \A v \in V : v.for \in Nat /\ v.for < p, \A v \in S : v.for = p
    PROVE  Spread(V \cup S, a, w)
<1>0. /\ Len(a) \in Nat /\ u \in Nat /\ w \in Nat /\ u <= w /\ w <= Len(a)
      /\ \A x, y \in 1 .. Len(a) : x < y => a[x] < a[y]
  BY DEF Ascending
<1>1. ASSUME NEW v \in V \cup S, NEW m \in DOMAIN v.words
      PROVE  /\ \E x \in 1 .. w : v.words[m] = a[x]
             /\ \A l \in DOMAIN v.words : m < l => v.words[m] < v.words[l]
  BY <1>0, <1>1 DEF Spread, Fresh
<1>2. ASSUME NEW v \in V, NEW z \in S
      PROVE  Precedes(v, z)
  <2> SUFFICES ASSUME NEW m \in DOMAIN v.words, NEW l \in DOMAIN z.words
               PROVE  v.words[m] < z.words[l]
    BY DEF Precedes
  <2>1. PICK x \in 1 .. u : v.words[m] = a[x]
    BY DEF Spread
  <2>2. PICK y \in u + 1 .. w : z.words[l] = a[y]
    BY DEF Fresh
  <2>3. x \in 1 .. Len(a) /\ y \in 1 .. Len(a) /\ x < y
    BY <1>0
  <2> QED
    BY <1>0, <2>1, <2>2, <2>3
<1>3. ASSUME NEW v \in V \cup S, NEW z \in V \cup S, v.for < z.for
      PROVE  Precedes(v, z)
  <2>1. v \in V
    BY <1>3
  <2>2. CASE z \in S
    BY <1>2, <2>1, <2>2
  <2>3. CASE z \in V
    BY <1>3, <2>1, <2>3 DEF Spread
  <2> QED
    BY <2>2, <2>3
<1>4. ASSUME NEW x \in 1 .. w
      PROVE  \E v \in V \cup S : \E m \in DOMAIN v.words : v.words[m] = a[x]
  <2>1. CASE x <= u
    <3>1. x \in 1 .. u
      BY <1>0, <2>1
    <3> QED
      BY <3>1 DEF Spread
  <2>2. CASE ~(x <= u)
    <3>1. x \in u + 1 .. w
      BY <1>0, <2>2
    <3> QED
      BY <3>1 DEF Fresh
  <2> QED
    BY <2>1, <2>2
<1> QED
  BY <1>1, <1>3, <1>4 DEF Spread

\* Items given by their place.
LEMMA ItemsAppended ==
    ASSUME NEW n \in Seq(Item), NEW s \in Seq(Item), NEW k
    PROVE  /\ n \o s \in Seq(Item) /\ Len(n \o s) = Len(n) + Len(s)
           /\ Len(n) \in Nat /\ Len(s) \in Nat
           /\ \A x \in 1 .. Len(n) : (n \o s)[x] = n[x] /\ n[x] \in Item
           /\ \A x \in 1 .. Len(s) : (n \o s)[Len(n) + x] = s[x] /\ s[x] \in Item
           /\ \A x \in 1 .. Len(n \o s) :
                    x \in 1 .. Len(n) \/ \E y \in 1 .. Len(s) : x = Len(n) + y
           /\ Items(n \o s, k) = Items(n, k) \cup {s[x] : x \in 1 .. Len(s)}
<1>1. /\ n \o s \in Seq(Item) /\ Len(n \o s) = Len(n) + Len(s)
      /\ Len(n) \in Nat /\ Len(s) \in Nat
      /\ \A x \in 1 .. Len(n) : (n \o s)[x] = n[x] /\ n[x] \in Item
      /\ \A x \in 1 .. Len(s) : (n \o s)[Len(n) + x] = s[x] /\ s[x] \in Item
  OBVIOUS
<1>2. ASSUME NEW x \in 1 .. Len(n \o s)
      PROVE  x \in 1 .. Len(n) \/ \E y \in 1 .. Len(s) : x = Len(n) + y
  <2>1. CASE ~(x <= Len(n))
    <3>1. x - Len(n) \in 1 .. Len(s) /\ x = Len(n) + (x - Len(n))
      BY <1>1, <2>1
    <3> QED
      BY <3>1
  <2> QED
    BY <1>1, <2>1
<1>3. \A x \in 1 .. Len(n) : x \in 1 .. Len(n \o s)
  BY <1>1
<1>4. \A x \in 1 .. Len(s) : Len(n) + x \in 1 .. Len(n \o s)
  BY <1>1
<1>5. ASSUME NEW v \in {(n \o s)[x] : x \in 1 .. Len(n \o s)}
      PROVE  v \in {n[x] : x \in 1 .. Len(n)} \cup {s[x] : x \in 1 .. Len(s)}
  <2>1. PICK x \in 1 .. Len(n \o s) : v = (n \o s)[x]
    OBVIOUS
  <2> QED
    BY <1>1, <1>2, <2>1
<1>6. {n[x] : x \in 1 .. Len(n)} \subseteq {(n \o s)[x] : x \in 1 .. Len(n \o s)}
  BY <1>1, <1>3
<1>7. {s[x] : x \in 1 .. Len(s)} \subseteq {(n \o s)[x] : x \in 1 .. Len(n \o s)}
  BY <1>1, <1>4
<1> QED
  BY <1>1, <1>2, <1>5, <1>6, <1>7 DEF Items

\* They stay in turn.
LEMMA TurnsKept ==
    ASSUME NEW n \in Seq(Item), NEW s \in Seq(Item), InTurn(n), InTurn(s),
           \A x \in 1 .. Len(n), y \in 1 .. Len(s) : Precedes(n[x], s[y])
    PROVE  InTurn(n \o s)
<1> SUFFICES ASSUME NEW x \in 1 .. Len(n \o s), NEW y \in 1 .. Len(n \o s), x < y
             PROVE  Precedes((n \o s)[x], (n \o s)[y])
  BY DEF InTurn
<1>1. PICK k : k = << >>
  OBVIOUS
<1>2. /\ Len(n) \in Nat /\ Len(s) \in Nat
      /\ \A z \in 1 .. Len(n) : (n \o s)[z] = n[z]
      /\ \A z \in 1 .. Len(s) : (n \o s)[Len(n) + z] = s[z]
      /\ x \in 1 .. Len(n) \/ \E z \in 1 .. Len(s) : x = Len(n) + z
      /\ y \in 1 .. Len(n) \/ \E z \in 1 .. Len(s) : y = Len(n) + z
  BY ItemsAppended
<1>3. CASE x \in 1 .. Len(n) /\ y \in 1 .. Len(n)
  BY <1>2, <1>3 DEF InTurn
<1>4. CASE x \in 1 .. Len(n) /\ \E z \in 1 .. Len(s) : y = Len(n) + z
  BY <1>2, <1>4
<1>5. CASE (\E z \in 1 .. Len(s) : x = Len(n) + z) /\ y \in 1 .. Len(n)
  BY <1>2, <1>5
<1>6. ASSUME NEW i \in 1 .. Len(s), NEW j \in 1 .. Len(s), x = Len(n) + i, y = Len(n) + j
      PROVE  Precedes((n \o s)[x], (n \o s)[y])
  <2>1. i < j
    BY <1>2, <1>6
  <2> QED
    BY <1>2, <1>6, <2>1 DEF InTurn
<1> QED
  BY <1>2, <1>3, <1>4, <1>5, <1>6

\* A value with the next words.
LEMMA FreshWords ==
    ASSUME NEW a, Ascending(a), NEW u \in 0 .. Len(a), NEW t \in Nat, NEW w \in 0 .. Len(a), w = u + t, NEW p \in Nat,
           NEW text \in Seq(Nat), Len(text) = t, \A x \in 1 .. t : text[x] = a[u + x]
    PROVE  Pc!Value(p, text) \in Item /\ Fresh({Pc!Value(p, text)}, a, u, w)
<1> DEFINE v == Pc!Value(p, text)
<1>0. /\ Len(a) \in Nat /\ u \in Nat /\ DOMAIN text = 1 .. t
      /\ \A x, y \in 1 .. Len(a) : x < y => a[x] < a[y]
  BY DEF Ascending
<1>1. v \in Item /\ v.words = text
  BY DEF Pc!Value, Item
<1>2. ASSUME NEW m \in 1 .. t
      PROVE  /\ \E x \in u + 1 .. u + t : text[m] = a[x]
             /\ \A l \in 1 .. t : m < l => text[m] < text[l]
  <2>1. u + m \in u + 1 .. u + t /\ u + m \in 1 .. Len(a)
    BY <1>0
  <2>2. ASSUME NEW l \in 1 .. t, m < l
        PROVE  text[m] < text[l]
    <3>1. u + l \in 1 .. Len(a) /\ u + m < u + l
      BY <1>0, <2>2
    <3> QED
      BY <1>0, <2>1, <3>1
  <2> QED
    BY <2>1, <2>2
<1>3. ASSUME NEW x \in u + 1 .. u + t
      PROVE  \E m \in 1 .. t : text[m] = a[x]
  <2>1. x - u \in 1 .. t /\ u + (x - u) = x
    BY <1>0
  <2> QED
    BY <2>1
<1> HIDE DEF v
<1>4. Fresh({v}, a, u, u + t)
  <2>1. DOMAIN v.words = 1 .. t
    BY <1>0, <1>1
  <2>2. ASSUME NEW z \in {v}, NEW m \in DOMAIN z.words
        PROVE  /\ \E x \in u + 1 .. u + t : z.words[m] = a[x]
               /\ \A l \in DOMAIN z.words : m < l => z.words[m] < z.words[l]
    <3>1. z = v /\ z.words = text /\ DOMAIN z.words = 1 .. t
      BY <1>1, <2>1
    <3> QED
      BY <1>2, <3>1
  <2>3. ASSUME NEW x \in u + 1 .. u + t
        PROVE  \E z \in {v} : \E m \in DOMAIN z.words : z.words[m] = a[x]
    BY <1>1, <1>3, <2>1
  <2> QED
    BY <2>2, <2>3 DEF Fresh
<1> QED
  BY <1>1, <1>4 DEF v

\* One value for each of the next words.
LEMMA FreshEach ==
    ASSUME NEW a, Ascending(a), NEW u \in 0 .. Len(a), NEW t \in Nat, NEW w \in 0 .. Len(a), w = u + t, NEW p \in Nat,
           NEW s, OneEach(s, a, u, t, p)
    PROVE  Batch(s, a, u, w, p)
<1>a. s \in Seq(Item) /\ Len(s) = t /\ \A x \in 1 .. t : s[x] = Pc!Value(p, <<a[u + x]>>)
  BY DEF OneEach
<1>0. /\ Len(a) \in Nat /\ u \in Nat
      /\ \A x, y \in 1 .. Len(a) : x < y => a[x] < a[y]
      /\ \A x \in 1 .. Len(a) : a[x] \in Nat
  BY DEF Ascending
<1>1. \A x \in 1 .. t : u + x \in u + 1 .. u + t /\ u + x \in 1 .. Len(a)
  BY <1>0
<1>2. \A x \in 1 .. t :
            s[x].for = p /\ DOMAIN s[x].words = 1 .. 1 /\ s[x].words[1] = a[u + x]
  BY <1>a, <1>0, <1>1 DEF Pc!Value
<1>4. InTurn(s)
  <2> SUFFICES ASSUME NEW x \in 1 .. t, NEW y \in 1 .. t, x < y
               PROVE  Precedes(s[x], s[y])
    BY <1>a DEF InTurn
  <2>1. u + x < u + y
    BY <1>0
  <2>2. a[u + x] < a[u + y]
    BY <1>0, <1>1, <2>1
  <2> QED
    BY <1>2, <2>2 DEF Precedes
<1>5. ASSUME NEW x \in u + 1 .. u + t
      PROVE  \E m \in 1 .. t : s[m].words[1] = a[x]
  <2>1. x - u \in 1 .. t /\ u + (x - u) = x
    BY <1>0
  <2> QED
    BY <1>2, <2>1
<1>6. Fresh({s[x] : x \in 1 .. t}, a, u, u + t)
  <2>1. ASSUME NEW v \in {s[x] : x \in 1 .. t}, NEW m \in DOMAIN v.words
        PROVE  /\ \E y \in u + 1 .. u + t : v.words[m] = a[y]
               /\ \A l \in DOMAIN v.words : m < l => v.words[m] < v.words[l]
    <3>1. PICK x \in 1 .. t : v = s[x]
      BY <2>1
    <3> QED
      BY <1>1, <1>2, <2>1, <3>1
  <2>2. ASSUME NEW x \in u + 1 .. u + t
        PROVE  \E v \in {s[y] : y \in 1 .. t} : \E m \in DOMAIN v.words : v.words[m] = a[x]
    <3>1. PICK y \in 1 .. t : s[y].words[1] = a[x]
      BY <1>5
    <3>2. s[y] \in {s[z] : z \in 1 .. t} /\ 1 \in DOMAIN s[y].words
      BY <1>2
    <3> QED
      BY <3>1, <3>2
  <2> QED
    BY <2>1, <2>2 DEF Fresh
<1> QED
  BY <1>a, <1>2, <1>4, <1>6 DEF Batch

\* The same of the words r that are left.
LEMMA EachOfRest ==
    ASSUME NEW a, Ascending(a), NEW u \in 0 .. Len(a), NEW p \in Nat, NEW r, Remaining(r, a, u),
           NEW s, s = [x \in DOMAIN r |-> Pc!Value(p, <<r[x]>>)]
    PROVE  Len(s) = Len(r) /\ Batch(s, a, u, Len(a), p)
<1>0. r \in Seq(Nat) /\ Len(r) = Len(a) - u /\ \A x \in 1 .. Len(r) : r[x] = a[u + x]
  BY DEF Remaining
<1>1. Len(r) \in Nat /\ \A x \in 1 .. Len(r) : r[x] \in Nat
  BY <1>0, Entry
<1>2. PICK t \in Nat : t = Len(r)
  BY <1>1
<1>3. PICK w \in 0 .. Len(a) : w = Len(a) /\ w = u + t
  BY <1>0, <1>2 DEF Ascending
<1>4. DOMAIN r = 1 .. t
  BY <1>0, <1>2
<1>5. \A x \in 1 .. t : Pc!Value(p, <<r[x]>>) \in Item
  BY <1>1, <1>2 DEF Pc!Value, Item
<1>6. s \in Seq(Item) /\ Len(s) = t /\ \A x \in 1 .. t : s[x] = Pc!Value(p, <<r[x]>>)
  <2>1. PICK val : val = [x \in 1 .. t |-> Pc!Value(p, <<r[x]>>)]
    OBVIOUS
  <2>2. val \in [1 .. t -> Item]
    BY <1>5, <2>1
  <2>3. val \in Seq(Item) /\ Len(val) = t
    BY <2>2
  <2>4. val = s
    BY <1>4, <2>1
  <2> QED
    BY <2>1, <2>3, <2>4
<1>7. OneEach(s, a, u, t, p)
  BY <1>0, <1>2, <1>6 DEF OneEach
<1>8. Batch(s, a, u, w, p)
  BY <1>3, <1>7, FreshEach
<1> QED
  BY <1>2, <1>3, <1>6, <1>8

\* A value with the first t of them, up to w.
FirstWords(v, w, r, u, t, p) == w = u + t /\ v = Pc!Value(p, SubSeq(r, 1, t))

\* One value with the first words of those.
LEMMA FirstOfRest ==
    ASSUME NEW a, Ascending(a), NEW u \in 0 .. Len(a), NEW p \in Nat, NEW r, Remaining(r, a, u),
           NEW t \in 0 .. Len(r), NEW w, NEW v, FirstWords(v, w, r, u, t, p)
    PROVE  v \in Item /\ v.for = p /\ w \in u .. Len(a) /\ Fresh({v}, a, u, w)
<1>0. r \in Seq(Nat) /\ Len(r) = Len(a) - u /\ \A x \in 1 .. Len(r) : r[x] = a[u + x]
  BY DEF Remaining
<1>a. w = u + t /\ v = Pc!Value(p, SubSeq(r, 1, t))
  BY DEF FirstWords
<1>1. PICK text : text = SubSeq(r, 1, t)
  OBVIOUS
<1>2. text \in Seq(Nat) /\ Len(text) = t /\ \A x \in 1 .. t : text[x] = r[x]
  BY <1>0, <1>1, Leading
<1>3. t \in Nat /\ w \in 0 .. Len(a) /\ w \in u .. Len(a)
  BY <1>a, <1>0, Entry DEF Ascending
<1>4. \A x \in 1 .. t : text[x] = a[u + x]
  <2>1. \A x \in 1 .. t : x \in 1 .. Len(r)
    BY <1>0, Entry
  <2> QED
    BY <1>0, <1>2, <2>1
<1>5. Pc!Value(p, text) \in Item /\ Fresh({Pc!Value(p, text)}, a, u, w)
  BY ZenonT(60), <1>a, <1>2, <1>3, <1>4, FreshWords
<1>6. v = Pc!Value(p, text) /\ Pc!Value(p, text).for = p
  BY <1>a, <1>1 DEF Pc!Value
<1> QED
  BY <1>3, <1>5, <1>6

\* And one without a word.
LEMMA NoWords ==
    ASSUME NEW a, NEW u \in Nat, NEW p \in Nat
    PROVE  /\ Pc!Value(p, << >>) \in Item /\ Pc!Value(p, << >>).for = p /\ Pc!Value(p, << >>).words = << >>
           /\ Fresh({Pc!Value(p, << >>)}, a, u, u)
BY DEF Pc!Value, Item, Fresh

\* What is given so far is for parameters before p.
LEMMA ItemsBefore ==
    ASSUME NEW a, NEW u, NEW f, NEW p \in Nat, NEW n, NEW k, Stock(n, k, a, u, f, p)
    PROVE  /\ \A x \in 1 .. Len(n) : n[x] \in Item /\ n[x].for \in Nat /\ n[x].for < p
           /\ \A v \in Items(n, k) : v.for \in Nat /\ v.for < p
<1>1. \A x \in 1 .. Len(n) : n[x] \in Item /\ n[x].for < p
  BY DEF Stock
<1>2. \A i \in DOMAIN k : k[i] \in Item /\ k[i].for = i /\ i < p
  BY DEF Stock
<1>3. \A v \in Item : v.for \in Nat
  BY DEF Item
<1> QED
  BY <1>1, <1>2, <1>3 DEF Items

\* A parameter is given one value at the next place, or the last one several.
LEMMA GivenByPlace ==
    ASSUME NEW a, Ascending(a), NEW u \in 0 .. Len(a), NEW w \in u .. Len(a), NEW f \in Nat,
           NEW p \in 1 .. f + 1, NEW n, NEW k, NEW s, Stock(n, k, a, u, f, p),
           Batch(s, a, u, w, p), Len(s) # 0, p <= f => Len(s) = 1
    PROVE  Stock(n \o s, k, a, w, f, p + 1)
<1> DEFINE V == Items(n, k)
           S == {s[x] : x \in 1 .. Len(s)}
<1>a. /\ s \in Seq(Item) /\ InTurn(s) /\ \A x \in 1 .. Len(s) : s[x].for = p
      /\ Fresh(S, a, u, w)
  BY DEF Batch
<1>0. n \in Seq(Item) /\ u \in Nat /\ w \in Nat /\ p \in Nat /\ Len(a) \in Nat
  BY DEF Stock, Ascending
<1>1. /\ n \o s \in Seq(Item) /\ Len(n \o s) = Len(n) + Len(s)
      /\ Len(n) \in Nat /\ Len(s) \in Nat
      /\ \A x \in 1 .. Len(n) : (n \o s)[x] = n[x] /\ n[x] \in Item
      /\ \A x \in 1 .. Len(s) : (n \o s)[Len(n) + x] = s[x] /\ s[x] \in Item
      /\ \A x \in 1 .. Len(n \o s) : x \in 1 .. Len(n) \/ \E y \in 1 .. Len(s) : x = Len(n) + y
      /\ Items(n \o s, k) = V \cup S
  BY <1>a, <1>0, ItemsAppended
<1>2. /\ \A v \in V : v.for \in Nat /\ v.for < p
      /\ \A x \in 1 .. Len(n) : n[x].for \in Nat /\ n[x].for < p
  BY <1>0, ItemsBefore
<1>3. \A v \in S : v.for = p
  BY <1>a
<1>4. Spread(V \cup S, a, w)
  <2>1. Spread(V, a, u) /\ Fresh(S, a, u, w)
    BY <1>a DEF Stock
  <2> HIDE DEF V, S
  <2> QED
    BY <1>0, <1>2, <1>3, <2>1, SpreadGrows
<1>5. InTurn(n \o s)
  <2>1. ASSUME NEW x \in 1 .. Len(n), NEW y \in 1 .. Len(s)
        PROVE  Precedes(n[x], s[y])
    <3>1. n[x] \in V /\ s[y] \in S
      BY DEF Items
    <3>2. n[x].for < s[y].for
      BY <1>2, <1>3, <3>1
    <3> HIDE DEF V, S
    <3> QED
      BY <1>4, <3>1, <3>2 DEF Spread
  <2>2. InTurn(n)
    BY DEF Stock
  <2> QED
    BY <1>a, <1>0, <2>1, <2>2, TurnsKept
<1>6. \A x \in 1 .. Len(n \o s) : (n \o s)[x].for < p + 1
  <2>1. \A x \in 1 .. Len(n) : (n \o s)[x].for \in Nat /\ (n \o s)[x].for < p
    BY <1>1, <1>2
  <2>2. \A x \in 1 .. Len(s) : (n \o s)[Len(n) + x].for = p
    BY <1>a, <1>1
  <2>3. ASSUME NEW x \in 1 .. Len(n \o s)
        PROVE  (n \o s)[x].for < p + 1
    <3>1. CASE x \in 1 .. Len(n)
      BY <1>0, <2>1, <3>1
    <3>2. CASE \E y \in 1 .. Len(s) : x = Len(n) + y
      BY <1>0, <2>2, <3>2
    <3> QED
      BY <1>1, <3>1, <3>2
  <2> QED
    BY <2>3
<1>7. \A i \in DOMAIN k : k[i] \in Item /\ k[i].for = i /\ i < p + 1
  BY <1>0 DEF Stock, Item
<1>8. Aligned(n \o s, k, f, p + 1) \/ Twice(n \o s, k, f)
  <2>1. CASE Twice(n, k, f)
    BY <1>1, <2>1, <1>7 DEF Twice, Item
  <2>2. CASE Aligned(n, k, f, p) /\ Len(n) + 1 <= f /\ Len(n) + 1 < p
    <3>1. Len(n) + 1 \in DOMAIN k
      BY <1>1, <2>2 DEF Aligned
    <3> QED
      BY <1>1, <2>2, <3>1 DEF Twice
  <2>3. CASE Aligned(n, k, f, p) /\ ~(Len(n) + 1 <= f /\ Len(n) + 1 < p)
    <3>1. Len(n) < p \/ (f < Len(n) /\ f + 1 = p)
      <4>1. CASE Len(n) # 0
        <5>1. n[Len(n)].for < p
          BY <1>1, <4>1 DEF Stock
        <5>2. n[Len(n)].for = IF Len(n) <= f THEN Len(n) ELSE f + 1
          BY <1>1, <2>3, <4>1 DEF Aligned
        <5> QED
          BY <1>0, <1>1, <5>1, <5>2
      <4>2. CASE Len(n) = 0
        BY <1>0, <4>2
      <4> QED
        BY <4>1, <4>2
    <3>2. CASE p <= f
      <4>1. Len(n) + 1 = p /\ Len(s) = 1
        BY <1>0, <1>1, <2>3, <3>1, <3>2
      <4>2. Aligned(n \o s, k, f, p + 1)
        BY <1>a, <1>0, <1>1, <2>3, <3>2, <4>1 DEF Aligned
      <4> QED
        BY <4>2
    <3>3. CASE p = f + 1
      <4>1. Len(n) >= f
        BY <1>0, <1>1, <2>3, <3>1, <3>3
      <4>2. \A x \in 1 .. Len(n) : (n \o s)[x].for = IF x <= f THEN x ELSE f + 1
        BY <1>1, <2>3 DEF Aligned
      <4>3. \A x \in 1 .. Len(s) : (n \o s)[Len(n) + x].for = f + 1 /\ ~(Len(n) + x <= f)
        BY <1>a, <1>0, <1>1, <3>3, <4>1
      <4>4. \A x \in 1 .. Len(n \o s) : (n \o s)[x].for = IF x <= f THEN x ELSE f + 1
        BY <1>1, <4>2, <4>3
      <4>5. \A i \in 1 .. f : ~(Len(n \o s) < i)
        BY <1>0, <1>1, <4>1
      <4> QED
        BY <4>4, <4>5 DEF Aligned
    <3> QED
      BY <1>0, <3>2, <3>3
  <2> QED
    BY <2>1, <2>2, <2>3 DEF Stock
<1> QED
  BY <1>1, <1>4, <1>5, <1>6, <1>7, <1>8 DEF Stock

\* k2 also has v, for p.
Extended(k2, k, p, v) ==
    DOMAIN k2 = DOMAIN k \cup {p} /\ \A i \in DOMAIN k2 : k2[i] = IF i = p THEN v ELSE k[i]

\* A parameter is given a value by its name.
LEMMA GivenByName ==
    ASSUME NEW a, Ascending(a), NEW u \in 0 .. Len(a), NEW w \in u .. Len(a), NEW f \in Nat,
           NEW p \in Nat, NEW n, NEW k, NEW v \in Item, Stock(n, k, a, u, f, p),
           v.for = p, Fresh({v}, a, u, w),
           NEW k2, Extended(k2, k, p, v)
    PROVE  Stock(n, k2, a, w, f, p + 1)
<1> USE DEF Extended
<1> DEFINE V == Items(n, k)
<1>0. p \notin DOMAIN k
  BY DEF Stock
<1>1. Items(n, k2) = V \cup {v}
  BY <1>0 DEF Items
<1>2. /\ \A z \in V : z.for \in Nat /\ z.for < p
      /\ \A x \in 1 .. Len(n) : n[x].for \in Nat /\ n[x].for < p
  BY ItemsBefore
<1>3. Spread(V \cup {v}, a, w)
  <2>1. Spread(V, a, u)
    BY DEF Stock
  <2> HIDE DEF V
  <2> QED
    BY <1>2, <2>1, SpreadGrows
<1>4. Aligned(n, k2, f, p + 1) \/ Twice(n, k2, f)
  BY DEF Stock, Aligned, Twice
<1>5. /\ n \in Seq(Item) /\ InTurn(n)
      /\ \A x \in 1 .. Len(n) : n[x].for < p + 1
  BY <1>2 DEF Stock
<1>6. \A i \in DOMAIN k2 : k2[i] \in Item /\ k2[i].for = i /\ i < p + 1
  <2>1. \A i \in DOMAIN k : i \in Nat
    BY DEF Stock, Item
  <2> QED
    BY <2>1 DEF Stock
<1> QED
  BY <1>1, <1>3, <1>4, <1>5, <1>6 DEF Stock

\* One value at the next place.
LEMMA GivenOne ==
    ASSUME NEW a, Ascending(a), NEW u \in 0 .. Len(a), NEW w \in u .. Len(a), NEW f \in Nat,
           NEW p \in 1 .. f + 1, NEW n, NEW k, NEW v \in Item, Stock(n, k, a, u, f, p),
           v.for = p, Fresh({v}, a, u, w)
    PROVE  Stock(Append(n, v), k, a, w, f, p + 1)
<1> DEFINE s == <<v>>
<1>1. /\ s \in Seq(Item) /\ Len(s) = 1 /\ s[1] = v
      /\ n \in Seq(Item)
  BY DEF Stock
<1>2. Append(n, v) = n \o s
  BY <1>1
<1> HIDE DEF s
<1>3. \A x \in 1 .. Len(s) : s[x] = v
  BY <1>1
<1>4. {s[x] : x \in 1 .. Len(s)} = {v} /\ InTurn(s)
  BY <1>1, <1>3 DEF InTurn
<1>5. Batch(s, a, u, w, p)
  BY <1>1, <1>3, <1>4 DEF Batch
<1> QED
  BY <1>1, <1>2, <1>5, GivenByPlace

\* Which parameters have a place.
LEMMA PlacesAre ==
    ASSUME NEW ps, Declared(ps)
    PROVE  /\ Placed(ps) \in Nat /\ Placed(ps) <= Len(ps) /\ Len(ps) <= Placed(ps) + 1 /\ Len(ps) \in Nat
           /\ \A i \in 1 .. Len(ps) : ps[i].kind \in {"posonly", "normal"} <=> i <= Placed(ps)
<1>1. /\ Len(ps) \in Nat
      /\ \A i \in 1 .. Len(ps) :
            /\ ps[i].kind \in {"posonly", "normal", "varpos", "kwonly"}
            /\ ps[i].kind \in {"varpos", "kwonly"} => i = Len(ps)
  BY DEF Declared, Pc!Kinds
<1>2. CASE \E i \in 1 .. Len(ps) : ps[i].kind \in {"varpos", "kwonly"}
  BY <1>1, <1>2 DEF Placed
<1>3. CASE ~\E i \in 1 .. Len(ps) : ps[i].kind \in {"varpos", "kwonly"}
  BY <1>1, <1>3 DEF Placed
<1> QED
  BY <1>2, <1>3

\* When Python calls the function, the words are given to its parameters in their order.
LEMMA WordsFollow == HandsInv => WordsInOrder
<1> SUFFICES ASSUME HandsInv, phase = "called", Plain
             PROVE  /\ \A i \in DOMAIN params : \A k \in DOMAIN Pc!Received(i) : Pc!Received(i)[k].for = i
                    /\ \A i, j \in DOMAIN params : \A k \in DOMAIN Pc!Received(i), l \in DOMAIN Pc!Received(j) :
                        \A x \in DOMAIN Pc!Received(i)[k].words, y \in DOMAIN Pc!Received(j)[l].words :
                            i < j \/ (i = j /\ (k < l \/ (k = l /\ x < y)))
                                => Pc!Received(i)[k].words[x] < Pc!Received(j)[l].words[y]
                    /\ \E n \in 0 .. Len(args) : Pc!Given = {args[x] : x \in 1 .. n}
  BY DEF WordsInOrder, Pc!WordsInOrder, Pc!Orderly, Plain
<1> DEFINE R(i) == Pc!Received(i)
           f == Placed(params)
           V == Items(newArgs, kwargs)
<1>1. Declared(params) /\ Ascending(args) /\ Pc!Fits /\ PlainInv
  BY DEF HandsInv, Begun
<1>2. PICK u \in 0 .. Len(args), p \in 1 .. Len(params) + 1 : Stock(newArgs, kwargs, args, u, f, p)
  BY <1>1 DEF PlainInv
<1>3. /\ DOMAIN params = 1 .. Len(params) /\ Len(params) \in Nat
      /\ f \in Nat /\ f <= Len(params) /\ Len(params) <= f + 1
      /\ \A i \in 1 .. Len(params) : params[i].kind \in {"posonly", "normal"} <=> i <= f
      /\ \A i \in 1 .. Len(params) : params[i].kind = "varpos" => ~(i <= f)
      /\ DOMAIN kwargs \subseteq 1 .. Len(params)
      /\ \A i \in DOMAIN kwargs : params[i].kind = "varpos" => kwargs[i].words = << >>
  BY <1>1, PlacesAre DEF Declared, PlainInv, NamesFit
<1> HIDE DEF f
<1>4. Pc!InPlace = 1 .. f /\ Pc!Cardinality(Pc!InPlace) = f
  <2>1. Pc!InPlace = 1 .. f
    BY <1>3 DEF Pc!InPlace
  <2>2. Cardinality(1 .. f) = f
    BY <1>3, FS_Interval
  <2>3. Pc!Cardinality(1 .. f) = Cardinality(1 .. f)
    BY DEF Pc!Cardinality, Cardinality
  <2> QED
    BY <2>1, <2>2, <2>3
<1>5. /\ newArgs \in Seq(Item) /\ Len(newArgs) \in Nat
      /\ \A i \in DOMAIN kwargs : kwargs[i].for = i
      /\ InTurn(newArgs) /\ Spread(V, args, u)
  BY <1>2 DEF Stock
<1>6. Aligned(newArgs, kwargs, f, p)
  <2>1. ~Twice(newArgs, kwargs, f)
    BY <1>1, <1>3, <1>4 DEF Twice, Pc!Fits, Pc!ByPosition
  <2> QED
    BY <1>2, <2>1 DEF Stock
<1>7. \A x \in 1 .. Len(newArgs) : newArgs[x] \in V /\ newArgs[x].for = IF x <= f THEN x ELSE f + 1
  BY <1>6 DEF Aligned, Items
<1>8. \A i \in DOMAIN kwargs : kwargs[i] \in V
  BY DEF Items
<1> HIDE DEF V
<1>9. ASSUME NEW i \in DOMAIN params, params[i].kind = "varpos"
      PROVE  /\ i = f + 1 /\ f < Len(newArgs) => Len(R(i)) = Len(newArgs) - f
             /\ DOMAIN R(i) \subseteq Nat
             /\ \A k \in DOMAIN R(i) : f + k \in 1 .. Len(newArgs) /\ k # 0 /\ R(i)[k] = newArgs[f + k]
             /\ \A x \in f + 1 .. Len(newArgs) : x - f \in DOMAIN R(i) /\ R(i)[x - f] = newArgs[x]
  <2>1. i = f + 1
    BY <1>3, <1>9
  <2>2. R(i) = SubSeq(newArgs, f + 1, Len(newArgs))
    BY <1>4, <1>9 DEF Pc!Received, Pc!Surplus
  <2> QED
    BY <1>3, <1>5, <2>1, <2>2
<1>10. ASSUME NEW i \in DOMAIN params, params[i].kind # "varpos", i <= f, i <= Len(newArgs)
       PROVE  DOMAIN R(i) = {1} /\ R(i)[1] = newArgs[i] /\ i \in 1 .. Len(newArgs)
  <2>1. Pc!ByPosition(i) /\ i \in 1 .. Len(newArgs)
    BY <1>3, <1>4, <1>5, <1>10 DEF Pc!ByPosition
  <2> QED
    BY <1>10, <2>1 DEF Pc!Received
<1>11. ASSUME NEW i \in DOMAIN params, params[i].kind # "varpos", ~(i <= f /\ i <= Len(newArgs))
       PROVE  /\ i \in DOMAIN kwargs => DOMAIN R(i) = {1} /\ R(i)[1] = kwargs[i]
              /\ i \notin DOMAIN kwargs => DOMAIN R(i) = {}
  <2>1. ~Pc!ByPosition(i)
    BY <1>3, <1>4, <1>5, <1>11 DEF Pc!ByPosition
  <2> QED
    BY <1>11, <2>1 DEF Pc!Received
<1> HIDE DEF R
<1>12. ASSUME NEW i \in DOMAIN params, NEW k \in DOMAIN R(i)
       PROVE  /\ R(i)[k] \in V /\ R(i)[k].for = i /\ k \in Nat
              /\ \A l \in DOMAIN R(i) : k < l => Precedes(R(i)[k], R(i)[l])
  <2>1. CASE params[i].kind = "varpos"
    <3>1. f + k \in 1 .. Len(newArgs) /\ k # 0 /\ R(i)[k] = newArgs[f + k] /\ k \in Nat /\ i = f + 1
      BY <1>3, <1>9, <1>12, <2>1
    <3>2. ASSUME NEW l \in DOMAIN R(i), k < l
          PROVE  Precedes(R(i)[k], R(i)[l])
      <4>1. f + l \in 1 .. Len(newArgs) /\ R(i)[l] = newArgs[f + l] /\ l \in Nat
        BY <1>9, <2>1
      <4>2. f + k < f + l
        BY <1>3, <3>1, <3>2, <4>1
      <4> QED
        BY <1>5, <3>1, <4>1, <4>2 DEF InTurn
    <3> QED
      BY <1>3, <1>7, <3>1, <3>2
  <2>2. CASE params[i].kind # "varpos" /\ i <= f /\ i <= Len(newArgs)
    BY <1>7, <1>10, <1>12, <2>2
  <2>3. CASE params[i].kind # "varpos" /\ ~(i <= f /\ i <= Len(newArgs))
    BY <1>5, <1>8, <1>11, <1>12, <2>3
  <2> QED
    BY <2>1, <2>2, <2>3
<1>13. ASSUME NEW v \in V, NEW m \in DOMAIN v.words
       PROVE  \E i \in DOMAIN params : \E k \in DOMAIN R(i) : R(i)[k] = v
  <2>1. ASSUME NEW x \in 1 .. Len(newArgs), v = newArgs[x]
        PROVE  \E i \in DOMAIN params : \E k \in DOMAIN R(i) : R(i)[k] = v
    <3>1. CASE x <= f
      BY <1>3, <1>10, <2>1, <3>1
    <3>2. CASE ~(x <= f)
      <4>1. PICK i \in DOMAIN params : params[i].kind = "varpos"
        <5>1. Pc!Surplus # << >>
          <6>1. Pc!Surplus = SubSeq(newArgs, f + 1, Len(newArgs))
            BY <1>4 DEF Pc!Surplus
          <6>2. Len(Pc!Surplus) = Len(newArgs) - f
            BY <1>3, <1>5, <2>1, <3>2, <6>1
          <6>3. Len(newArgs) - f # 0
            BY <1>3, <1>5, <2>1, <3>2
          <6> QED
            BY <6>2, <6>3
        <5> QED
          BY <1>1, <5>1 DEF Pc!Fits
      <4>2. x \in f + 1 .. Len(newArgs)
        BY <1>3, <1>5, <2>1, <3>2
      <4> QED
        BY <1>9, <2>1, <4>1, <4>2
    <3> QED
      BY <3>1, <3>2
  <2>2. ASSUME NEW i \in DOMAIN kwargs, v = kwargs[i]
        PROVE  \E j \in DOMAIN params : \E k \in DOMAIN R(j) : R(j)[k] = v
    <3>1. params[i].kind # "varpos" /\ i \in DOMAIN params
      BY <1>3, <1>13, <2>2
    <3>2. ~(i <= f /\ i <= Len(newArgs))
      BY <1>1, <1>3, <1>4, <3>1 DEF Pc!Fits, Pc!ByPosition
    <3> QED
      BY <1>11, <2>2, <3>1, <3>2
  <2> QED
    BY <1>13, <2>1, <2>2 DEF V, Items
<1>14. Pc!Given = {args[x] : x \in 1 .. u}
  <2>1. Pc!Given = UNION {UNION {{R(i)[k].words[m] : m \in DOMAIN R(i)[k].words} :
                                   k \in DOMAIN R(i)} : i \in DOMAIN params}
    BY DEF Pc!Given, R
  <2>2. ASSUME NEW z \in Pc!Given
        PROVE  z \in {args[x] : x \in 1 .. u}
    <3>1. PICK i \in DOMAIN params : \E k \in DOMAIN R(i) : \E m \in DOMAIN R(i)[k].words : z = R(i)[k].words[m]
      BY <2>1, <2>2
    <3>2. PICK k \in DOMAIN R(i) : \E m \in DOMAIN R(i)[k].words : z = R(i)[k].words[m]
      BY <3>1
    <3>3. R(i)[k] \in V
      BY <1>12
    <3> QED
      BY <1>5, <3>2, <3>3 DEF Spread
  <2>3. ASSUME NEW x \in 1 .. u
        PROVE  args[x] \in Pc!Given
    <3>1. PICK v \in V : \E m \in DOMAIN v.words : v.words[m] = args[x]
      BY <1>5 DEF Spread
    <3>2. PICK m \in DOMAIN v.words : v.words[m] = args[x]
      BY <3>1
    <3>3. PICK i \in DOMAIN params : \E k \in DOMAIN R(i) : R(i)[k] = v
      BY <1>13
    <3>4. PICK k \in DOMAIN R(i) : R(i)[k] = v
      BY <3>3
    <3> QED
      BY <2>1, <3>2, <3>4
  <2> QED
    BY <2>2, <2>3
<1>15. ASSUME NEW i \in DOMAIN params, NEW j \in DOMAIN params, NEW k \in DOMAIN R(i), NEW l \in DOMAIN R(j),
              NEW x \in DOMAIN R(i)[k].words, NEW y \in DOMAIN R(j)[l].words,
              i < j \/ (i = j /\ (k < l \/ (k = l /\ x < y)))
       PROVE  R(i)[k].words[x] < R(j)[l].words[y]
  <2>1. /\ R(i)[k] \in V /\ R(i)[k].for = i /\ R(j)[l] \in V /\ R(j)[l].for = j
    BY <1>12
  <2>2. CASE i < j
    BY <1>5, <2>1, <2>2 DEF Spread, Precedes
  <2>3. CASE i = j /\ k < l
    BY <1>12, <2>3 DEF Precedes
  <2>4. CASE i = j /\ k = l /\ x < y
    BY <1>5, <2>1, <2>4 DEF Spread
  <2> QED
    BY <1>15, <2>2, <2>3, <2>4
<1> QED
  BY <1>12, <1>14, <1>15 DEF R

-----------------------------------------------------------------------------
\* A step of the client is a step of this part, or leaves it as it is.
LEMMA CallStep == [Next]_vars => [Pc!Next]_pcVars
BY DEF Next, vars, pcVars

\* The parameters of a function as the decorators leave them.
LEMMA ParametersDeclared ==
    ASSUME NEW ps \in Pc!ParamLists
    PROVE  Declared(ps)
<1>1. PICK list \in Signatures : Pc!Accepted(list) /\ ps = [i \in DOMAIN list |-> Pc!Parsed(list[i])]
  BY DEF Pc!ParamLists
<1>2. list \in Seq([kind : Pc!Kinds, number : BOOLEAN, marks : SUBSET Pc!Marks,
                    default : {"missing", "none", "some"}])
  BY CallSignatures DEF Pc!SignaturesAssumption
<1>3. DOMAIN list = 1 .. Len(list) /\ Len(list) \in Nat /\ \A i \in 1 .. Len(list) : list[i].kind \in Pc!Kinds
  <2>1. PICK T : T = [kind : Pc!Kinds, number : BOOLEAN, marks : SUBSET Pc!Marks,
                      default : {"missing", "none", "some"}]
    OBVIOUS
  <2>2. list \in Seq(T)
    BY <1>2, <2>1
  <2>3. DOMAIN list = 1 .. Len(list) /\ Len(list) \in Nat /\ \A i \in 1 .. Len(list) : list[i] \in T
    BY <2>2
  <2> QED
    BY <2>1, <2>3
<1>4. DOMAIN ps = 1 .. Len(list) /\ Len(ps) = Len(list) /\ \A i \in 1 .. Len(list) : ps[i] = Pc!Parsed(list[i])
  BY <1>1, <1>3
<1>5. ASSUME NEW i \in 1 .. Len(list)
      PROVE  /\ ps[i].kind = list[i].kind
             /\ ps[i].variable => "tuple" \in list[i].marks \/ list[i].kind = "varpos"
             /\ ps[i].rest => "rest" \in list[i].marks \/ list[i].kind = "kwonly"
  <2>1. PICK d : d = list[i]
    OBVIOUS
  <2>2. ps[i] = Pc!Parsed(d)
    BY <1>4, <2>1
  <2>3. Pc!Parsed(d).kind = d.kind
    BY DEF Pc!Parsed
  <2>4. Pc!Parsed(d).variable = ("tuple" \in d.marks \/ (d.kind = "varpos" /\ "rest" \notin d.marks))
    BY DEF Pc!Parsed
  <2>5. Pc!Parsed(d).rest = ("rest" \in d.marks \/ (d.kind = "kwonly" /\ "tuple" \notin d.marks))
    BY DEF Pc!Parsed
  <2> QED
    BY <2>1, <2>2, <2>3, <2>4, <2>5
<1>6. \A i \in 1 .. Len(list) :
            \/ list[i].marks \cap {"rest", "tuple"} # {} \/ list[i].kind \in {"kwonly", "varpos"} => i = Len(list)
  BY <1>1, <1>3 DEF Pc!Accepted
<1>7. ASSUME NEW i \in 1 .. Len(list), ps[i].variable \/ ps[i].rest \/ ps[i].kind \in {"varpos", "kwonly"}
      PROVE  i = Len(list)
  BY <1>5, <1>6, <1>7
<1> QED
  BY <1>3, <1>4, <1>5, <1>7 DEF Declared

\* Nothing is said of a call that failed.
LEMMA FailedIsFine ==
    HandsInv /\ params' = params /\ args' = args /\ phase' \in {"error", "ignored", "done"} => HandsInv'
BY DEF HandsInv, Begun

\* There is a deepest command, and a longest run of a greedy parameter.
LEMMA LongestRun ==
    ASSUME NEW m \in Nat, NEW good
    PROVE  \E n \in 0 .. m : 1 .. n \subseteq good /\ (n = m \/ n + 1 \notin good)
<1> DEFINE S == {n \in 0 .. m : n = m \/ n + 1 \notin good}
<1>1. PICK n \in S : \A i \in S : n <= i
  <2>1. S \in SUBSET Nat /\ m \in S
    OBVIOUS
  <2> HIDE DEF S
  <2> QED
    BY <2>1, LeastExists
<1>2. ASSUME NEW i \in 1 .. n
      PROVE  i \in good
  <2>1. i - 1 \in 0 .. m /\ ~(n <= i - 1) /\ (i - 1) + 1 = i /\ i - 1 # m
    BY <1>1
  <2>2. i - 1 \notin S
    BY <1>1, <2>1
  <2> QED
    BY <2>1, <2>2
<1> QED
  BY <1>1, <1>2

\* What remains to show of a step of call_callback.
LEMMA CallGoesOn ==
    HandsInv /\ params' = params /\ args' = args /\ phase' \in {"parse", "fill", "python"}
        /\ (Plain => PlainInv') => HandsInv'
BY DEF HandsInv, Begun, Plain

\* The steps before the words are handed out, and those after.
LEMMA AroundKeep ==
    HandsInv /\ (Pc!Look \/ Pc!MessageCreated \/ Pc!TimesOut \/ Pc!End \/ UNCHANGED pcVars) => HandsInv'
<1> SUFFICES ASSUME HandsInv
             PROVE  Pc!Look \/ Pc!MessageCreated \/ Pc!TimesOut \/ Pc!End \/ UNCHANGED pcVars => HandsInv'
  OBVIOUS
<1>1. ASSUME Pc!Look \/ Pc!MessageCreated
      PROVE  HandsInv'
  BY <1>1 DEF Pc!Look, Pc!MessageCreated, Pc!given, Pc!parsing, HandsInv, Begun
<1>2. ASSUME Pc!TimesOut \/ Pc!End
      PROVE  HandsInv'
  BY <1>2, FailedIsFine DEF Pc!TimesOut, Pc!End, Pc!given
<1>3. ASSUME UNCHANGED pcVars
      PROVE  HandsInv'
  BY <1>3 DEF pcVars, HandsInv, Begun, Plain, PlainInv, Turn, Upto, Pc!Fits, Pc!ByPosition, Pc!InPlace, Pc!Surplus
<1> QED
  BY <1>1, <1>2, <1>3

\* The words that are left come after the names of the command.
LEMMA ResolveKeeps ==
    HandsInv /\ Pc!Resolve /\ Len(words) \in Nat => HandsInv'
<1> SUFFICES ASSUME HandsInv, Pc!Resolve, Len(words) \in Nat
             PROVE  HandsInv'
  OBVIOUS
<1> DEFINE Open(n) == \A k \in 1 .. n : SubSeq(words, 1, k) \in Tree \cap enabled
           depth == CHOOSE n \in 0 .. Len(words) : Open(n) /\ (n = Len(words) \/ ~Open(n + 1))
<1>1. PICK good : good = {k \in 1 .. Len(words) : SubSeq(words, 1, k) \in Tree \cap enabled}
  OBVIOUS
<1>2. PICK n \in 0 .. Len(words) : 1 .. n \subseteq good /\ (n = Len(words) \/ n + 1 \notin good)
  BY LongestRun
<1>3. Open(n) /\ (n = Len(words) \/ ~Open(n + 1))
  BY <1>1, <1>2
<1>4. depth \in 0 .. Len(words)
  BY <1>3
<1>5. /\ phase = "resolve" /\ phase' \in {"ignored", "call"}
      /\ phase' = "ignored" \/ args' = [i \in 1 .. (Len(words) - depth) |-> depth + i]
      /\ params' = params /\ UNCHANGED <<index, param, inner, newArgs, kwargs>>
      /\ phase' = "ignored" => args' = args
  BY DEF Pc!Resolve, Pc!given, Pc!parsing
<1> HIDE DEF depth
<1>6. CASE phase' = "ignored"
  BY <1>5, <1>6, FailedIsFine
<1>7. CASE phase' = "call"
  <2>1. PICK m \in Nat : m = Len(words) - depth
    BY <1>4
  <2>2. args' = [i \in 1 .. m |-> depth + i] /\ depth \in Nat
    BY <1>4, <1>5, <1>7, <2>1
  <2>3. Ascending(args)'
    <3>1. args' \in Seq(Nat) /\ Len(args') = m /\ \A i \in 1 .. m : args'[i] = depth + i
      BY <2>2
    <3> QED
      BY <2>2, <3>1 DEF Ascending
  <2> QED
    BY <1>5, <1>7, <2>3 DEF HandsInv, Begun
<1> QED
  BY <1>5, <1>6, <1>7

\* At first nothing is handed out.
LEMMA EnterKeeps == HandsInv /\ Pc!Enter => HandsInv'
<1> SUFFICES ASSUME HandsInv, Pc!Enter, phase' = "parse"
             PROVE  PlainInv'
  BY FailedIsFine, CallGoesOn DEF Pc!Enter, Pc!given
<1>1. /\ newArgs' = << >> /\ kwargs' = << >> /\ index' = 0 /\ param' = 1 /\ inner' = FALSE
      /\ params' = params /\ args' = args /\ Declared(params) /\ Ascending(args)
  BY DEF HandsInv, Pc!Enter, Pc!parsing, Pc!given
<1> DEFINE f == Placed(params)
<1>2. Stock(<< >>, << >>, args, 0, f, 1)
  <2>1. Items(<< >>, << >>) = {}
    BY DEF Items
  <2>2. Spread({}, args, 0)
    BY DEF Spread
  <2>3. Aligned(<< >>, << >>, f, 1)
    BY DEF Aligned
  <2>4. InTurn(<< >>)
    BY DEF InTurn
  <2> QED
    BY <2>1, <2>2, <2>3, <2>4 DEF Stock
<1>6. Len(args) \in Nat /\ Len(params) \in Nat
  BY <1>1, Counts
<1>3. Turn'
  <2>1. index' \in 0 .. Len(args') /\ param' \in 1 .. Len(params') + 1
    BY <1>1, <1>6
  <2>2. inner' \in BOOLEAN /\ ~inner'
    BY <1>1
  <2> QED
    BY <2>1, <2>2 DEF Turn
<1>4. Stock(newArgs', kwargs', args', 0, Placed(params'), 1) /\ Upto' = 0
  BY <1>1, <1>2 DEF Upto
<1>5. 0 \in 0 .. Len(args') /\ 1 \in 1 .. Len(params') + 1
  BY <1>1, <1>6
<1> QED
  BY <1>1, <1>3, <1>4, <1>5 DEF PlainInv, NamesFit

\* A function without parameters, and the call.
LEMMA CallsKeep == HandsInv /\ (Pc!NoParameters \/ Pc!CallFunction) => HandsInv'
<1> SUFFICES ASSUME HandsInv
             PROVE  Pc!NoParameters \/ Pc!CallFunction => HandsInv'
  OBVIOUS
<1>1. ASSUME Pc!NoParameters
      PROVE  HandsInv'
  <2> SUFFICES ASSUME Plain, phase' = "python"
               PROVE  PlainInv'
    BY <1>1, FailedIsFine, CallGoesOn DEF Pc!NoParameters, Pc!given
  <2>1. PlainInv
    BY <1>1 DEF Pc!NoParameters, HandsInv, Begun
  <2>2. ~inner
    BY <1>1, <2>1 DEF Pc!NoParameters, PlainInv, Turn
  <2> QED
    BY <1>1, <2>1, <2>2 DEF Pc!NoParameters, Pc!parsing, Pc!given, PlainInv, Turn
<1>2. ASSUME Pc!CallFunction, ~Pc!Fits
      PROVE  HandsInv'
  BY <1>2, FailedIsFine DEF Pc!CallFunction, Pc!given
<1>3. ASSUME Pc!CallFunction, Pc!Fits
      PROVE  HandsInv'
  <2>1. Pc!Fits'
    BY <1>3 DEF Pc!CallFunction, Pc!given, Pc!parsing, Pc!Fits, Pc!ByPosition, Pc!InPlace, Pc!Surplus
  <2>2. Plain => PlainInv'
    BY <1>3 DEF HandsInv, Begun, Pc!CallFunction, Pc!given, Pc!parsing, PlainInv, Turn
  <2> QED
    BY <1>3, <2>1, <2>2 DEF HandsInv, Begun, Plain, Pc!CallFunction, Pc!given
<1> QED
  BY <1>1, <1>2, <1>3

\* A parameter of the loop is given its value, by its place or by its name.
LEMMA GiveKeeps ==
    ASSUME Declared(params), Ascending(args), param \in 1 .. Len(params), NamesFit(kwargs, params),
           NEW u \in 0 .. Len(args), NEW w \in u .. Len(args), NEW v \in Item, v.for = param,
           Fresh({v}, args, u, w), Stock(newArgs, kwargs, args, u, Placed(params), param)
    PROVE  /\ Pc!Give(Pc!P, v) => /\ Stock(newArgs', kwargs', args, w, Placed(params), param + 1)
                                 /\ NamesFit(kwargs', params)
           /\ newArgs' = Append(newArgs, v) /\ kwargs' = kwargs =>
                    /\ Stock(newArgs', kwargs', args, w, Placed(params), param + 1)
                    /\ NamesFit(kwargs', params)
           /\ kwargs' = Pc!Named(v) /\ newArgs' = newArgs /\ (params[param].kind # "varpos" \/ v.words = << >>) =>
                    /\ Stock(newArgs', kwargs', args, w, Placed(params), param + 1)
                    /\ NamesFit(kwargs', params)
<1> DEFINE f == Placed(params)
<1>1. f \in Nat /\ param \in 1 .. f + 1 /\ param \in Nat /\ Len(params) \in Nat
  BY PlacesAre
<1>2. ASSUME newArgs' = Append(newArgs, v), kwargs' = kwargs
      PROVE  Stock(newArgs', kwargs', args, w, f, param + 1) /\ NamesFit(kwargs', params)
  <2>1. Stock(Append(newArgs, v), kwargs, args, w, f, param + 1)
    BY <1>1, GivenOne
  <2> QED
    BY <1>2, <2>1
<1>3. ASSUME kwargs' = Pc!Named(v), newArgs' = newArgs, params[param].kind # "varpos" \/ v.words = << >>
      PROVE  Stock(newArgs', kwargs', args, w, f, param + 1) /\ NamesFit(kwargs', params)
  <2>1. PICK k : k = Pc!Named(v)
    OBVIOUS
  <2>2. DOMAIN k = DOMAIN kwargs \cup {param} /\ \A i \in DOMAIN k : k[i] = IF i = param THEN v ELSE kwargs[i]
    BY <2>1 DEF Pc!Named
  <2>3. Stock(newArgs, k, args, w, f, param + 1)
    <3>1. PICK a, kw, n, p : a = args /\ kw = kwargs /\ n = newArgs /\ p = param
      OBVIOUS
    <3>2. PICK g \in Nat : g = f
      BY <1>1
    <3>3. /\ Ascending(a) /\ u \in 0 .. Len(a) /\ w \in u .. Len(a) /\ p \in Nat
          /\ Stock(n, kw, a, u, g, p) /\ v.for = p /\ Fresh({v}, a, u, w)
          /\ Extended(k, kw, p, v)
      BY <1>1, <2>2, <3>1, <3>2 DEF Extended
    <3>4. Stock(n, k, a, w, g, p + 1)
      BY <3>3, GivenByName
    <3> QED
      BY <3>1, <3>2, <3>4
  <2>4. NamesFit(k, params)
    BY <1>3, <2>2 DEF NamesFit
  <2> QED
    BY <1>3, <2>1, <2>3, <2>4
<1>4. Pc!Give(Pc!P, v) => \/ newArgs' = Append(newArgs, v) /\ kwargs' = kwargs
                          \/ kwargs' = Pc!Named(v) /\ newArgs' = newArgs /\ params[param].kind # "varpos"
  BY DEF Pc!Give, Pc!Positional, Pc!P
<1> HIDE DEF f
<1> QED
  BY <1>2, <1>3, <1>4 DEF f

\* Inside the loops.
LEMMA InLoop ==
    ASSUME HandsInv, Plain, phase = "parse", inner
    PROVE  /\ Declared(params) /\ Ascending(args) /\ NamesFit(kwargs, params)
           /\ Len(params) \in Nat /\ Len(args) \in Nat
           /\ index \in 1 .. Len(args) /\ param \in 1 .. Len(params) /\ arg = <<args[index]>>
           /\ index - 1 \in 0 .. Len(args)
           /\ Stock(newArgs, kwargs, args, index - 1, Placed(params), param)
           /\ Pc!Ahead = Pc!RestOfArgs
           /\ Pc!RestOfArgs \in Seq(Nat) /\ Len(Pc!RestOfArgs) = Len(args) - (index - 1)
           /\ \A x \in 1 .. Len(Pc!RestOfArgs) : Pc!RestOfArgs[x] = args[(index - 1) + x]
<1>1. Declared(params) /\ Ascending(args) /\ PlainInv
  BY DEF HandsInv, Begun
<1>2. Len(params) \in Nat /\ Len(args) \in Nat /\ args \in Seq(Nat)
  <2>1. args \in Seq(Nat)
    BY <1>1, Zenon DEF Ascending
  <2>2. Len(params) \in Nat
    BY <1>1, Zenon DEF Declared
  <2> QED
    BY <2>1, <2>2
<1>3. index \in 1 .. Len(args) /\ param \in 1 .. Len(params) /\ arg = <<args[index]>>
  BY <1>1, <1>2 DEF PlainInv, Turn
<1>4. Stock(newArgs, kwargs, args, index - 1, Placed(params), param)
  BY <1>1, <1>3 DEF PlainInv, Upto
<1>5. NamesFit(kwargs, params)
  BY <1>1 DEF PlainInv
<1>6. /\ Pc!RestOfArgs \in Seq(Nat) /\ Len(Pc!RestOfArgs) = Len(args) - (index - 1)
      /\ \A x \in 1 .. Len(Pc!RestOfArgs) : Pc!RestOfArgs[x] = args[(index - 1) + x]
  <2>1. Pc!RestOfArgs = SubSeq(args, index, Len(args))
    <3>1. index > 0 /\ index # 0
      BY <1>2, <1>3
    <3>2. (IF index > 0 THEN index ELSE Len(args) + index) = index
      BY <3>1
    <3> QED
      BY <3>1, <3>2 DEF Pc!RestOfArgs
  <2> QED
    BY <1>2, <1>3, <2>1
<1>7. Pc!Ahead = Pc!RestOfArgs
  <2>1. Pc!Ahead = [k \in 1 .. (Len(args) - index + 1) |-> Pc!Word(index - 2 + k)]
    BY DEF Pc!Ahead
  <2>2. \A k \in 1 .. (Len(args) - index + 1) : Pc!Word(index - 2 + k) = args[(index - 1) + k]
    BY <1>2, <1>3 DEF Pc!Word
  <2>3. PICK m, r : m = Len(args) - index + 1 /\ r = Pc!RestOfArgs
    OBVIOUS
  <2>4. m \in Nat /\ r \in Seq(Nat) /\ Len(r) = m /\ \A k \in 1 .. m : r[k] = args[(index - 1) + k]
    BY SMTT(60), <1>2, <1>3, <1>6, <2>3
  <2>5. r = [k \in 1 .. m |-> r[k]]
    BY <2>4
  <2> QED
    BY <2>1, <2>2, <2>3, <2>4, <2>5
<1> QED
  BY <1>1, <1>2, <1>3, <1>4, <1>5, <1>6, <1>7

\* The next word, or no more.
LEMMA NextArgKeeps == HandsInv /\ Pc!NextArg => HandsInv'
<1> SUFFICES ASSUME HandsInv, Pc!NextArg
             PROVE  HandsInv'
  OBVIOUS
<1>1. params' = params /\ args' = args /\ phase = "parse" /\ ~inner
  BY DEF Pc!NextArg, Pc!given
<1>2. phase' = "error" => HandsInv'
  BY <1>1, FailedIsFine
<1>3. ASSUME Plain, phase' # "error"
      PROVE  PlainInv' /\ phase' \in {"parse", "fill", "python"}
  <2>1. PlainInv /\ Declared(params) /\ Ascending(args)
    BY <1>1, <1>3 DEF HandsInv, Begun
  <2>2. Len(params) \in Nat /\ Len(args) \in Nat
    BY <2>1 DEF Declared, Ascending
  <2>3. index \in 0 .. Len(args) /\ param \in 1 .. Len(params) + 1 /\ NamesFit(kwargs, params)
    BY <2>1 DEF PlainInv, Turn
  <2>4. PICK u \in 0 .. Len(args) :
            /\ Stock(newArgs, kwargs, args, u, Placed(params), param)
            /\ param <= Len(params) => u = index
    BY <1>1, <2>1 DEF PlainInv, Upto
  <2>5. CASE index < Len(args) /\ index' = index + 1
    <3>a. Pc!Word(index) = args[index']
      BY <2>2, <2>3, <2>5 DEF Pc!Word
    <3>1. /\ arg' = <<args[index']>> /\ inner' = (param <= Len(params))
          /\ phase' = phase /\ param' = param /\ newArgs' = newArgs /\ kwargs' = kwargs
      BY <2>2, <2>3, <2>5, <3>a DEF Pc!NextArg, Pc!parsing
    <3>2. Turn'
      <4>1. index' \in 0 .. Len(args') /\ param' \in 1 .. Len(params') + 1 /\ index' # 0
        BY <1>1, <2>2, <2>3, <2>5, <3>1
      <4>2. inner' \in BOOLEAN /\ (inner' <=> param' <= Len(params'))
        <5>1. inner' = (param' <= Len(params'))
          BY <1>1, <3>1
        <5>2. CASE param' <= Len(params')
          <6>1. inner' = TRUE
            BY <5>1, <5>2
          <6> QED
            BY <5>2, <6>1
        <5>3. CASE ~(param' <= Len(params'))
          <6>1. (param' <= Len(params')) = FALSE
            BY <1>1, <2>2, <2>3, <3>1, <5>3
          <6>2. inner' = FALSE
            BY <5>1, <6>1, Zenon
          <6> QED
            BY <5>3, <6>2
        <5> QED
          BY <5>2, <5>3
      <4>3. phase' = "parse" /\ arg' = <<args'[index']>>
        BY <1>1, <3>1
      <4> QED
        BY <4>1, <4>2, <4>3 DEF Turn
    <3>3. param' <= Len(params') => u = Upto'
      <4>1. param' <= Len(params') => inner' /\ u = index
        BY <1>1, <2>4, <3>1
      <4>2. index' - 1 = index
        BY <2>3, <2>5
      <4> QED
        BY <4>1, <4>2 DEF Upto
    <3>4. Stock(newArgs', kwargs', args', u, Placed(params'), param') /\ NamesFit(kwargs', params')
      BY <1>1, <2>3, <2>4, <3>1
    <3> QED
      BY <1>1, <2>3, <3>1, <3>2, <3>3, <3>4 DEF PlainInv
  <2>6. CASE index = Len(args) /\ UNCHANGED Pc!parsing
    <3>1. /\ phase' = (IF param <= Len(params) THEN "fill" ELSE "python")
          /\ index' = index /\ inner' = inner /\ param' = param /\ newArgs' = newArgs /\ kwargs' = kwargs
      BY <1>3, <2>2, <2>3, <2>6 DEF Pc!NextArg, Pc!parsing
    <3>2. Turn'
      <4>1. index' \in 0 .. Len(args') /\ param' \in 1 .. Len(params') + 1
        BY <1>1, <2>3, <3>1
      <4>2. inner' \in BOOLEAN /\ ~inner'
        BY <1>1, <2>1, <3>1 DEF PlainInv, Turn
      <4>3. phase' = "fill" => param' <= Len(params')
        BY <1>1, <3>1
      <4> QED
        BY <4>1, <4>2, <4>3 DEF Turn
    <3>4. Stock(newArgs', kwargs', args', u, Placed(params'), param') /\ NamesFit(kwargs', params')
      BY <1>1, <2>3, <2>4, <3>1
    <3> QED
      BY <1>1, <2>3, <3>1, <3>2, <3>4 DEF PlainInv
  <2> QED
    BY <2>5, <2>6 DEF Pc!NextArg
<1>4. phase' \in {"parse", "fill", "python", "error"}
  BY <1>1 DEF Pc!NextArg
<1> QED
  BY <1>1, <1>2, <1>3, <1>4, CallGoesOn

\* What remains to show when a parameter of the loop has its value.
LEMMA NextParameter ==
    ASSUME params' = params, args' = args, phase' = "parse", param' = param + 1, param \in 1 .. Len(params),
           Len(params) \in Nat, index' \in 0 .. Len(args), inner' \in BOOLEAN,
           inner' => index' # 0 /\ arg' = <<args[index']>> /\ param' <= Len(params),
           NEW w \in 0 .. Len(args), Stock(newArgs', kwargs', args, w, Placed(params), param + 1),
           NamesFit(kwargs', params), param' <= Len(params) => w = Upto'
    PROVE  PlainInv'
<1>1. param' \in 1 .. Len(params') + 1
  OBVIOUS
<1>2. Turn'
  BY <1>1 DEF Turn
<1>3. Stock(newArgs', kwargs', args', w, Placed(params'), param')
  OBVIOUS
<1> QED
  BY <1>1, <1>2, <1>3 DEF PlainInv

\* All the words that are left.
LEMMA TakeVariableKeeps == HandsInv /\ Pc!TakeVariable => HandsInv'
<1> SUFFICES ASSUME HandsInv, Pc!TakeVariable
             PROVE  HandsInv'
  OBVIOUS
<1>1. params' = params /\ args' = args /\ phase = "parse" /\ inner /\ phase' \in {"parse", "error"}
  BY DEF Pc!TakeVariable, Pc!given, Pc!Fail
<1> SUFFICES ASSUME Plain, phase' = "parse"
             PROVE  PlainInv'
  BY <1>1, FailedIsFine, CallGoesOn
<1>2. /\ Declared(params) /\ Ascending(args) /\ NamesFit(kwargs, params)
      /\ Len(params) \in Nat /\ Len(args) \in Nat
      /\ index \in 1 .. Len(args) /\ param \in 1 .. Len(params)
      /\ index - 1 \in 0 .. Len(args)
      /\ Stock(newArgs, kwargs, args, index - 1, Placed(params), param)
      /\ Pc!RestOfArgs \in Seq(Nat) /\ Len(Pc!RestOfArgs) = Len(args) - (index - 1)
      /\ \A x \in 1 .. Len(Pc!RestOfArgs) : Pc!RestOfArgs[x] = args[(index - 1) + x]
  BY <1>1, InLoop
<1>3. /\ phase' = phase /\ index' = Len(args) /\ param' = param + 1 /\ inner' = FALSE
      /\ Pc!P.variable
      /\ IF Pc!P.kind = "varpos"
         THEN /\ newArgs' = newArgs \o [i \in DOMAIN Pc!RestOfArgs |-> Pc!Value(param, <<Pc!RestOfArgs[i]>>)]
              /\ UNCHANGED kwargs
         ELSE Pc!Give(Pc!P, Pc!Value(param, Pc!RestOfArgs))
  <2>1. Pc!P.variable
    BY DEF Pc!TakeVariable
  <2>2. Pc!Remainder = Pc!RestOfArgs
    BY <1>2, <2>1 DEF Pc!Remainder, Pc!P, Plain, Declared
  <2> QED
    BY <1>1, <2>1, <2>2 DEF Pc!TakeVariable, Pc!Fail
<1>4. param = Len(params)
  BY <1>2, <1>3 DEF Declared, Pc!P
<1>5. PICK u \in 0 .. Len(args) : u = index - 1
  BY <1>2
<1>6. PICK a, r, p : a = args /\ r = Pc!RestOfArgs /\ p = param
  OBVIOUS
<1>7. Stock(newArgs', kwargs', args, Len(args), Placed(params), param + 1) /\ NamesFit(kwargs', params)
  <2>1. /\ Ascending(a) /\ u \in 0 .. Len(a) /\ r \in Seq(Nat) /\ Remaining(r, a, u)
        /\ Len(r) # 0 /\ Len(a) \in u .. Len(a) /\ p \in Nat /\ Len(a) \in Nat
    BY <1>2, <1>5, <1>6 DEF Remaining
  <2>2. CASE Pc!P.kind = "varpos"
    <3>1. PICK s : s = [x \in DOMAIN r |-> Pc!Value(p, <<r[x]>>)]
      OBVIOUS
    <3>2. newArgs' = newArgs \o s /\ kwargs' = kwargs
      BY <1>3, <1>6, <2>2, <3>1
    <3>3. Len(s) = Len(r) /\ Batch(s, a, u, Len(a), p)
      BY <2>1, <3>1, EachOfRest
    <3>4. PICK f, n, k : f = Placed(params) /\ n = newArgs /\ k = kwargs
      OBVIOUS
    <3>5. f \in Nat /\ p \in 1 .. f + 1 /\ ~(p <= f)
      <4>1. /\ f \in Nat /\ Len(params) <= f + 1
            /\ params[param].kind \in {"posonly", "normal"} <=> param <= f
        BY <1>2, <3>4, PlacesAre
      <4> QED
        BY <1>2, <1>6, <2>2, <4>1 DEF Pc!P
    <3>6. Stock(n, k, a, u, f, p)
      BY <1>2, <1>5, <1>6, <3>4
    <3>7. Stock(n \o s, k, a, Len(a), f, p + 1)
      BY <2>1, <3>3, <3>5, <3>6, GivenByPlace
    <3> QED
      BY <1>2, <1>6, <3>2, <3>4, <3>7
  <2>3. CASE Pc!P.kind # "varpos"
    <3>1. PICK v : v = Pc!Value(p, SubSeq(r, 1, Len(r)))
      OBVIOUS
    <3>2. v \in Item /\ v.for = p /\ Fresh({v}, a, u, Len(a))
      <4>1. PICK t, w : t = Len(r) /\ w = u + t
        OBVIOUS
      <4>2. w = Len(a) /\ t \in 0 .. Len(r)
        BY <2>1, <4>1 DEF Remaining
      <4>3. FirstWords(v, w, r, u, t, p)
        BY <3>1, <4>1 DEF FirstWords
      <4>4. v \in Item /\ v.for = p /\ Fresh({v}, a, u, w)
        BY <2>1, <4>2, <4>3, FirstOfRest
      <4> QED
        BY <4>2, <4>4
    <3>3. SubSeq(r, 1, Len(r)) = r
      BY <2>1
    <3>4. Pc!Give(Pc!P, v) /\ Stock(newArgs, kwargs, args, u, Placed(params), param)
      BY <1>2, <1>3, <1>5, <1>6, <2>3, <3>1, <3>3
    <3>5. v.for = param /\ Fresh({v}, args, u, Len(args)) /\ Len(args) \in u .. Len(args)
      BY <1>6, <2>1, <3>2
    <3> QED
      BY <1>2, <3>2, <3>4, <3>5, GiveKeeps
  <2> QED
    BY <2>2, <2>3
<1>8. inner' \in BOOLEAN /\ ~inner'
  BY <1>3
<1>9. ~(param' <= Len(params)) /\ index' \in 0 .. Len(args) /\ Len(args) \in 0 .. Len(args)
  BY <1>2, <1>3, <1>4
<1> QED
  BY <1>1, <1>2, <1>3, <1>7, <1>8, <1>9, NextParameter

\* The first t of the words that are left are for the parameter of the loop.
LEMMA LeadingWords ==
    ASSUME HandsInv, Plain, phase = "parse", inner,
           NEW t \in 0 .. Len(Pc!RestOfArgs), NEW w, w = (index - 1) + t
    PROVE  LET v == Pc!Value(param, SubSeq(Pc!RestOfArgs, 1, t)) IN
           /\ v \in Item /\ v.for = param /\ w \in index - 1 .. Len(args) /\ Fresh({v}, args, index - 1, w)
<1>1. /\ Ascending(args) /\ index - 1 \in 0 .. Len(args) /\ param \in Nat
      /\ Pc!RestOfArgs \in Seq(Nat) /\ Len(Pc!RestOfArgs) = Len(args) - (index - 1)
      /\ \A x \in 1 .. Len(Pc!RestOfArgs) : Pc!RestOfArgs[x] = args[(index - 1) + x]
  BY InLoop
<1>2. PICK a, r, p, u, v, x, y :
            /\ x = t /\ y = w /\ a = args /\ r = Pc!RestOfArgs /\ p = param /\ u = index - 1
            /\ v = Pc!Value(param, SubSeq(Pc!RestOfArgs, 1, t))
  OBVIOUS
<1>3. /\ Ascending(a) /\ u \in 0 .. Len(a) /\ p \in Nat /\ Remaining(r, a, u) /\ x \in 0 .. Len(r)
      /\ FirstWords(v, y, r, u, x, p)
  BY <1>1, <1>2 DEF Remaining, FirstWords
<1>4. v \in Item /\ v.for = p /\ y \in u .. Len(a) /\ Fresh({v}, a, u, y)
  BY <1>3, FirstOfRest
<1> QED
  BY <1>2, <1>4

\* A run of words.
LEMMA TakeGreedyKeeps == HandsInv /\ Pc!TakeGreedy => HandsInv'
<1> SUFFICES ASSUME HandsInv, Pc!TakeGreedy
             PROVE  HandsInv'
  OBVIOUS
<1>1. params' = params /\ args' = args /\ phase = "parse" /\ inner /\ phase' \in {"parse", "error"}
  BY DEF Pc!TakeGreedy, Pc!given, Pc!Fail
<1> SUFFICES ASSUME Plain, phase' = "parse"
             PROVE  PlainInv'
  BY <1>1, FailedIsFine, CallGoesOn
<1>2. /\ Declared(params) /\ Ascending(args) /\ NamesFit(kwargs, params)
      /\ Len(params) \in Nat /\ Len(args) \in Nat
      /\ index \in 1 .. Len(args) /\ param \in 1 .. Len(params)
      /\ index - 1 \in 0 .. Len(args)
      /\ Stock(newArgs, kwargs, args, index - 1, Placed(params), param)
      /\ Pc!Ahead = Pc!RestOfArgs
      /\ Pc!RestOfArgs \in Seq(Nat) /\ Len(Pc!RestOfArgs) = Len(args) - (index - 1)
  BY <1>1, InLoop
<1> DEFINE Run(n) == \A i \in 1 .. n : ~Pc!P.free /\ Pc!Takes(Pc!P, <<Pc!Ahead[i]>>)
           taken == CHOOSE n \in 0 .. Len(Pc!Ahead) : Run(n) /\ (n = Len(Pc!Ahead) \/ ~Run(n + 1))
<1>3. taken \in 0 .. Len(Pc!Ahead)
  <2>1. PICK good : good = {i \in 1 .. Len(Pc!Ahead) : ~Pc!P.free /\ Pc!Takes(Pc!P, <<Pc!Ahead[i]>>)}
    OBVIOUS
  <2>2. Len(Pc!Ahead) \in Nat
    BY <1>2
  <2>3. PICK n \in 0 .. Len(Pc!Ahead) : 1 .. n \subseteq good /\ (n = Len(Pc!Ahead) \/ n + 1 \notin good)
    BY <2>2, LongestRun
  <2>4. Run(n) /\ (n = Len(Pc!Ahead) \/ ~Run(n + 1))
    BY <2>1, <2>2, <2>3
  <2> QED
    BY <2>4
<1>4. Pc!P.default = "missing"
  BY <1>2, Zenon DEF Pc!TakeGreedy, Pc!P, Plain, Pc!Optional, Declared
<1>5. /\ newArgs' = Append(newArgs, Pc!Value(param, SubSeq(Pc!Ahead, 1, taken)))
      /\ index' = Pc!AfterRun(taken)
      /\ param' = param + 1
      /\ inner' = (Pc!P.default = "some" /\ param' <= Len(params))
      /\ kwargs' = kwargs
  BY <1>1 DEF Pc!TakeGreedy, Pc!Fail
<1> HIDE DEF taken
<1>6. PICK t, w : t = taken /\ w = (index - 1) + t
  OBVIOUS
<1>7. PICK v : v = Pc!Value(param, SubSeq(Pc!RestOfArgs, 1, t))
  OBVIOUS
<1>8. v \in Item /\ v.for = param /\ w \in index - 1 .. Len(args) /\ Fresh({v}, args, index - 1, w)
  BY <1>1, <1>2, <1>3, <1>6, <1>7, LeadingWords
<1>9. Stock(newArgs', kwargs', args, w, Placed(params), param + 1) /\ NamesFit(kwargs', params)
  <2>1. newArgs' = Append(newArgs, v) /\ kwargs' = kwargs
    BY <1>2, <1>5, <1>6, <1>7
  <2> QED
    BY <1>2, <1>8, <2>1, GiveKeeps
<1>10. inner' \in BOOLEAN /\ ~inner'
  BY <1>4, <1>5
<1>11. index' = w /\ w \in 0 .. Len(args) /\ Upto' = w
  <2>1. index' = w
    BY <1>2, <1>3, <1>5, <1>6 DEF Pc!AfterRun
  <2> QED
    BY <1>2, <1>8, <1>10, <2>1 DEF Upto
<1> QED
  BY <1>1, <1>2, <1>5, <1>9, <1>10, <1>11, NextParameter

\* One word, none, or all that are left in one.
LEMMA TakeOneKeeps == HandsInv /\ Pc!TakeOne => HandsInv'
<1> SUFFICES ASSUME HandsInv, Pc!TakeOne
             PROVE  HandsInv'
  OBVIOUS
<1>1. params' = params /\ args' = args /\ phase = "parse" /\ inner /\ phase' \in {"parse", "error"}
  BY DEF Pc!TakeOne, Pc!given, Pc!Fail
<1> SUFFICES ASSUME Plain, phase' = "parse"
             PROVE  PlainInv'
  BY <1>1, FailedIsFine, CallGoesOn
<1>2. /\ Declared(params) /\ Ascending(args) /\ NamesFit(kwargs, params)
      /\ Len(params) \in Nat /\ Len(args) \in Nat
      /\ index \in 1 .. Len(args) /\ param \in 1 .. Len(params) /\ arg = <<args[index]>>
      /\ index - 1 \in 0 .. Len(args)
      /\ Stock(newArgs, kwargs, args, index - 1, Placed(params), param)
      /\ Pc!RestOfArgs \in Seq(Nat) /\ Len(Pc!RestOfArgs) = Len(args) - (index - 1)
      /\ \A x \in 1 .. Len(Pc!RestOfArgs) : Pc!RestOfArgs[x] = args[(index - 1) + x]
  BY <1>1, InLoop
<1> DEFINE text == IF Pc!P.rest THEN Pc!RestOfArgs ELSE arg
           kept == Pc!P.free \/ ~Pc!Takes(Pc!P, text)
<1>3. /\ Pc!Give(Pc!P, Pc!Value(param, IF kept THEN << >> ELSE text))
      /\ arg' = text
      /\ index' = IF Pc!P.rest THEN Len(args) ELSE index
      /\ param' = param + 1
      /\ inner' = (kept /\ param' <= Len(params))
  BY <1>1 DEF Pc!TakeOne, Pc!Fail
<1>4. inner' \in BOOLEAN /\ (inner' <=> kept /\ param' <= Len(params))
  <2>1. PICK q : q = kept
    OBVIOUS
  <2> HIDE DEF kept
  <2>2. (kept /\ param' <= Len(params)) \in BOOLEAN
    BY <1>2, <1>3
  <2> QED
    BY <1>3, <2>2
<1>5. Pc!P.rest => param = Len(params)
  BY <1>2 DEF Declared, Pc!P
<1>6. CASE kept
  <2>1. PICK v : v = Pc!Value(param, << >>)
    OBVIOUS
  <2>2. Pc!Give(Pc!P, v)
    BY <1>3, <1>6, <2>1
  <2> HIDE DEF text, kept
  <2>3. v \in Item /\ v.for = param /\ Fresh({v}, args, index - 1, index - 1)
    <3>1. index - 1 \in Nat /\ param \in Nat
      BY <1>2
    <3> QED
      BY <2>1, <3>1, NoWords
  <2>4. index - 1 \in index - 1 .. Len(args)
    BY <1>2
  <2>5. Stock(newArgs', kwargs', args, index - 1, Placed(params), param + 1) /\ NamesFit(kwargs', params)
    BY <1>2, <2>2, <2>3, <2>4, GiveKeeps
  <2>6. param' <= Len(params) => ~Pc!P.rest /\ inner' /\ index' = index /\ index' - 1 = index - 1
    BY <1>2, <1>3, <1>4, <1>5, <1>6
  <2>7. param' <= Len(params) => index - 1 = Upto'
    BY <2>6 DEF Upto
  <2>8. inner' => index' # 0 /\ arg' = <<args[index']>> /\ param' <= Len(params)
    BY <1>2, <1>3, <1>4, <2>6 DEF text
  <2>9. index' \in 0 .. Len(args)
    BY <1>2, <1>3
  <2> QED
    BY <1>1, <1>2, <1>3, <1>4, <2>5, <2>7, <2>8, <2>9, NextParameter
<1>7. CASE ~kept
  <2>1. PICK v : v = Pc!Value(param, text)
    OBVIOUS
  <2>2. Pc!Give(Pc!P, v)
    BY <1>3, <1>7, <2>1
  <2>3. ~inner'
    BY <1>4, <1>7
  <2> HIDE DEF kept
  <2>4. PICK t, w : t = (IF Pc!P.rest THEN Len(Pc!RestOfArgs) ELSE 1) /\ w = (index - 1) + t
    OBVIOUS
  <2>a. t \in 0 .. Len(Pc!RestOfArgs)
    BY <1>2, <2>4
  <2>5. text = SubSeq(Pc!RestOfArgs, 1, t)
    <3>1. CASE Pc!P.rest
      <4>1. t = Len(Pc!RestOfArgs) /\ text = Pc!RestOfArgs
        BY <2>4, <3>1
      <4> HIDE DEF text
      <4> QED
        BY <1>2, <4>1
    <3>2. CASE ~Pc!P.rest
      <4>1. t = 1 /\ text = arg
        BY <2>4, <3>2
      <4> HIDE DEF text
      <4>2. SubSeq(Pc!RestOfArgs, 1, 1) = <<Pc!RestOfArgs[1]>>
        BY <1>2, FirstAlone
      <4>3. Pc!RestOfArgs[1] = args[index]
        BY <1>2
      <4> QED
        BY <1>2, <4>1, <4>2, <4>3
    <3> QED
      BY <3>1, <3>2
  <2> HIDE DEF text
  <2>6. v \in Item /\ v.for = param /\ w \in index - 1 .. Len(args) /\ Fresh({v}, args, index - 1, w)
    BY <1>1, <2>1, <2>4, <2>a, <2>5, LeadingWords
  <2>7. Stock(newArgs', kwargs', args, w, Placed(params), param + 1) /\ NamesFit(kwargs', params)
    BY <1>2, <2>2, <2>6, GiveKeeps
  <2>8. index' = w /\ w \in 0 .. Len(args)
    BY SMTT(60), <1>2, <1>3, <2>4, <2>a
  <2>9. Upto' = w
    BY <2>3, <2>8 DEF Upto
  <2> QED
    BY <1>1, <1>2, <1>3, <1>4, <2>3, <2>7, <2>8, <2>9, NextParameter
<1> QED
  BY <1>6, <1>7

\* The parameters that are left without a word.
LEMMA FillKeeps == HandsInv /\ Pc!Fill => HandsInv'
<1> SUFFICES ASSUME HandsInv, Pc!Fill
             PROVE  HandsInv'
  OBVIOUS
<1>1. params' = params /\ args' = args /\ phase = "fill" /\ phase' \in {"fill", "python", "error"}
  BY DEF Pc!Fill, Pc!given, Pc!Fail
<1> SUFFICES ASSUME Plain, phase' # "error"
             PROVE  PlainInv'
  BY <1>1, FailedIsFine, CallGoesOn
<1>2. PlainInv /\ Declared(params) /\ Ascending(args)
  BY <1>1 DEF HandsInv, Begun
<1>3. /\ Len(params) \in Nat /\ Len(args) \in Nat /\ NamesFit(kwargs, params)
      /\ param \in 1 .. Len(params) /\ index \in 0 .. Len(args) /\ inner \in BOOLEAN /\ ~inner
  <2>1. Len(params) \in Nat /\ Len(args) \in Nat
    BY <1>2, Counts
  <2>2. inner \in BOOLEAN /\ ~inner
    BY <1>1, <1>2 DEF PlainInv, Turn
  <2>3. param \in 1 .. Len(params) + 1 /\ param <= Len(params) /\ index \in 0 .. Len(args) /\ NamesFit(kwargs, params)
    BY <1>1, <1>2 DEF PlainInv, Turn
  <2> QED
    BY <2>1, <2>2, <2>3
<1>4. PICK u \in 0 .. Len(args) : Stock(newArgs, kwargs, args, u, Placed(params), param)
  BY <1>1, <1>2 DEF PlainInv
<1>5. PICK v : v = Pc!Value(param, << >>)
  OBVIOUS
<1>6. v \in Item /\ v.for = param /\ v.words = << >> /\ Fresh({v}, args, u, u) /\ u \in u .. Len(args)
  BY <1>3, <1>5, NoWords
<1>7. /\ index' = index /\ inner' = inner
      /\ \/ newArgs' = Append(newArgs, v) /\ kwargs' = kwargs
         \/ kwargs' = Pc!Named(v) /\ newArgs' = newArgs
         \/ Pc!Give(Pc!P, v)
      /\ \/ param' = param /\ phase' = "python"
         \/ param' = param + 1 /\ (phase' = "fill" => param' <= Len(params))
  BY <1>1, <1>5 DEF Pc!Fill, Pc!Fail
<1>8. Stock(newArgs', kwargs', args, u, Placed(params), param + 1) /\ NamesFit(kwargs', params)
  BY <1>2, <1>3, <1>4, <1>6, <1>7, GiveKeeps
<1>9. param' \in 1 .. Len(params') + 1 /\ param + 1 \in 1 .. Len(params') + 1 /\ (phase' = "fill" => param' = param + 1)
  BY <1>1, <1>3, <1>7
<1>10. Turn'
  <2>1. index' \in 0 .. Len(args') /\ inner' \in BOOLEAN /\ ~inner'
    BY <1>1, <1>3, <1>7
  <2>2. phase' = "fill" => param' <= Len(params')
    BY <1>1, <1>7
  <2> QED
    BY <1>9, <2>1, <2>2 DEF Turn
<1>11. Stock(newArgs', kwargs', args', u, Placed(params'), param + 1) /\ NamesFit(kwargs', params') /\ u \in 0 .. Len(args')
  BY <1>1, <1>8
<1>12. phase' # "parse"
  BY <1>1
<1> QED
  BY <1>9, <1>10, <1>11, <1>12 DEF PlainInv

\* The words of the message are finitely many.
WordsFinite == Len(words) \in Nat

\* Together.
LEMMA HandsKept == Spec => [](HandsInv /\ WordsFinite)
<1>1. Init => HandsInv /\ WordsFinite
  <2> SUFFICES ASSUME Init
               PROVE  HandsInv /\ WordsFinite
    OBVIOUS
  <2>1. Pc!Init
    BY DEF Init
  <2>2. Declared(params)
    BY <2>1, ParametersDeclared DEF Pc!Init
  <2>3. Ascending(args)
    BY <2>1 DEF Pc!Init, Ascending
  <2>4. WordsFinite
    BY <2>1 DEF Pc!Init, Pc!Texts, WordsFinite
  <2> QED
    BY <2>1, <2>2, <2>3, <2>4 DEF Pc!Init, HandsInv, Begun
<1>2. HandsInv /\ WordsFinite /\ [Next]_vars => (HandsInv /\ WordsFinite)'
  <2> SUFFICES ASSUME HandsInv, WordsFinite, [Pc!Next]_pcVars
               PROVE  HandsInv' /\ WordsFinite'
    BY CallStep
  <2>1. HandsInv'
    BY AroundKeep, ResolveKeeps, EnterKeeps, CallsKeep, NextArgKeeps, TakeVariableKeeps, TakeGreedyKeeps,
       TakeOneKeeps, FillKeeps DEF Pc!Next, WordsFinite
  <2>2. words' = words
    BY DEF Pc!Next, pcVars, Pc!given, Pc!Look, Pc!MessageCreated, Pc!TimesOut, Pc!Resolve, Pc!Enter, Pc!NoParameters,
           Pc!NextArg, Pc!TakeVariable, Pc!TakeGreedy, Pc!TakeOne, Pc!Fill, Pc!CallFunction, Pc!End
  <2> QED
    BY <2>1, <2>2 DEF WordsFinite
<1> QED
  BY <1>1, <1>2, PTL DEF Spec

\* call_callback hands the first words of a message to the parameters, each once and in their
\* order, whatever the signature that _parse_parameters accepts, as long as no greedy parameter
\* has a default and none is ConsumeRest[tuple[...]].
THEOREM WordsAreInOrder == Spec => []WordsInOrder
BY HandsKept, WordsFollow, PTL

-----------------------------------------------------------------------------
\* The iterator stands on a word or, after a greedy parameter with a default, on one counted from
\* the end; the parameter in turn is one of the function's as long as a word is handed out.
CallTypes ==
    /\ Pc!TypeOK
    /\ inner => param <= Len(params)
    /\ phase = "fill" => ~inner /\ param <= Len(params)

\* The types hold when nothing is handed out in a step.
LEMMA SameCallTypes ==
    ASSUME CallTypes, UNCHANGED <<params, args, index, param, inner, kwargs>>, phase' # "fill",
           phase' \in {"raw", "wait", "ignored", "resolve", "call", "parse", "fill", "python", "called", "error", "done"},
           pcEvents' = pcEvents \/ pcEvents' \in {<< "CommandCompletion" >>, << "CommandError", "CommandCompletion" >>}
    PROVE  CallTypes'
BY DEF CallTypes, Pc!TypeOK

\* What a step that hands something out has to keep.
LEMMA NextCallTypes ==
    ASSUME CallTypes, UNCHANGED <<params, args, pcEvents>>, phase' \in {"parse", "fill", "python", "error"},
           index' \in -Len(args) .. Len(args), param' \in 1 .. (Len(params) + 1), inner' \in BOOLEAN,
           DOMAIN kwargs' \subseteq DOMAIN params,
           inner' => param' <= Len(params), phase' = "fill" => ~inner' /\ param' <= Len(params)
    PROVE  CallTypes'
BY DEF CallTypes, Pc!TypeOK

\* A value by place or by name.
LEMMA GivenTypes ==
    ASSUME NEW p, NEW v, DOMAIN kwargs \subseteq DOMAIN params, param \in DOMAIN params,
           Pc!Give(p, v) \/ kwargs' = Pc!Named(v) \/ kwargs' = kwargs
    PROVE  DOMAIN kwargs' \subseteq DOMAIN params
BY DEF Pc!Give, Pc!Named

\* A greedy parameter leaves the iterator among the words.
LEMMA GreedyTypes ==
    ASSUME CallTypes, HandsInv, Pc!TakeGreedy
    PROVE  CallTypes'
<1>1. /\ params' = params /\ args' = args /\ pcEvents' = pcEvents /\ phase = "parse" /\ inner
      /\ phase' \in {"parse", "error"}
      /\ phase' = "error" => UNCHANGED <<index, param, inner, kwargs>>
  BY DEF Pc!TakeGreedy, Pc!given, Pc!Fail, Pc!parsing
<1>2. /\ Len(args) \in Nat /\ Len(params) \in Nat /\ DOMAIN params = 1 .. Len(params)
      /\ index \in Int /\ -Len(args) <= index /\ index <= Len(args)
      /\ param \in 1 .. Len(params) /\ DOMAIN kwargs \subseteq DOMAIN params
  <2>1. Len(args) \in Nat /\ Len(params) \in Nat /\ DOMAIN params = 1 .. Len(params)
    <3>1. Declared(params) /\ Ascending(args)
      BY DEF HandsInv
    <3> QED
      BY <3>1, Counts DEF Declared
  <2>2. /\ index \in -Len(args) .. Len(args) /\ param \in 1 .. (Len(params) + 1) /\ DOMAIN kwargs \subseteq DOMAIN params
        /\ param <= Len(params)
    BY <1>1 DEF CallTypes, Pc!TypeOK
  <2> QED
    BY <2>1, <2>2
<1>3. CASE phase' = "error"
  BY <1>1, <1>3, SameCallTypes
<1>4. CASE phase' = "parse"
  <2> DEFINE Run(n) == \A i \in 1 .. n : ~Pc!P.free /\ Pc!Takes(Pc!P, <<Pc!Ahead[i]>>)
             taken == CHOOSE n \in 0 .. Len(Pc!Ahead) : Run(n) /\ (n = Len(Pc!Ahead) \/ ~Run(n + 1))
  <2>1. Len(Pc!Ahead) = Len(args) - index + 1 /\ Len(Pc!Ahead) \in Nat
    <3>0. Len(args) - index + 1 \in Nat
      BY <1>2
    <3>1. PICK m \in Nat : m = Len(args) - index + 1
      BY <3>0
    <3>2. Pc!Ahead = [k \in 1 .. m |-> Pc!Word(index - 2 + k)]
      BY <3>1 DEF Pc!Ahead
    <3> QED
      BY <3>1, <3>2
  <2>2. taken \in 0 .. Len(Pc!Ahead)
    <3>1. PICK good : good = {i \in 1 .. Len(Pc!Ahead) : ~Pc!P.free /\ Pc!Takes(Pc!P, <<Pc!Ahead[i]>>)}
      OBVIOUS
    <3>2. PICK n \in 0 .. Len(Pc!Ahead) : 1 .. n \subseteq good /\ (n = Len(Pc!Ahead) \/ n + 1 \notin good)
      BY <2>1, LongestRun
    <3>3. Run(n) /\ (n = Len(Pc!Ahead) \/ ~Run(n + 1))
      BY <2>1, <3>1, <3>2
    <3> QED
      BY <3>3
  <2>3. /\ ~(index - 1 < -Len(args)) /\ index' = Pc!AfterRun(taken) /\ param' = param + 1
        /\ inner' = (Pc!P.default = "some" /\ param' <= Len(params)) /\ kwargs' = kwargs
    BY <1>4 DEF Pc!TakeGreedy, Pc!Fail
  <2> HIDE DEF taken
  <2>4. index' \in -Len(args) .. Len(args)
    BY <1>2, <2>1, <2>2, <2>3 DEF Pc!AfterRun
  <2>5. param' \in 1 .. (Len(params) + 1) /\ inner' \in BOOLEAN /\ (inner' => param' <= Len(params))
    <3>1. param' \in 1 .. (Len(params) + 1)
      BY <1>2, <2>3
    <3>2. inner' \in BOOLEAN
      BY <2>3
    <3>3. inner' => param' <= Len(params)
      BY <2>3
    <3> QED
      BY <3>1, <3>2, <3>3
  <2> QED
    BY <1>1, <1>2, <1>4, <2>3, <2>4, <2>5, NextCallTypes
<1> QED
  BY <1>1, <1>3, <1>4

\* Every step keeps them.
LEMMA CallTypesKept ==
    ASSUME CallTypes, HandsInv, [Pc!Next]_pcVars
    PROVE  CallTypes'
<1>1. /\ Len(args) \in Nat /\ Len(params) \in Nat /\ DOMAIN params = 1 .. Len(params)
      /\ index \in Int /\ -Len(args) <= index /\ index <= Len(args) /\ inner \in BOOLEAN
      /\ param \in 1 .. (Len(params) + 1) /\ DOMAIN kwargs \subseteq DOMAIN params
  <2>1. Len(args) \in Nat /\ Len(params) \in Nat /\ DOMAIN params = 1 .. Len(params)
    <3>1. Declared(params) /\ Ascending(args)
      BY DEF HandsInv
    <3> QED
      BY <3>1, Counts DEF Declared
  <2>2. /\ index \in -Len(args) .. Len(args) /\ param \in 1 .. (Len(params) + 1) /\ DOMAIN kwargs \subseteq DOMAIN params
        /\ inner \in BOOLEAN
    BY DEF CallTypes, Pc!TypeOK
  <2> QED
    BY <2>1, <2>2
<1>2. CASE UNCHANGED pcVars
  BY <1>2 DEF pcVars, CallTypes, Pc!TypeOK
<1>3. CASE Pc!Look \/ Pc!MessageCreated \/ Pc!TimesOut \/ Pc!Enter \/ Pc!NoParameters \/ Pc!CallFunction
  <2>1. UNCHANGED <<params, args, index, param, inner, kwargs, pcEvents>>
    BY <1>3 DEF Pc!Look, Pc!MessageCreated, Pc!TimesOut, Pc!Enter, Pc!NoParameters, Pc!CallFunction, Pc!given, Pc!parsing
  <2>2. phase' \in {"wait", "resolve", "ignored", "parse", "python", "called", "error"}
    BY <1>3 DEF Pc!Look, Pc!MessageCreated, Pc!TimesOut, Pc!Enter, Pc!NoParameters, Pc!CallFunction
  <2> QED
    BY <2>1, <2>2, SameCallTypes
<1>4. CASE Pc!End
  BY <1>4, SameCallTypes DEF Pc!End, Pc!given, Pc!parsing
<1>5. CASE Pc!Resolve
  <2>1. /\ index = 0 /\ param = 1 /\ inner = FALSE /\ kwargs = << >> /\ pcEvents' = pcEvents
        /\ UNCHANGED <<params, index, param, inner, kwargs>> /\ phase' \in {"ignored", "call"}
    BY <1>5 DEF HandsInv, Pc!Resolve, Pc!given, Pc!parsing
  <2>2. Len(args)' \in Nat
    <3>1. Ascending(args)'
      BY <1>5, CallStep, ResolveKeeps DEF HandsInv, WordsFinite
    <3> QED
      BY <3>1 DEF Ascending
  <2>3. index' \in -Len(args)' .. Len(args)'
    BY <2>1, <2>2
  <2> QED
    BY <1>1, <2>1, <2>3 DEF CallTypes, Pc!TypeOK
<1>6. CASE Pc!NextArg
  <2>1. /\ UNCHANGED <<params, args, pcEvents>> /\ phase = "parse" /\ ~inner
        /\ \/ /\ index < Len(args) /\ index' = index + 1 /\ inner' = (param <= Len(params))
              /\ UNCHANGED <<phase, param, kwargs>>
           \/ /\ UNCHANGED <<index, param, inner, kwargs>> /\ phase' \in {"fill", "python", "error"}
              /\ phase' = "fill" => param <= Len(params)
    BY <1>6 DEF Pc!NextArg, Pc!given, Pc!parsing
  <2>2. index' \in -Len(args) .. Len(args)
    BY <1>1, <2>1
  <2>3. inner' \in BOOLEAN /\ (inner' => param' <= Len(params))
    <3>1. CASE UNCHANGED <<inner, param>>
      BY <1>1, <2>1, <3>1
    <3>2. CASE inner' = (param <= Len(params)) /\ param' = param
      <4>1. CASE param <= Len(params)
        <5>1. inner' = TRUE
          BY Zenon, <3>2, <4>1
        <5> QED
          BY <3>2, <4>1, <5>1
      <4>2. CASE ~(param <= Len(params))
        <5>0. (param <= Len(params)) = FALSE
          BY <4>2
        <5>1. inner' = FALSE
          BY Zenon, <3>2, <5>0
        <5> QED
          BY <5>1
      <4> QED
        BY <4>1, <4>2
    <3>3. UNCHANGED <<inner, param>> \/ (inner' = (param <= Len(params)) /\ param' = param)
      BY Zenon, <2>1
    <3> QED
      BY <3>1, <3>2, <3>3
  <2> QED
    BY <1>1, <2>1, <2>2, <2>3, NextCallTypes
<1>7. CASE Pc!TakeVariable \/ Pc!TakeOne
  <2>1. /\ UNCHANGED <<params, args, pcEvents>> /\ phase = "parse" /\ inner /\ phase' \in {"parse", "error"}
        /\ phase' = "error" => UNCHANGED <<index, param, inner, kwargs>>
        /\ phase' = "parse" => /\ index' \in {index, Len(args)} /\ param' = param + 1
                               /\ inner' \in BOOLEAN /\ (inner' => param' <= Len(params))
                               /\ \/ kwargs' = kwargs
                                  \/ \E v : Pc!Give(Pc!P, v)
    BY <1>7 DEF Pc!TakeVariable, Pc!TakeOne, Pc!given, Pc!Fail, Pc!parsing
  <2>2. param \in DOMAIN params
    BY <1>1, <2>1 DEF CallTypes
  <2>3. CASE phase' = "error"
    BY <2>1, <2>3, SameCallTypes
  <2>4. CASE phase' = "parse"
    <3>1. DOMAIN kwargs' \subseteq DOMAIN params
      BY <1>1, <2>1, <2>2, <2>4, GivenTypes
    <3>2. index' \in -Len(args) .. Len(args) /\ param' \in 1 .. (Len(params) + 1)
      BY <1>1, <2>1, <2>2, <2>4
    <3> QED
      BY <2>1, <2>4, <3>1, <3>2, NextCallTypes
  <2> QED
    BY <2>1, <2>3, <2>4
<1>8. CASE Pc!TakeGreedy
  BY <1>8, GreedyTypes
<1>9. CASE Pc!Fill
  <2>1. PICK v : v = Pc!Value(param, << >>)
    OBVIOUS
  <2>2. /\ UNCHANGED <<params, args, pcEvents>> /\ phase = "fill" /\ phase' \in {"fill", "python", "error"}
        /\ phase' = "error" => UNCHANGED <<index, param, inner, kwargs>>
        /\ phase' # "error" => /\ index' = index /\ inner' = inner /\ param' \in {param, param + 1}
                               /\ phase' = "fill" => param' <= Len(params)
                               /\ Pc!Give(Pc!P, v) \/ kwargs' = Pc!Named(v) \/ kwargs' = kwargs
    BY <1>9, <2>1 DEF Pc!Fill, Pc!given, Pc!Fail, Pc!parsing
  <2>3. param \in DOMAIN params /\ ~inner
    BY <1>1, <2>2 DEF CallTypes
  <2>4. CASE phase' = "error"
    BY <2>2, <2>4, SameCallTypes
  <2>5. CASE phase' # "error"
    <3>1. DOMAIN kwargs' \subseteq DOMAIN params
      BY <1>1, <2>2, <2>3, <2>5, GivenTypes
    <3>2. index' \in -Len(args) .. Len(args) /\ param' \in 1 .. (Len(params) + 1)
      BY <1>1, <2>2, <2>3, <2>5
    <3> QED
      BY <1>1, <2>2, <2>3, <2>5, <3>1, <3>2, NextCallTypes
  <2> QED
    BY <2>4, <2>5
<1> QED
  BY <1>2, <1>3, <1>4, <1>5, <1>6, <1>7, <1>8, <1>9 DEF Pc!Next

\* The types of PrefixedCalls, whatever the parameters of the command: the iterator never stands
\* outside the words.
THEOREM PrefixedTypes == Spec => []Pc!TypeOK
<1>1. Init /\ HandsInv => CallTypes
  <2> SUFFICES ASSUME Init, HandsInv
               PROVE  CallTypes
    OBVIOUS
  <2>1. Pc!Init /\ Len(params) \in Nat /\ Len(args) \in Nat
    BY Counts DEF Init, HandsInv
  <2>2. /\ phase = "raw" /\ index = 0 /\ param = 1 /\ inner = FALSE /\ kwargs = << >> /\ pcEvents = << >>
    BY <2>1 DEF Pc!Init
  <2>3. index \in -Len(args) .. Len(args) /\ param \in 1 .. (Len(params) + 1)
    BY <2>1, <2>2
  <2>4. phase \in {"raw", "wait", "ignored", "resolve", "call", "parse", "fill", "python", "called", "error", "done"}
    BY <2>2
  <2>5. DOMAIN kwargs \subseteq DOMAIN params
    BY <2>2
  <2> QED
    BY <2>2, <2>3, <2>4, <2>5 DEF CallTypes, Pc!TypeOK
<1>2. HandsInv /\ CallTypes /\ [Next]_vars => CallTypes'
  BY CallStep, CallTypesKept
<1>3. CallTypes => Pc!TypeOK
  BY DEF CallTypes
<1> QED
  BY <1>1, <1>2, <1>3, HandsKept, PTL DEF Spec

-----------------------------------------------------------------------------
(***************************************************************************)
(* Extensions.                                                             *)
(***************************************************************************)
\* The files whose commands a task is still to remove.
Pending(r) == {r.unloads[i] : i \in DOMAIN r.unloads}

\* The fields of a registry and their types.
Fields(r) ==
    /\ r = [modules |-> r.modules, ext |-> r.ext, commands |-> r.commands, listed |-> r.listed,
            listeners |-> r.listeners, unloads |-> r.unloads, made |-> r.made, failed |-> r.failed,
            ok |-> r.ok]
    /\ r.modules \in [Files -> Sources \cup {None}]
    /\ r.ext \in [Files -> (1 .. r.made) \cup {None}]
    /\ DOMAIN r.listed = Files
    /\ r.unloads \in Seq(Files)
    /\ r.made \in Nat /\ r.failed \subseteq 1 .. r.made /\ r.ok \in BOOLEAN

\* Every name of a command is the command's.
Whole(r, c) == \A n \in Ex!Names(c) : n \in DOMAIN r.commands /\ r.commands[n] = c

\* A listed name is that of a command of the file, which has all its names.
ListedWhole(r) ==
    \A g \in Files : \A n \in r.listed[g] :
        /\ n \in DOMAIN r.commands /\ r.commands[n].name = n /\ r.commands[n].file = g
        /\ Whole(r, r.commands[n])

\* A command that is there is listed, or of an instance whose load failed or that is in X.
Listed(r, X) ==
    \A n \in DOMAIN r.commands :
        LET c == r.commands[n] IN
        /\ n \in Ex!Names(c) /\ c.file \in Files /\ c.owner \in 1 .. r.made
        /\ \/ c.owner \in r.failed \cup X
           \/ c.name \in r.listed[c.file] /\ r.commands[c.name] = c

\* Whose a command and a listener is; an instance of f that is in X is being made.
Accounted(r, f, X) ==
    /\ \A n \in DOMAIN r.commands :
        LET c == r.commands[n] IN
        \/ c.owner \in r.failed \/ c.owner = r.ext[c.file] \/ c.file \in Pending(r)
        \/ c.file = f /\ c.owner \in X
    /\ \A l \in r.listeners :
        \/ l.owner \in r.failed \cup {0} \cup X
        \/ \E g \in Files : r.ext[g] # None /\ l.owner = r.ext[g]

\* No instance is that of two files.
OneFile(r) == \A g, h \in Files : r.ext[g] # None /\ r.ext[g] = r.ext[h] => g = h

Registry(r) == Fields(r) /\ OneFile(r) /\ ListedWhole(r) /\ Listed(r, {}) /\ Accounted(r, None, {})

\* While an instance of f is made.
Loading(r, f) ==
    /\ Fields(r) /\ 1 <= r.made
    /\ ListedWhole(r) /\ Listed(r, IF r.ok THEN {} ELSE {r.made}) /\ Accounted(r, f, {r.made})

\* What registering leaves alone, and that it only adds; but default listeners may go.
Same(r, s) ==
    /\ s.modules = r.modules /\ s.ext = r.ext /\ s.unloads = r.unloads
    /\ s.made = r.made /\ s.failed = r.failed
Grows(r, s) ==
    /\ \A n \in DOMAIN r.commands : n \in DOMAIN s.commands /\ s.commands[n] = r.commands[n]
    /\ \A l \in r.listeners : l.default \/ l \in s.listeners

\* A member is registered.
There(r, b, member) == IF Ex!IsCommand(member) THEN Whole(r, b) ELSE b \in r.listeners

\* All members of an instance are.
AllThere(r, f, owner, members) ==
    \A i \in DOMAIN members : There(r, Ex!Bound(f, owner, i, members[i]), members[i])

-----------------------------------------------------------------------------
\* The data of sources.
LEMMA SourceData ==
    /\ \A s \in Sources : /\ Ex!IsSequence(s.members)
                          /\ \A i \in DOMAIN s.members :
                                Ex!IsCommand(s.members[i]) => Ex!IsSequence(s.members[i].aliases)
    /\ None \notin Nat
    /\ MaxMade \in Nat /\ MaxUnloads \in Nat
BY ExtensionData DEF Ex!SourcesAssumption

\* What add_prefixed_command adds: the names N of c.
Added(r, s, c, N) ==
    /\ N \subseteq Ex!Names(c) /\ N \cap DOMAIN r.commands = {}
    /\ \/ s = [r EXCEPT !.commands = Ex!Put(@, N, c), !.ok = FALSE]
       \/ /\ N = Ex!Names(c)
          /\ s = [r EXCEPT !.commands = Ex!Put(@, N, c), !.listed[c.file] = @ \cup {c.name}]

\* It adds none, the first ones, or all of them and lists the command.
LEMMA CommandAdded ==
    ASSUME NEW r, NEW c, Ex!IsSequence(c.aliases)
    PROVE  Ex!AddCommand(r, c) = [r EXCEPT !.ok = FALSE] \/ \E N : Added(r, Ex!AddCommand(r, c), c, N)
<1>1. CASE c.name \in DOMAIN r.commands
  BY <1>1 DEF Ex!AddCommand
<1>2. CASE c.name \notin DOMAIN r.commands
  <2> DEFINE taken == {i \in DOMAIN c.aliases :
                           c.aliases[i] \in DOMAIN r.commands \cup {c.name} \cup {c.aliases[j] : j \in 1 .. (i - 1)}}
             free == {i \in DOMAIN c.aliases : \A t \in taken : i < t}
             names == {c.name} \cup {c.aliases[i] : i \in free}
  <2>1. Ex!AddCommand(r, c) = IF taken # {} THEN [r EXCEPT !.commands = Ex!Put(@, names, c), !.ok = FALSE]
                              ELSE [r EXCEPT !.commands = Ex!Put(@, names, c), !.listed[c.file] = @ \cup {c.name}]
    BY <1>2 DEF Ex!AddCommand
  <2>2. \A i \in DOMAIN c.aliases : i \in Nat
    BY DEF Ex!IsSequence
  <2>3. \A i \in free : c.aliases[i] \notin DOMAIN r.commands
    <3> SUFFICES ASSUME NEW i \in free, c.aliases[i] \in DOMAIN r.commands PROVE FALSE
      OBVIOUS
    <3>1. i \in taken
      OBVIOUS
    <3>2. i \in Nat /\ i < i
      BY <2>2, <3>1
    <3> QED
      BY <3>2
  <2>4. names \subseteq Ex!Names(c) /\ names \cap DOMAIN r.commands = {}
    BY <1>2, <2>3 DEF Ex!Names
  <2>5. taken = {} => names = Ex!Names(c)
    BY DEF Ex!Names
  <2> HIDE DEF taken, names
  <2>6. Added(r, Ex!AddCommand(r, c), c, names)
    BY <2>1, <2>4, <2>5 DEF Added
  <2> QED
    BY <2>6
<1> QED
  BY <1>1, <1>2

\* A registry of which only ok has changed.
LEMMA OnlyOk ==
    ASSUME NEW r, Fields(r), NEW v \in BOOLEAN
    PROVE  LET s == [r EXCEPT !.ok = v] IN
           /\ Fields(s) /\ Same(r, s) /\ s.ok = v
           /\ s.commands = r.commands /\ s.listed = r.listed /\ s.listeners = r.listeners
<1> DEFINE s == [r EXCEPT !.ok = v]
<1>1. /\ s = [modules |-> r.modules, ext |-> r.ext, commands |-> r.commands, listed |-> r.listed,
             listeners |-> r.listeners, unloads |-> r.unloads, made |-> r.made, failed |-> r.failed,
             ok |-> v]
  BY DEF Fields
<1> HIDE DEF s
<1> QED
  BY <1>1 DEF Fields, Same, s

\* What changes when a command is added.
LEMMA AddedFields ==
    ASSUME NEW r, Fields(r), NEW c, c.file \in Files, NEW N, NEW s, Added(r, s, c, N)
    PROVE  /\ Fields(s) /\ Same(r, s)
           /\ s.commands = Ex!Put(r.commands, N, c) /\ s.listeners = r.listeners
           /\ \/ ~s.ok /\ s.listed = r.listed
              \/ /\ N = Ex!Names(c) /\ s.ok = r.ok
                 /\ s.listed = [r.listed EXCEPT ![c.file] = @ \cup {c.name}]
<1>1. CASE s = [r EXCEPT !.commands = Ex!Put(@, N, c), !.ok = FALSE]
  <2>1. s = [modules |-> r.modules, ext |-> r.ext, commands |-> Ex!Put(r.commands, N, c), listed |-> r.listed,
             listeners |-> r.listeners, unloads |-> r.unloads, made |-> r.made, failed |-> r.failed,
             ok |-> FALSE]
    BY <1>1 DEF Fields
  <2> QED
    BY <2>1 DEF Fields, Same
<1>2. CASE N = Ex!Names(c) /\ s = [r EXCEPT !.commands = Ex!Put(@, N, c), !.listed[c.file] = @ \cup {c.name}]
  <2> DEFINE L == [r.listed EXCEPT ![c.file] = @ \cup {c.name}]
  <2>1. s = [modules |-> r.modules, ext |-> r.ext, commands |-> Ex!Put(r.commands, N, c), listed |-> L,
             listeners |-> r.listeners, unloads |-> r.unloads, made |-> r.made, failed |-> r.failed,
             ok |-> r.ok]
    BY <1>2 DEF Fields
  <2>2. DOMAIN L = Files
    BY DEF Fields
  <2> HIDE DEF L
  <2>3. Fields(s) /\ Same(r, s)
    BY <2>1, <2>2 DEF Fields, Same
  <2> QED
    BY <1>2, <2>1, <2>3 DEF L
<1> QED
  BY <1>1, <1>2 DEF Added

\* What was whole is, when the commands grow.
LEMMA StaysWhole ==
    ASSUME NEW r, NEW s, Grows(r, s), NEW c, Whole(r, c)
    PROVE  Whole(s, c)
BY DEF Grows, Whole

\* A command of the instance being made is added.
LEMMA CommandKept ==
    ASSUME NEW r, NEW f \in Files, Loading(r, f), r.ok,
           NEW c, c.file = f, c.owner = r.made, NEW N, NEW s, Added(r, s, c, N)
    PROVE  Loading(s, f) /\ Same(r, s) /\ Grows(r, s) /\ (s.ok => Whole(s, c))
<1>1. /\ Fields(s) /\ Same(r, s)
      /\ s.commands = Ex!Put(r.commands, N, c) /\ s.listeners = r.listeners
      /\ \/ ~s.ok /\ s.listed = r.listed
         \/ /\ N = Ex!Names(c) /\ s.ok
            /\ s.listed = [r.listed EXCEPT ![f] = @ \cup {c.name}]
  BY AddedFields DEF Loading
<1>2. /\ DOMAIN s.commands = DOMAIN r.commands \cup N
      /\ \A n \in DOMAIN r.commands : s.commands[n] = r.commands[n]
      /\ \A n \in N : s.commands[n] = c
  <2>1. N \cap DOMAIN r.commands = {}
    BY DEF Added
  <2>2. s.commands = Ex!Put(r.commands, N, c)
    BY <1>1
  <2> QED
    BY <2>1, <2>2 DEF Ex!Put
<1>3. Grows(r, s)
  BY <1>1, <1>2 DEF Grows
<1>4. s.ok => Whole(s, c)
  BY <1>1, <1>2 DEF Whole
<1>5. r.made \in Nat /\ 1 <= r.made /\ DOMAIN r.listed = Files
  BY DEF Loading, Fields
<1>6. ListedWhole(s)
  <2> SUFFICES ASSUME NEW g \in Files, NEW n \in s.listed[g]
               PROVE  /\ n \in DOMAIN s.commands /\ s.commands[n].name = n /\ s.commands[n].file = g
                      /\ Whole(s, s.commands[n])
    BY DEF ListedWhole
  <2>1. CASE n \in r.listed[g]
    <3>1. /\ n \in DOMAIN r.commands /\ r.commands[n].name = n /\ r.commands[n].file = g
          /\ Whole(r, r.commands[n])
      BY <2>1 DEF Loading, ListedWhole
    <3> QED
      BY <3>1, <1>2, <1>3, StaysWhole
  <2>2. CASE n \notin r.listed[g]
    <3>1. g = f /\ n = c.name /\ s.ok /\ N = Ex!Names(c)
      BY <2>2, <1>1, <1>5
    <3>2. n \in N
      BY <3>1 DEF Ex!Names
    <3> QED
      BY <3>1, <3>2, <1>2, <1>4
  <2> QED
    BY <2>1, <2>2
<1>7. Listed(s, IF s.ok THEN {} ELSE {s.made})
  <2> SUFFICES ASSUME NEW n \in DOMAIN s.commands
               PROVE  LET d == s.commands[n] IN
                      /\ n \in Ex!Names(d) /\ d.file \in Files /\ d.owner \in 1 .. s.made
                      /\ \/ d.owner \in s.failed \cup IF s.ok THEN {} ELSE {s.made}
                         \/ d.name \in s.listed[d.file] /\ s.commands[d.name] = d
    BY DEF Listed
  <2>1. CASE n \in DOMAIN r.commands
    <3> DEFINE d == r.commands[n]
    <3>1. /\ n \in Ex!Names(d) /\ d.file \in Files /\ d.owner \in 1 .. r.made
          /\ d.owner \in r.failed \/ (d.name \in r.listed[d.file] /\ r.commands[d.name] = d)
      BY <2>1 DEF Loading, Listed
    <3>2. s.commands[n] = d
      BY <2>1, <1>2
    <3>3. \A g \in Files : r.listed[g] \subseteq s.listed[g]
      BY <1>1, <1>5
    <3>4. d.name \in r.listed[d.file] => d.name \in DOMAIN r.commands
      BY <3>1 DEF Loading, ListedWhole
    <3> HIDE DEF d
    <3>5. d.owner \in s.failed \/ (d.name \in s.listed[d.file] /\ s.commands[d.name] = d)
      BY <3>1, <3>3, <3>4, <1>1, <1>2 DEF Same
    <3> QED
      BY <3>1, <3>2, <3>5, <1>1 DEF Same
  <2>2. CASE n \in N
    <3>1. n \in Ex!Names(c) /\ s.commands[n] = c /\ c.owner \in 1 .. s.made /\ s.made = c.owner
      BY <2>2, <1>1, <1>2, <1>5 DEF Same, Added
    <3>2. s.ok => c.name \in s.listed[f] /\ s.commands[c.name] = c
      <4>1. c.name \in Ex!Names(c)
        BY DEF Ex!Names
      <4> QED
        BY <4>1, <1>1, <1>2, <1>5
    <3> QED
      BY <3>1, <3>2
  <2> QED
    BY <2>1, <2>2, <1>2
<1>8. Accounted(s, f, {s.made})
  <2>1. Pending(s) = Pending(r)
    BY <1>1 DEF Same, Pending
  <2>2. \A n \in DOMAIN r.commands :
            \/ r.commands[n].owner \in r.failed \/ r.commands[n].owner = r.ext[r.commands[n].file]
            \/ r.commands[n].file \in Pending(r)
            \/ r.commands[n].file = f /\ r.commands[n].owner \in {r.made}
    BY DEF Loading, Accounted
  <2>3. \A n \in DOMAIN s.commands :
            \/ s.commands[n].owner \in s.failed \/ s.commands[n].owner = s.ext[s.commands[n].file]
            \/ s.commands[n].file \in Pending(s)
            \/ s.commands[n].file = f /\ s.commands[n].owner \in {s.made}
    BY <2>1, <2>2, <1>1, <1>2 DEF Same
  <2>4. \A l \in s.listeners : \/ l.owner \in s.failed \cup {0} \cup {s.made}
                               \/ \E g \in Files : s.ext[g] # None /\ l.owner = s.ext[g]
    BY <1>1 DEF Same, Loading, Accounted
  <2> QED
    BY <2>3, <2>4 DEF Accounted
<1> QED
  BY <1>1, <1>3, <1>4, <1>5, <1>6, <1>7, <1>8 DEF Loading, Same

\* A listener of the instance being made is added.
LEMMA ListenerKept ==
    ASSUME NEW r, NEW f \in Files, Loading(r, f), r.ok, NEW l, l.owner = r.made, ~l.default
    PROVE  LET s == Ex!AddListener(r, l) IN
           Loading(s, f) /\ Same(r, s) /\ Grows(r, s) /\ s.ok /\ l \in s.listeners
<1> DEFINE s == Ex!AddListener(r, l)
           L == IF \E x \in r.listeners \cup {l} : x.disables THEN {x \in r.listeners \cup {l} : ~x.default}
                ELSE r.listeners \cup {l}
<1>1. s = [modules |-> r.modules, ext |-> r.ext, commands |-> r.commands, listed |-> r.listed,
           listeners |-> L, unloads |-> r.unloads, made |-> r.made, failed |-> r.failed, ok |-> r.ok]
  <2>1. s = [r EXCEPT !.listeners = L]
    BY DEF Ex!AddListener
  <2>2. Fields(r)
    BY DEF Loading
  <2> HIDE DEF s, L
  <2> QED
    BY <2>1, <2>2 DEF Fields
<1>2. l \in L /\ L \subseteq r.listeners \cup {l} /\ \A x \in r.listeners : x.default \/ x \in L
  OBVIOUS
<1> HIDE DEF s, L
<1>3. Fields(s) /\ Same(r, s) /\ Grows(r, s) /\ s.ok /\ s.commands = r.commands /\ s.listed = r.listed /\ s.listeners = L
  BY <1>1, <1>2 DEF Loading, Fields, Same, Grows
<1>4. 1 <= s.made /\ ListedWhole(s) /\ Listed(s, IF s.ok THEN {} ELSE {s.made})
  BY <1>3 DEF Loading, Same, ListedWhole, Listed, Whole
<1>5. Accounted(s, f, {s.made})
  <2>1. \A n \in DOMAIN s.commands :
            LET c == s.commands[n] IN
            \/ c.owner \in s.failed \/ c.owner = s.ext[c.file] \/ c.file \in Pending(s)
            \/ c.file = f /\ c.owner \in {s.made}
    BY <1>3 DEF Loading, Same, Accounted, Pending
  <2>2. \A x \in s.listeners : \/ x.owner \in s.failed \cup {0} \cup {s.made}
                               \/ \E g \in Files : s.ext[g] # None /\ x.owner = s.ext[g]
    BY <1>2, <1>3 DEF Loading, Same, Accounted
  <2> QED
    BY <2>1, <2>2 DEF Accounted
<1> QED
  BY <1>2, <1>3, <1>4, <1>5 DEF Loading, s

\* What a command or listener of an instance is bound to.
LEMMA BoundFields ==
    ASSUME NEW f, NEW owner, NEW i, NEW member
    PROVE  LET b == Ex!Bound(f, owner, i, member) IN
           /\ b.owner = owner
           /\ Ex!IsCommand(member) => b.aliases = member.aliases /\ b.file = f
           /\ ~Ex!IsCommand(member) => ~b.default
BY DEF Ex!Bound

\* What is there stays when the registry grows.
LEMMA StaysThere ==
    ASSUME NEW r, NEW s, Grows(r, s), NEW f, NEW owner, NEW i, NEW member,
           There(r, Ex!Bound(f, owner, i, member), member)
    PROVE  There(s, Ex!Bound(f, owner, i, member), member)
<1> DEFINE b == Ex!Bound(f, owner, i, member)
<1>1. ~Ex!IsCommand(member) => ~b.default
  BY BoundFields
<1> HIDE DEF b
<1>2. There(r, b, member)
  BY DEF b
<1>3. There(s, b, member)
  BY <1>1, <1>2, StaysWhole DEF There, Grows
<1> QED
  BY <1>3 DEF b

\* A registry that stays as it is grows.
LEMMA GrowsAsItIs ==
    /\ \A r : Same(r, r) /\ Grows(r, r)
    /\ \A r, s, t : Same(r, s) /\ Same(s, t) => Same(r, t)
    /\ \A r, s, t : Grows(r, s) /\ Grows(s, t) => Grows(r, t)
BY DEF Same, Grows

\* One member.
LEMMA MemberKept ==
    ASSUME NEW r, NEW f \in Files, Loading(r, f), NEW i, NEW member,
           Ex!IsCommand(member) => Ex!IsSequence(member.aliases)
    PROVE  LET s == Ex!Register(r, f, i, member) IN
           /\ Loading(s, f) /\ Same(r, s) /\ Grows(r, s)
           /\ s.ok => r.ok /\ There(s, Ex!Bound(f, r.made, i, member), member)
<1> DEFINE b == Ex!Bound(f, r.made, i, member)
           s == Ex!Register(r, f, i, member)
<1>1. CASE ~r.ok
  <2>1. s = r
    BY <1>1 DEF Ex!Register
  <2> QED
    BY <1>1, <2>1, GrowsAsItIs
<1>2. CASE r.ok /\ Ex!IsCommand(member)
  <2>1. s = Ex!AddCommand(r, b)
    BY <1>2 DEF Ex!Register
  <2>2. b.owner = r.made /\ b.file = f /\ Ex!IsSequence(b.aliases)
    BY <1>2, BoundFields
  <2> HIDE DEF b, s
  <2>3. CASE s = [r EXCEPT !.ok = FALSE]
    <3>1. /\ Fields(s) /\ Same(r, s) /\ ~s.ok
          /\ s.commands = r.commands /\ s.listed = r.listed /\ s.listeners = r.listeners
      BY <2>3, OnlyOk DEF Loading
    <3>2. Grows(r, s)
      BY <3>1 DEF Grows
    <3>3. ListedWhole(s) /\ 1 <= s.made
      BY <3>1 DEF Loading, Same, ListedWhole, Whole
    <3>4. Listed(s, {s.made})
      BY <1>2, <3>1 DEF Loading, Same, Listed
    <3>5. Accounted(s, f, {s.made})
      BY <3>1 DEF Loading, Same, Accounted, Pending
    <3> QED
      BY <3>1, <3>2, <3>3, <3>4, <3>5 DEF Loading, s
  <2>4. CASE \E N : Added(r, s, b, N)
    <3>1. PICK N : Added(r, s, b, N)
      BY <2>4
    <3>2. Loading(s, f) /\ Same(r, s) /\ Grows(r, s) /\ (s.ok => Whole(s, b))
      BY <1>2, <2>2, <3>1, CommandKept
    <3> QED
      BY <1>2, <3>2 DEF There, s, b
  <2> QED
    BY <2>1, <2>2, <2>3, <2>4, CommandAdded
<1>3. CASE r.ok /\ ~Ex!IsCommand(member)
  <2>1. s = Ex!AddListener(r, b)
    BY <1>3 DEF Ex!Register
  <2>2. b.owner = r.made /\ ~b.default
    BY <1>3, BoundFields
  <2> HIDE DEF b, s
  <2>3. Loading(s, f) /\ Same(r, s) /\ Grows(r, s) /\ s.ok /\ b \in s.listeners
    BY <1>3, <2>1, <2>2, ListenerKept
  <2> QED
    BY <1>3, <2>3 DEF There, s, b
<1> QED
  BY <1>1, <1>2, <1>3

-----------------------------------------------------------------------------
\* The loop of __new__: what is registered after each member.
Turns(g, r, f, members, n) ==
    /\ g = [i \in 0 .. n |-> g[i]] /\ g[0] = r
    /\ \A i \in 1 .. n : g[i] = Ex!Register(g[i - 1], f, i, members[i])

\* It goes through all of them.
LEMMA TurnsExist ==
    ASSUME NEW r, NEW f, NEW members, NEW n \in Nat
    PROVE  \E g : Turns(g, r, f, members, n)
<1> DEFINE S == {m \in 0 .. n : ~ \E g : Turns(g, r, f, members, m)}
<1> SUFFICES S = {}
  OBVIOUS
<1> SUFFICES ASSUME S # {} PROVE FALSE
  OBVIOUS
<1>1. PICK m \in S : \A k \in S : m <= k
  <2>1. S \subseteq 0 .. n
    OBVIOUS
  <2> HIDE DEF S
  <2> QED
    BY <2>1, LeastExists
<1>2. m \in 0 .. n /\ ~ \E g : Turns(g, r, f, members, m)
  OBVIOUS
<1>3. CASE m = 0
  <2>1. Turns([i \in 0 .. 0 |-> r], r, f, members, 0)
    BY DEF Turns
  <2> QED
    BY <1>2, <1>3, <2>1
<1>4. CASE m # 0
  <2>1. m - 1 \in 0 .. n /\ m - 1 \notin S
    BY <1>1, <1>2, <1>4
  <2>2. PICK h : Turns(h, r, f, members, m - 1)
    BY <2>1
  <2> DEFINE g == [i \in 0 .. m |-> IF i = m THEN Ex!Register(h[m - 1], f, m, members[m]) ELSE h[i]]
  <2>3. g = [i \in 0 .. m |-> g[i]] /\ g[0] = r
    BY <1>2, <1>4, <2>2 DEF Turns
  <2>4. \A i \in 1 .. m : g[i] = Ex!Register(g[i - 1], f, i, members[i])
    <3> SUFFICES ASSUME NEW i \in 1 .. m PROVE g[i] = Ex!Register(g[i - 1], f, i, members[i])
      OBVIOUS
    <3>1. i - 1 \in 0 .. m /\ i \in 0 .. m /\ i - 1 # m /\ g[i - 1] = h[i - 1]
      BY <1>2
    <3>2. CASE i = m
      BY <3>1, <3>2
    <3>3. CASE i # m
      <4>1. i \in 1 .. (m - 1) /\ g[i] = h[i]
        BY <3>1, <3>3, <1>2
      <4> HIDE DEF g
      <4> QED
        BY <4>1, <3>1, <2>2 DEF Turns
    <3> QED
      BY <3>2, <3>3
  <2> HIDE DEF g
  <2>5. Turns(g, r, f, members, m)
    BY <2>3, <2>4 DEF Turns
  <2> QED
    BY <2>5, <1>2
<1> QED
  BY <1>3, <1>4

\* RegisterAll is its last turn.
LEMMA LastTurn ==
    ASSUME NEW r, NEW f, NEW members, Len(members) \in Nat
    PROVE  \E g : /\ Turns(g, r, f, members, Len(members))
                  /\ Ex!RegisterAll(r, f, members) = g[Len(members)]
<1> DEFINE n == Len(members)
           F(g) == [i \in 0 .. n |-> IF i = 0 THEN r ELSE Ex!Register(g[i - 1], f, i, members[i])]
           after == CHOOSE g : g = F(g)
<1>1. Ex!RegisterAll(r, f, members) = after[n]
  BY DEF Ex!RegisterAll
<1>2. PICK h : Turns(h, r, f, members, n)
  BY TurnsExist
<1>3. after = F(after)
  <2>1. h = [i \in 0 .. n |-> IF i = 0 THEN r ELSE Ex!Register(h[i - 1], f, i, members[i])]
    <3>1. \A i \in 0 .. n : h[i] = IF i = 0 THEN r ELSE Ex!Register(h[i - 1], f, i, members[i])
      BY <1>2 DEF Turns
    <3>2. h = [i \in 0 .. n |-> h[i]]
      BY <1>2 DEF Turns
    <3> QED
      BY <3>1, <3>2
  <2> QED
    BY <2>1
<1> HIDE DEF after
<1>4. Turns(after, r, f, members, n)
  <2>1. after = [i \in 0 .. n |-> after[i]] /\ after[0] = r
    BY <1>3
  <2>2. \A i \in 1 .. n : after[i] = Ex!Register(after[i - 1], f, i, members[i])
    BY <1>3
  <2> QED
    BY <2>1, <2>2 DEF Turns
<1> QED
  BY <1>1, <1>4

\* What is so after m members were registered, from r on.
Through(s, r, f, members, m) ==
    /\ Loading(s, f) /\ Same(r, s) /\ Grows(r, s)
    /\ s.ok => \A i \in 1 .. m : There(s, Ex!Bound(f, r.made, i, members[i]), members[i])

\* One turn more.
LEMMA TurnKeeps ==
    ASSUME NEW r, NEW f \in Files, NEW members, NEW s, NEW m \in Nat, Through(s, r, f, members, m),
           Ex!IsCommand(members[m + 1]) => Ex!IsSequence(members[m + 1].aliases)
    PROVE  Through(Ex!Register(s, f, m + 1, members[m + 1]), r, f, members, m + 1)
<1> DEFINE t == Ex!Register(s, f, m + 1, members[m + 1])
<1>1. /\ Loading(t, f) /\ Same(s, t) /\ Grows(s, t)
      /\ t.ok => s.ok /\ There(t, Ex!Bound(f, s.made, m + 1, members[m + 1]), members[m + 1])
  BY MemberKept DEF Through
<1> HIDE DEF t
<1>2. Same(r, t) /\ Grows(r, t) /\ s.made = r.made
  BY <1>1, GrowsAsItIs DEF Through, Same
<1>3. ASSUME t.ok, NEW i \in 1 .. (m + 1)
      PROVE  There(t, Ex!Bound(f, r.made, i, members[i]), members[i])
  <2>1. CASE i = m + 1
    BY <2>1, <1>1, <1>2, <1>3
  <2>2. CASE i # m + 1
    <3>1. There(s, Ex!Bound(f, r.made, i, members[i]), members[i])
      BY <2>2, <1>1, <1>3 DEF Through
    <3> QED
      BY <3>1, <1>1, StaysThere
  <2> QED
    BY <2>1, <2>2
<1> QED
  BY <1>1, <1>2, <1>3 DEF Through, t

\* All of them.
LEMMA AllTurnsKeep ==
    ASSUME NEW r, NEW f \in Files, Loading(r, f), NEW members, Ex!IsSequence(members),
           \A i \in DOMAIN members : Ex!IsCommand(members[i]) => Ex!IsSequence(members[i].aliases)
    PROVE  Through(Ex!RegisterAll(r, f, members), r, f, members, Len(members))
<1> DEFINE n == Len(members)
<1>1. n \in Nat /\ DOMAIN members = 1 .. n
  BY DEF Ex!IsSequence
<1>2. PICK g : Turns(g, r, f, members, n) /\ Ex!RegisterAll(r, f, members) = g[n]
  BY <1>1, LastTurn
<1> HIDE DEF n
<1> DEFINE S == {m \in 0 .. n : ~Through(g[m], r, f, members, m)}
<1>3. S = {}
  <2> SUFFICES ASSUME S # {} PROVE FALSE
    OBVIOUS
  <2>1. PICK m \in S : \A k \in S : m <= k
    <3>1. S \in SUBSET Nat
      BY <1>1
    <3> HIDE DEF S
    <3> QED
      BY <3>1, LeastExists
  <2>2. m \in 0 .. n /\ ~Through(g[m], r, f, members, m)
    OBVIOUS
  <2>3. CASE m = 0
    <3>1. Through(r, r, f, members, 0)
      BY GrowsAsItIs DEF Through
    <3> QED
      BY <3>1, <2>2, <2>3, <1>2 DEF Turns
  <2>4. CASE m # 0
    <3>1. m - 1 \in 0 .. n /\ m - 1 \in Nat /\ (m - 1) + 1 = m /\ m - 1 \notin S
      BY <2>1, <2>2, <2>4, <1>1
    <3>2. Through(g[m - 1], r, f, members, m - 1)
      BY <3>1
    <3>3. Ex!IsCommand(members[m]) => Ex!IsSequence(members[m].aliases)
      BY <2>2, <2>4, <1>1
    <3>4. Through(Ex!Register(g[m - 1], f, m, members[m]), r, f, members, m)
      <4> DEFINE k == m - 1
      <4>1. k \in Nat /\ m = k + 1 /\ Through(g[k], r, f, members, k)
        BY <3>1, <3>2
      <4> HIDE DEF k
      <4>2. Through(Ex!Register(g[k], f, k + 1, members[k + 1]), r, f, members, k + 1)
        BY <4>1, <3>3, TurnKeeps
      <4> QED
        BY <4>1, <4>2, <3>1 DEF k
    <3>5. m \in 1 .. n
      BY <2>2, <2>4, <1>1
    <3> QED
      BY <3>4, <3>5, <2>2, <1>2 DEF Turns
  <2> QED
    BY <2>3, <2>4
<1>4. n \in 0 .. n
  BY <1>1
<1> HIDE DEF S
<1>5. Through(g[n], r, f, members, n)
  BY <1>3, <1>4 DEF S
<1> QED
  BY <1>2, <1>5 DEF n

-----------------------------------------------------------------------------
\* A registry of which only ok has changed is one.
LEMMA RegistryOk ==
    ASSUME NEW r, Registry(r), NEW v \in BOOLEAN
    PROVE  LET s == [r EXCEPT !.ok = v] IN
           /\ Registry(s) /\ Same(r, s) /\ s.ok = v
           /\ s.commands = r.commands /\ s.listed = r.listed /\ s.listeners = r.listeners
<1> DEFINE s == [r EXCEPT !.ok = v]
<1>1. /\ Fields(s) /\ Same(r, s) /\ s.ok = v
      /\ s.commands = r.commands /\ s.listed = r.listed /\ s.listeners = r.listeners
  BY OnlyOk DEF Registry
<1> HIDE DEF s
<1>2. Registry(s)
  BY <1>1 DEF Registry, Same, OneFile, ListedWhole, Listed, Accounted, Whole, Pending
<1> QED
  BY <1>1, <1>2 DEF s

\* A registry with an instance more, of which nothing is there yet.
LEMMA LoadingBegins ==
    ASSUME NEW r, Registry(r), r.ok, NEW f \in Files
    PROVE  LET s == [r EXCEPT !.made = r.made + 1] IN
           /\ Loading(s, f) /\ s.modules = r.modules /\ s.ext = r.ext /\ s.unloads = r.unloads
           /\ s.made = r.made + 1 /\ s.failed = r.failed /\ s.ok
           /\ s.commands = r.commands /\ s.listeners = r.listeners
<1> DEFINE s == [r EXCEPT !.made = r.made + 1]
<1>1. /\ Fields(r) /\ ListedWhole(r) /\ Listed(r, {}) /\ Accounted(r, None, {})
      /\ r.made \in Nat
  BY DEF Registry, Fields
<1>2. s = [modules |-> r.modules, ext |-> r.ext, commands |-> r.commands, listed |-> r.listed,
           listeners |-> r.listeners, unloads |-> r.unloads, made |-> r.made + 1, failed |-> r.failed, ok |-> r.ok]
  <2> DEFINE k == r.made + 1
  <2>1. s = [r EXCEPT !.made = k]
    OBVIOUS
  <2> HIDE DEF s, k
  <2>2. s = [modules |-> r.modules, ext |-> r.ext, commands |-> r.commands, listed |-> r.listed,
             listeners |-> r.listeners, unloads |-> r.unloads, made |-> k, failed |-> r.failed, ok |-> r.ok]
    BY <1>1, <2>1 DEF Fields
  <2> QED
    BY <2>2 DEF k
<1> HIDE DEF s
<1>3. /\ s.modules = r.modules /\ s.ext = r.ext /\ s.unloads = r.unloads
      /\ s.made = r.made + 1 /\ s.failed = r.failed /\ s.ok
      /\ s.commands = r.commands /\ s.listed = r.listed /\ s.listeners = r.listeners
  BY <1>2
<1>4. Fields(s)
  <2>1. 1 .. r.made \subseteq 1 .. s.made /\ s.made \in Nat
    BY <1>1, <1>3
  <2>2. s.ext \in [Files -> (1 .. s.made) \cup {None}] /\ s.failed \subseteq 1 .. s.made
    BY <2>1, <1>1, <1>3 DEF Fields
  <2> QED
    BY <2>1, <2>2, <1>1, <1>2 DEF Fields
<1>5. ListedWhole(s)
  BY <1>1, <1>3 DEF ListedWhole, Whole
<1>6. Listed(s, {})
  BY <1>1, <1>3 DEF Listed
<1>7. Accounted(s, f, {s.made})
  BY <1>1, <1>3 DEF Accounted, Pending
<1> QED
  BY <1>1, <1>3, <1>4, <1>5, <1>6, <1>7 DEF Loading, s

\* The registry t when the instance of f made in s is done: v says that it did not raise.
Done(s, t, f, v) ==
    /\ t = [modules |-> s.modules,
            ext |-> IF s.ok THEN [s.ext EXCEPT ![f] = s.made] ELSE s.ext,
            commands |-> s.commands, listed |-> s.listed, listeners |-> s.listeners,
            unloads |-> s.unloads, made |-> s.made,
            failed |-> IF v THEN s.failed ELSE s.failed \cup {s.made},
            ok |-> v]
    /\ v \in BOOLEAN /\ (v => s.ok)

\* Its fields.
LEMMA DoneFields ==
    ASSUME NEW s, NEW f \in Files, Loading(s, f), NEW v, NEW t, Done(s, t, f, v)
    PROVE  /\ Fields(t) /\ t.modules = s.modules /\ t.unloads = s.unloads /\ t.made = s.made
           /\ t.commands = s.commands /\ t.listed = s.listed /\ t.listeners = s.listeners /\ t.ok = v
           /\ s.failed \subseteq t.failed /\ (~v => s.made \in t.failed)
           /\ \A g \in Files \ {f} : t.ext[g] = s.ext[g]
           /\ t.ext[f] = IF s.ok THEN s.made ELSE s.ext[f]
<1>1. Fields(s) /\ s.made \in 1 .. s.made
  BY DEF Loading, Fields
<1>2. t.ext = IF s.ok THEN [s.ext EXCEPT ![f] = s.made] ELSE s.ext
  BY DEF Done
<1>3. t.failed = IF v THEN s.failed ELSE s.failed \cup {s.made}
  BY DEF Done
<1>4. /\ t.modules = s.modules /\ t.unloads = s.unloads /\ t.made = s.made
      /\ t.commands = s.commands /\ t.listed = s.listed /\ t.listeners = s.listeners /\ t.ok = v
  BY DEF Done
<1>5. t.ext \in [Files -> (1 .. t.made) \cup {None}]
  BY <1>1, <1>2, <1>4 DEF Fields
<1>6. t.failed \subseteq 1 .. t.made
  BY <1>1, <1>3, <1>4 DEF Fields
<1>7. t = [modules |-> t.modules, ext |-> t.ext, commands |-> t.commands, listed |-> t.listed,
           listeners |-> t.listeners, unloads |-> t.unloads, made |-> t.made, failed |-> t.failed,
           ok |-> t.ok]
  BY DEF Done
<1>8. Fields(t)
  BY <1>1, <1>4, <1>5, <1>6, <1>7 DEF Fields, Done
<1> QED
  BY <1>1, <1>2, <1>3, <1>4, <1>8 DEF Fields

\* It is in order.
LEMMA DoneRegistry ==
    ASSUME NEW s, NEW f \in Files, Loading(s, f), s.ext[f] = None, OneFile(s),
           \A g \in Files : s.ext[g] # s.made, NEW v, NEW t, Done(s, t, f, v)
    PROVE  Registry(t)
<1>1. /\ Fields(t) /\ t.modules = s.modules /\ t.unloads = s.unloads /\ t.made = s.made
      /\ t.commands = s.commands /\ t.listed = s.listed /\ t.listeners = s.listeners /\ t.ok = v
      /\ s.failed \subseteq t.failed /\ (~v => s.made \in t.failed)
      /\ \A g \in Files \ {f} : t.ext[g] = s.ext[g]
      /\ t.ext[f] = IF s.ok THEN s.made ELSE s.ext[f]
  BY DoneFields
<1>2. /\ ListedWhole(s) /\ Listed(s, IF s.ok THEN {} ELSE {s.made}) /\ Accounted(s, f, {s.made})
      /\ s.made \in Nat /\ (v => s.ok)
  BY DEF Loading, Fields, Done
<1>3. OneFile(t)
  <2> SUFFICES ASSUME NEW g \in Files, NEW h \in Files, t.ext[g] # None, t.ext[g] = t.ext[h] PROVE g = h
    BY DEF OneFile
  <2>1. CASE g = f \/ h = f
    BY <2>1, <1>1
  <2>2. CASE g # f /\ h # f
    BY <2>2, <1>1 DEF OneFile
  <2> QED
    BY <2>1, <2>2
<1>4. ListedWhole(t)
  BY <1>1, <1>2 DEF ListedWhole, Whole
<1>5. Listed(t, {})
  <2> SUFFICES ASSUME NEW n \in DOMAIN t.commands
               PROVE  LET c == t.commands[n] IN
                      /\ n \in Ex!Names(c) /\ c.file \in Files /\ c.owner \in 1 .. t.made
                      /\ c.owner \in t.failed \/ (c.name \in t.listed[c.file] /\ t.commands[c.name] = c)
    BY DEF Listed
  <2> DEFINE c == t.commands[n]
  <2>1. /\ n \in Ex!Names(c) /\ c.file \in Files /\ c.owner \in 1 .. t.made
        /\ \/ c.owner \in s.failed \cup (IF s.ok THEN {} ELSE {s.made})
           \/ c.name \in t.listed[c.file] /\ t.commands[c.name] = c
    BY <1>1, <1>2 DEF Listed
  <2> HIDE DEF c
  <2>2. c.owner \in t.failed \/ (c.name \in t.listed[c.file] /\ t.commands[c.name] = c)
    BY <2>1, <1>1, <1>2
  <2> QED
    BY <2>1, <2>2 DEF c
<1>6. Accounted(t, None, {})
  <2>1. ASSUME NEW n \in DOMAIN t.commands
        PROVE  LET c == t.commands[n] IN
               c.owner \in t.failed \/ c.owner = t.ext[c.file] \/ c.file \in Pending(t)
    <3> DEFINE c == t.commands[n]
    <3>1. /\ \/ c.owner \in s.failed \/ c.owner = s.ext[c.file] \/ c.file \in Pending(s)
             \/ c.file = f /\ c.owner \in {s.made}
          /\ c.file \in Files /\ c.owner \in 1 .. s.made
      BY <1>1, <1>2 DEF Accounted, Listed
    <3>2. Pending(s) = Pending(t)
      BY <1>1 DEF Pending
    <3> HIDE DEF c
    <3>3. c.owner # None
      BY <3>1, <1>2, SourceData
    <3>4. c.owner \in t.failed \/ c.owner = t.ext[c.file] \/ c.file \in Pending(t)
      BY <3>1, <3>2, <3>3, <1>1, <1>2
    <3> QED
      BY <3>4 DEF c
  <2>2. ASSUME NEW l \in t.listeners
        PROVE  l.owner \in t.failed \cup {0} \/ \E g \in Files : t.ext[g] # None /\ l.owner = t.ext[g]
    <3>1. \/ l.owner \in s.failed \cup {0} \cup {s.made}
          \/ \E g \in Files : s.ext[g] # None /\ l.owner = s.ext[g]
      BY <1>1, <1>2 DEF Accounted
    <3>2. CASE \E g \in Files : s.ext[g] # None /\ l.owner = s.ext[g]
      BY <3>2, <1>1
    <3>3. CASE l.owner = s.made /\ s.ok
      <4>1. t.ext[f] = l.owner /\ t.ext[f] # None
        BY <3>3, <1>1, <1>2, SourceData
      <4> QED
        BY <4>1
    <3>4. CASE l.owner = s.made /\ ~s.ok
      BY <3>4, <1>1, <1>2
    <3> QED
      BY <3>1, <3>2, <3>3, <3>4, <1>1
  <2> QED
    BY <2>1, <2>2 DEF Accounted
<1> QED
  BY <1>1, <1>3, <1>4, <1>5, <1>6 DEF Registry

\* A registry in which two fields have changed.
LEMMA ExtAndOk ==
    ASSUME NEW s, Fields(s), NEW f, NEW o, NEW v
    PROVE  [s EXCEPT !.ext[f] = o, !.ok = v]
           = [modules |-> s.modules, ext |-> [s.ext EXCEPT ![f] = o], commands |-> s.commands, listed |-> s.listed,
              listeners |-> s.listeners, unloads |-> s.unloads, made |-> s.made, failed |-> s.failed, ok |-> v]
<1> DEFINE E == [s.ext EXCEPT ![f] = o]
           w == [s EXCEPT !.ext = E]
<1>1. [s EXCEPT !.ext[f] = o, !.ok = v] = [[s EXCEPT !.ext = E] EXCEPT !.ok = v]
  OBVIOUS
<1>2. s = [modules |-> s.modules, ext |-> s.ext, commands |-> s.commands, listed |-> s.listed,
           listeners |-> s.listeners, unloads |-> s.unloads, made |-> s.made, failed |-> s.failed, ok |-> s.ok]
  BY DEF Fields
<1> HIDE DEF E
<1>3. w = [modules |-> s.modules, ext |-> E, commands |-> s.commands, listed |-> s.listed,
           listeners |-> s.listeners, unloads |-> s.unloads, made |-> s.made, failed |-> s.failed, ok |-> s.ok]
  BY <1>2
<1>4. [w EXCEPT !.ok = v] = [modules |-> s.modules, ext |-> E, commands |-> s.commands, listed |-> s.listed,
                             listeners |-> s.listeners, unloads |-> s.unloads, made |-> s.made, failed |-> s.failed,
                             ok |-> v]
  <2> HIDE DEF w
  <2> QED
    BY <1>3
<1> QED
  BY <1>1, <1>4 DEF E

\* What constructing an instance of f makes of r.
Made(r, t, f, members) ==
    /\ Registry(t) /\ Grows(r, t)
    /\ t.modules = r.modules /\ t.unloads = r.unloads
    /\ r.made <= t.made /\ t.made <= r.made + 1
    /\ \A g \in Files \ {f} : t.ext[g] = r.ext[g]
    /\ t.ok => AllThere(t, f, t.ext[f], members)

\* An instance is made, whether it raises or not.
LEMMA Constructed ==
    ASSUME NEW r, Registry(r), r.ok, NEW f \in Files, NEW source \in Sources
    PROVE  Made(r, Ex!Construct(r, f, source), f, source.members)
<1> DEFINE t == Ex!Construct(r, f, source)
<1>1. CASE r.ext[f] # None
  <2>1. t = [r EXCEPT !.ok = FALSE]
    BY <1>1 DEF Ex!Construct
  <2> HIDE DEF t
  <2>2. /\ Registry(t) /\ Same(r, t) /\ ~t.ok
        /\ t.commands = r.commands /\ t.listeners = r.listeners
    BY <2>1, RegistryOk
  <2>3. r.made \in Nat
    BY DEF Registry, Fields
  <2> QED
    BY <2>2, <2>3 DEF Made, Same, Grows, t
<1>2. CASE r.ext[f] = None
  <2> DEFINE owner == r.made + 1
             q == [r EXCEPT !.made = owner]
             s == Ex!RegisterAll(q, f, source.members)
             v == s.ok /\ source.ends = "whole"
  <2>1. /\ Loading(q, f) /\ q.modules = r.modules /\ q.ext = r.ext /\ q.unloads = r.unloads
        /\ q.made = r.made + 1 /\ q.failed = r.failed /\ q.ok
        /\ q.commands = r.commands /\ q.listeners = r.listeners
    BY LoadingBegins
  <2>2. t = LET w == IF s.ok THEN [s EXCEPT !.ext[f] = owner, !.ok = (source.ends = "whole")] ELSE s IN
            IF w.ok THEN w ELSE [w EXCEPT !.failed = @ \cup {owner}]
    BY <1>2 DEF Ex!Construct
  <2> HIDE DEF t, q
  <2>3. Through(s, q, f, source.members, Len(source.members))
    BY <2>1, AllTurnsKeep, SourceData
  <2> HIDE DEF s
  <2>4. Loading(s, f) /\ Fields(s) /\ Same(q, s) /\ Grows(q, s) /\ s.made = owner
    BY <2>1, <2>3 DEF Through, Same, Loading
  <2> HIDE DEF owner
  <2>5. Done(s, t, f, v)
    <3>1. CASE ~s.ok
      <4>1. s.ok = FALSE /\ t = [s EXCEPT !.failed = @ \cup {owner}]
        BY <2>2, <2>4, <3>1 DEF Fields
      <4> QED
        BY <4>1, <2>4 DEF Done, Fields
    <3> DEFINE W == source.ends = "whole"
               w == [s EXCEPT !.ext[f] = owner, !.ok = W]
    <3>2. W \in BOOLEAN /\ v = (s.ok /\ W)
      OBVIOUS
    <3>3. s.ok => t = IF w.ok THEN w ELSE [w EXCEPT !.failed = @ \cup {owner}]
      BY <2>2
    <3> HIDE DEF W, v
    <3>4. w = [modules |-> s.modules, ext |-> [s.ext EXCEPT ![f] = owner], commands |-> s.commands, listed |-> s.listed,
               listeners |-> s.listeners, unloads |-> s.unloads, made |-> s.made, failed |-> s.failed, ok |-> W]
      <4>1. Fields(s)
        BY <2>4
      <4> QED
        BY <4>1, ExtAndOk, Zenon
    <3> HIDE DEF w
    <3>5. CASE s.ok /\ W
      <4>1. s.ok = TRUE /\ t = w /\ v = W
        BY <3>2, <3>3, <3>4, <3>5, <2>4 DEF Fields
      <4> QED
        BY <4>1, <2>4, <3>2, <3>4, <3>5 DEF Done
    <3>6. CASE s.ok /\ ~W
      <4>1. s.ok = TRUE /\ v = W /\ t = [w EXCEPT !.failed = @ \cup {owner}]
        BY <3>2, <3>3, <3>4, <3>6, <2>4 DEF Fields
      <4>2. [w EXCEPT !.failed = @ \cup {owner}]
            = [modules |-> s.modules, ext |-> [s.ext EXCEPT ![f] = owner], commands |-> s.commands, listed |-> s.listed,
               listeners |-> s.listeners, unloads |-> s.unloads, made |-> s.made, failed |-> s.failed \cup {owner}, ok |-> W]
        BY <3>4
      <4> QED
        BY <4>1, <4>2, <2>4, <3>2, <3>6 DEF Done
    <3> QED
      BY <3>1, <3>5, <3>6 DEF v
  <2> HIDE DEF v
  <2>6. r.made \in Nat /\ r.ext \in [Files -> (1 .. r.made) \cup {None}] /\ OneFile(r)
    BY DEF Registry, Fields
  <2>7. s.ext = r.ext /\ (\A g \in Files : s.ext[g] # s.made) /\ OneFile(s)
    BY <2>1, <2>4, <2>6, SourceData DEF Same, OneFile, owner
  <2>8. Registry(t)
    BY <1>2, <2>4, <2>5, <2>7, DoneRegistry
  <2>9. /\ t.modules = s.modules /\ t.unloads = s.unloads /\ t.made = s.made
        /\ t.commands = s.commands /\ t.listeners = s.listeners /\ t.ok = v
        /\ \A g \in Files \ {f} : t.ext[g] = s.ext[g]
        /\ t.ext[f] = IF s.ok THEN s.made ELSE s.ext[f]
    BY <2>4, <2>5, DoneFields
  <2>10. Grows(r, t)
    BY <2>1, <2>4, <2>9 DEF Grows
  <2>11. t.ok => AllThere(t, f, t.ext[f], source.members)
    <3> SUFFICES ASSUME t.ok, NEW i \in DOMAIN source.members
                 PROVE  There(t, Ex!Bound(f, t.ext[f], i, source.members[i]), source.members[i])
      BY DEF AllThere
    <3>1. s.ok /\ t.ext[f] = q.made
      BY <2>1, <2>4, <2>5, <2>9 DEF Done, owner
    <3>2. i \in 1 .. Len(source.members)
      <4>1. Ex!IsSequence(source.members)
        BY SourceData
      <4> QED
        BY <4>1 DEF Ex!IsSequence
    <3>3. There(s, Ex!Bound(f, t.ext[f], i, source.members[i]), source.members[i])
      BY <2>3, <3>1, <3>2 DEF Through
    <3>4. Grows(s, t)
      BY <2>9 DEF Grows
    <3> QED
      BY <3>3, <3>4, StaysThere
  <2> QED
    BY <2>1, <2>4, <2>6, <2>7, <2>8, <2>9, <2>10, <2>11 DEF Made, Same, t, owner
<1>3. r.ext[f] = None \/ r.ext[f] # None
  OBVIOUS
<1> QED
  BY <1>1, <1>2, <1>3

-----------------------------------------------------------------------------
\* The file's module, when it is loaded, has all its members registered.
SoundFile(r, f) == r.modules[f] # None => AllThere(r, f, r.ext[f], r.modules[f].members)

\* From r to t the other files than f stay as they are.
Others(r, t, f) ==
    /\ \A g \in Files \ {f} : t.modules[g] = r.modules[g] /\ (SoundFile(r, g) => SoundFile(t, g))
    /\ Pending(t) \subseteq Pending(r) \cup {f}

\* A call about f.
Sound(r, t, f) == Registry(t) /\ Others(r, t, f) /\ (SoundFile(r, f) => SoundFile(t, f))

\* Two calls, one after the other.
LEMMA OthersAgain ==
    ASSUME NEW r, NEW s, NEW t, NEW f, Others(r, s, f), Others(s, t, f)
    PROVE  Others(r, t, f)
BY DEF Others

\* A file that is registered stays so when the registry grows.
LEMMA SoundGrows ==
    ASSUME NEW r, NEW t, Grows(r, t), NEW g, t.modules[g] = r.modules[g], t.ext[g] = r.ext[g], SoundFile(r, g)
    PROVE  SoundFile(t, g)
<1> SUFFICES ASSUME r.modules[g] # None, NEW i \in DOMAIN r.modules[g].members
             PROVE  There(t, Ex!Bound(g, r.ext[g], i, r.modules[g].members[i]), r.modules[g].members[i])
  BY DEF SoundFile, AllThere
<1>1. There(r, Ex!Bound(g, r.ext[g], i, r.modules[g].members[i]), r.modules[g].members[i])
  BY DEF SoundFile, AllThere
<1> QED
  BY <1>1, StaysThere

\* A call that raises at once.
LEMMA Refused ==
    ASSUME NEW r, Registry(r), NEW f
    PROVE  LET t == [r EXCEPT !.ok = FALSE] IN
           Sound(r, t, f) /\ t.made = r.made /\ t.unloads = r.unloads /\ t.modules = r.modules
<1> DEFINE t == [r EXCEPT !.ok = FALSE]
<1>1. /\ Registry(t) /\ Same(r, t)
      /\ t.commands = r.commands /\ t.listeners = r.listeners
  BY RegistryOk
<1> HIDE DEF t
<1>2. Grows(r, t)
  BY <1>1 DEF Grows
<1>3. \A g : SoundFile(r, g) => SoundFile(t, g)
  BY <1>1, <1>2, SoundGrows DEF Same
<1> QED
  BY <1>1, <1>3 DEF Sound, Others, Pending, Same, t

\* The module of a file is set.
LEMMA ModuleSet ==
    ASSUME NEW r, Registry(r), NEW f \in Files, NEW m \in Sources \cup {None}
    PROVE  LET t == [r EXCEPT !.modules[f] = m] IN
           /\ Registry(t) /\ t.modules = [r.modules EXCEPT ![f] = m]
           /\ t.ext = r.ext /\ t.commands = r.commands /\ t.listeners = r.listeners
           /\ t.unloads = r.unloads /\ t.made = r.made /\ t.ok = r.ok
<1> DEFINE t == [r EXCEPT !.modules[f] = m]
           mods == [r.modules EXCEPT ![f] = m]
<1>1. t = [r EXCEPT !.modules = mods]
  OBVIOUS
<1>2. r = [modules |-> r.modules, ext |-> r.ext, commands |-> r.commands, listed |-> r.listed,
           listeners |-> r.listeners, unloads |-> r.unloads, made |-> r.made, failed |-> r.failed, ok |-> r.ok]
  BY DEF Registry, Fields
<1>3. mods \in [Files -> Sources \cup {None}]
  BY DEF Registry, Fields
<1> HIDE DEF t, mods
<1>4. t = [modules |-> mods, ext |-> r.ext, commands |-> r.commands, listed |-> r.listed,
           listeners |-> r.listeners, unloads |-> r.unloads, made |-> r.made, failed |-> r.failed, ok |-> r.ok]
  BY <1>1, <1>2
<1>5. /\ t.modules = mods /\ t.ext = r.ext /\ t.commands = r.commands /\ t.listed = r.listed /\ t.listeners = r.listeners
      /\ t.unloads = r.unloads /\ t.made = r.made /\ t.failed = r.failed /\ t.ok = r.ok
  BY <1>4
<1>6. Fields(t)
  BY <1>3, <1>4, <1>5 DEF Registry, Fields
<1>7. Registry(t)
  BY <1>5, <1>6 DEF Registry, OneFile, ListedWhole, Listed, Accounted, Whole, Pending
<1> QED
  BY <1>5, <1>7 DEF t, mods

\* __load_module.
LEMMA ModuleLoaded ==
    ASSUME NEW r, Registry(r), r.ok, NEW f \in Files, NEW source \in Sources, r.modules[f] = None
    PROVE  LET t == Ex!LoadModule(r, f, source) IN
           /\ Sound(r, t, f) /\ SoundFile(t, f)
           /\ r.made <= t.made /\ t.made <= r.made + 1 /\ t.unloads = r.unloads
<1> DEFINE s == Ex!Construct(r, f, source)
           t == Ex!LoadModule(r, f, source)
<1>1. Made(r, s, f, source.members)
  BY Constructed
<1>2. t = IF s.ok THEN [s EXCEPT !.modules[f] = source] ELSE s
  BY DEF Ex!LoadModule
<1> HIDE DEF s, t
<1>3. s.ok \/ ~s.ok
  OBVIOUS
<1>4. /\ Registry(t) /\ t.ext = s.ext /\ t.commands = s.commands /\ t.listeners = s.listeners
      /\ t.unloads = s.unloads /\ t.made = s.made
      /\ \A g \in Files \ {f} : t.modules[g] = s.modules[g]
  <2>1. CASE s.ok
    <3>1. t = [s EXCEPT !.modules[f] = source]
      BY <1>2, <2>1
    <3>2. /\ Registry(t) /\ t.modules = [s.modules EXCEPT ![f] = source]
          /\ t.ext = s.ext /\ t.commands = s.commands /\ t.listeners = s.listeners
          /\ t.unloads = s.unloads /\ t.made = s.made
      BY <3>1, <1>1, ModuleSet DEF Made
    <3> QED
      BY <3>2, <1>1 DEF Made, Registry, Fields
  <2>2. CASE ~s.ok
    BY <1>1, <1>2, <2>2 DEF Made
  <2> QED
    BY <2>1, <2>2
<1>5. t.modules[f] = IF s.ok THEN source ELSE s.modules[f]
  <2>1. CASE s.ok
    <3>1. t = [s EXCEPT !.modules[f] = source]
      BY <1>2, <2>1
    <3>2. t.modules = [s.modules EXCEPT ![f] = source]
      BY <3>1, <1>1, ModuleSet DEF Made
    <3>3. DOMAIN s.modules = Files
      BY <1>1 DEF Made, Registry, Fields
    <3> QED
      BY <3>2, <3>3, <2>1
  <2>2. CASE ~s.ok
    BY <1>2, <2>2
  <2> QED
    BY <2>1, <2>2
<1>6. Grows(r, t)
  BY <1>1, <1>4 DEF Made, Grows
<1>7. Others(r, t, f)
  <2>1. ASSUME NEW g \in Files \ {f}, SoundFile(r, g)
        PROVE  SoundFile(t, g)
    <3>1. t.modules[g] = r.modules[g] /\ t.ext[g] = r.ext[g]
      BY <1>1, <1>4 DEF Made
    <3> QED
      BY <3>1, <2>1, <1>6, SoundGrows
  <2> QED
    BY <2>1, <1>1, <1>4 DEF Others, Made, Pending
<1>8. SoundFile(t, f)
  <2>1. CASE s.ok
    <3>1. AllThere(s, f, s.ext[f], source.members) /\ t.modules[f] = source
      BY <1>1, <1>5, <2>1 DEF Made
    <3>2. AllThere(t, f, t.ext[f], source.members)
      BY <3>1, <1>4 DEF AllThere, There, Whole
    <3> QED
      BY <3>1, <3>2 DEF SoundFile
  <2>2. CASE ~s.ok
    BY <2>2, <1>1, <1>5 DEF Made, SoundFile
  <2> QED
    BY <2>1, <2>2
<1> QED
  BY <1>1, <1>4, <1>7, <1>8 DEF Sound, Made, t

\* load_extension.
LEMMA ExtensionLoaded ==
    ASSUME NEW r, Registry(r), r.ok, NEW f \in Files, file[f] \in Sources
    PROVE  LET t == Ex!LoadExtension(r, f) IN
           /\ Sound(r, t, f)
           /\ r.made <= t.made /\ t.made <= r.made + 1 /\ t.unloads = r.unloads
<1> DEFINE t == Ex!LoadExtension(r, f)
<1>1. r.made \in Nat
  BY DEF Registry, Fields
<1>2. CASE r.modules[f] # None \/ file[f].ends = "import"
  <2>1. t = [r EXCEPT !.ok = FALSE]
    BY <1>2 DEF Ex!LoadExtension
  <2> QED
    BY <2>1, <1>1, Refused
<1>3. CASE r.modules[f] = None /\ file[f].ends # "import"
  <2>1. t = Ex!LoadModule(r, f, file[f])
    BY <1>3 DEF Ex!LoadExtension
  <2> QED
    BY <2>1, <1>3, ModuleLoaded
<1> QED
  BY <1>2, <1>3

\* Extension.drop.
LEMMA Dropped ==
    ASSUME NEW r, Registry(r), NEW f \in Files, r.ext[f] # None
    PROVE  LET s == Ex!Drop(r, f) IN
           /\ Registry(s) /\ s.modules = r.modules /\ s.unloads = Append(r.unloads, f)
           /\ s.made = r.made /\ s.ok = r.ok
           /\ \A g \in Files \ {f} : SoundFile(r, g) => SoundFile(s, g)
<1> DEFINE s == Ex!Drop(r, f)
           L == {l \in r.listeners : l.owner # r.ext[f]}
           E == [r.ext EXCEPT ![f] = None]
           U == Append(r.unloads, f)
           v == [r EXCEPT !.listeners = L]
           w == [v EXCEPT !.ext = E]
<1>1. s = [w EXCEPT !.unloads = U]
  BY DEF Ex!Drop
<1>2. r = [modules |-> r.modules, ext |-> r.ext, commands |-> r.commands, listed |-> r.listed,
           listeners |-> r.listeners, unloads |-> r.unloads, made |-> r.made, failed |-> r.failed, ok |-> r.ok]
  BY DEF Registry, Fields
<1>3. /\ E \in [Files -> (1 .. r.made) \cup {None}] /\ U \in Seq(Files) /\ r.made \in Nat
      /\ E[f] = None /\ \A g \in Files \ {f} : E[g] = r.ext[g]
  BY DEF Registry, Fields
<1>4. {U[i] : i \in DOMAIN U} = Pending(r) \cup {f}
  <2>1. r.unloads \in Seq(Files)
    BY DEF Registry, Fields
  <2>2. /\ Len(r.unloads) \in Nat /\ DOMAIN r.unloads = 1 .. Len(r.unloads)
        /\ DOMAIN U = 1 .. (Len(r.unloads) + 1) /\ U[Len(r.unloads) + 1] = f
        /\ \A i \in 1 .. Len(r.unloads) : U[i] = r.unloads[i]
    BY <2>1
  <2> HIDE DEF U
  <2>3. DOMAIN U = DOMAIN r.unloads \cup {Len(r.unloads) + 1}
    BY <2>2
  <2> QED
    BY <2>2, <2>3 DEF Pending
<1> HIDE DEF s, E, U, L
<1>5. v = [modules |-> r.modules, ext |-> r.ext, commands |-> r.commands, listed |-> r.listed,
           listeners |-> L, unloads |-> r.unloads, made |-> r.made, failed |-> r.failed, ok |-> r.ok]
  BY <1>2
<1> HIDE DEF v
<1>6. w = [modules |-> r.modules, ext |-> E, commands |-> r.commands, listed |-> r.listed,
           listeners |-> L, unloads |-> r.unloads, made |-> r.made, failed |-> r.failed, ok |-> r.ok]
  BY <1>5
<1> HIDE DEF w
<1>7. s = [modules |-> r.modules, ext |-> E, commands |-> r.commands, listed |-> r.listed,
           listeners |-> L, unloads |-> U, made |-> r.made, failed |-> r.failed, ok |-> r.ok]
  BY <1>1, <1>6
<1>8. /\ s.modules = r.modules /\ s.ext = E /\ s.commands = r.commands /\ s.listed = r.listed /\ s.listeners = L
      /\ s.unloads = U /\ s.made = r.made /\ s.failed = r.failed /\ s.ok = r.ok
  BY <1>7
<1>9. Fields(s)
  BY <1>3, <1>7, <1>8 DEF Registry, Fields
<1>10. OneFile(s)
  <2> SUFFICES ASSUME NEW g \in Files, NEW h \in Files, E[g] # None, E[g] = E[h] PROVE g = h
    BY <1>8 DEF OneFile
  <2>1. g # f /\ h # f
    BY <1>3
  <2> QED
    BY <2>1, <1>3 DEF Registry, OneFile
<1>11. ListedWhole(s) /\ Listed(s, {})
  BY <1>8 DEF Registry, ListedWhole, Listed, Whole
<1>12. Accounted(s, None, {})
  <2>1. ASSUME NEW n \in DOMAIN s.commands
        PROVE  LET c == s.commands[n] IN
               c.owner \in s.failed \/ c.owner = s.ext[c.file] \/ c.file \in Pending(s)
    <3> DEFINE c == s.commands[n]
    <3>1. /\ c.owner \in r.failed \/ c.owner = r.ext[c.file] \/ c.file \in Pending(r)
          /\ c.file \in Files
      BY <1>8 DEF Registry, Accounted, Listed
    <3>2. Pending(s) = Pending(r) \cup {f}
      BY <1>4, <1>8 DEF Pending
    <3> HIDE DEF c
    <3>3. c.owner \in s.failed \/ c.owner = s.ext[c.file] \/ c.file \in Pending(s)
      BY <3>1, <3>2, <1>3, <1>8
    <3> QED
      BY <3>3 DEF c
  <2>2. ASSUME NEW l \in s.listeners
        PROVE  l.owner \in s.failed \cup {0} \/ \E g \in Files : s.ext[g] # None /\ l.owner = s.ext[g]
    <3>1. l \in r.listeners /\ l.owner # r.ext[f]
      BY <2>2, <1>8 DEF L
    <3>2. l.owner \in r.failed \cup {0} \/ \E g \in Files : r.ext[g] # None /\ l.owner = r.ext[g]
      BY <3>1 DEF Registry, Accounted
    <3>3. ASSUME NEW g \in Files, r.ext[g] # None, l.owner = r.ext[g]
          PROVE  s.ext[g] # None /\ l.owner = s.ext[g]
      <4>1. g # f
        BY <3>1, <3>3
      <4> QED
        BY <4>1, <3>3, <1>3, <1>8
    <3> QED
      BY <3>2, <3>3, <1>8
  <2> QED
    BY <2>1, <2>2 DEF Accounted
<1>13. ASSUME NEW g \in Files \ {f}, SoundFile(r, g)
       PROVE  SoundFile(s, g)
  <2> SUFFICES ASSUME s.modules[g] # None, NEW i \in DOMAIN s.modules[g].members
               PROVE  There(s, Ex!Bound(g, s.ext[g], i, s.modules[g].members[i]), s.modules[g].members[i])
    BY DEF SoundFile, AllThere
  <2> DEFINE m == r.modules[g].members[i]
             b == Ex!Bound(g, r.ext[g], i, m)
  <2>1. There(r, b, m)
    BY <1>8, <1>13 DEF SoundFile, AllThere
  <2>2. s.ext[g] = r.ext[g] /\ r.ext[g] # r.ext[f]
    BY <1>3, <1>8 DEF Registry, OneFile
  <2>3. b.owner = r.ext[g]
    BY BoundFields
  <2> HIDE DEF m, b
  <2>4. There(s, b, m)
    BY <2>1, <2>2, <2>3, <1>8 DEF There, Whole, L
  <2> QED
    BY <2>2, <2>4, <1>8 DEF m, b
<1> QED
  BY <1>8, <1>9, <1>10, <1>11, <1>12, <1>13 DEF Registry, s, U

\* unload_extension.
LEMMA ExtensionUnloaded ==
    ASSUME NEW r, Registry(r), NEW f \in Files, NEW force \in BOOLEAN
    PROVE  LET t == Ex!UnloadExtension(r, f, force) IN
           /\ Sound(r, t, f) /\ t.made = r.made
           /\ t.unloads = r.unloads \/ t.unloads = Append(r.unloads, f)
           /\ t.modules[f] = None
           /\ force \/ r.modules[f] # None => t.ok = r.ok
<1> DEFINE t == Ex!UnloadExtension(r, f, force)
           s == IF r.ext[f] # None THEN Ex!Drop(r, f) ELSE r
<1>1. CASE r.modules[f] = None /\ ~force
  <2>1. t = [r EXCEPT !.ok = FALSE]
    BY <1>1 DEF Ex!UnloadExtension
  <2> QED
    BY <2>1, <1>1, Refused
<1>2. CASE r.modules[f] # None \/ force
  <2>1. t = [s EXCEPT !.modules[f] = None]
    BY <1>2 DEF Ex!UnloadExtension
  <2>2. /\ Registry(s) /\ s.modules = r.modules /\ s.made = r.made /\ s.ok = r.ok
        /\ s.unloads = r.unloads \/ s.unloads = Append(r.unloads, f)
        /\ \A g \in Files \ {f} : SoundFile(r, g) => SoundFile(s, g)
    <3>1. CASE r.ext[f] # None
      BY <3>1, Dropped
    <3>2. CASE r.ext[f] = None
      BY <3>2
    <3> QED
      BY <3>1, <3>2
  <2> HIDE DEF s, t
  <2>3. /\ Registry(t) /\ t.modules = [s.modules EXCEPT ![f] = None]
        /\ t.ext = s.ext /\ t.commands = s.commands /\ t.listeners = s.listeners
        /\ t.unloads = s.unloads /\ t.made = s.made /\ t.ok = s.ok
    <3> DEFINE k == None
    <3>1. k \in Sources \cup {None} /\ t = [s EXCEPT !.modules[f] = k]
      BY <2>1
    <3> HIDE DEF k
    <3>2. /\ Registry(t) /\ t.modules = [s.modules EXCEPT ![f] = k]
          /\ t.ext = s.ext /\ t.commands = s.commands /\ t.listeners = s.listeners
          /\ t.unloads = s.unloads /\ t.made = s.made /\ t.ok = s.ok
      BY <3>1, <2>2, ModuleSet
    <3> QED
      BY <3>2 DEF k
  <2>4. t.modules[f] = None /\ \A g \in Files \ {f} : t.modules[g] = r.modules[g]
    BY <2>2, <2>3 DEF Registry, Fields
  <2>5. ASSUME NEW g \in Files \ {f}, SoundFile(r, g)
        PROVE  SoundFile(t, g)
    BY <2>2, <2>3, <2>4, <2>5 DEF SoundFile, AllThere, There, Whole
  <2>6. SoundFile(t, f)
    BY <2>4 DEF SoundFile
  <2>7. Pending(t) \subseteq Pending(r) \cup {f}
    <3>1. r.unloads \in Seq(Files)
      BY DEF Registry, Fields
    <3> QED
      BY <3>1, <2>2, <2>3 DEF Pending
  <2> QED
    BY <2>2, <2>3, <2>4, <2>5, <2>6, <2>7 DEF Sound, Others, t
<1> QED
  BY <1>1, <1>2

\* reload_extension.
LEMMA ExtensionReloaded ==
    ASSUME NEW r, Registry(r), r.ok, NEW f \in Files, file[f] \in Sources
    PROVE  LET t == Ex!ReloadExtension(r, f) IN
           /\ Sound(r, t, f) /\ r.made <= t.made /\ t.made <= r.made + 2
           /\ t.unloads \in Seq(Files) /\ Len(t.unloads) <= Len(r.unloads) + 2
<1> DEFINE t == Ex!ReloadExtension(r, f)
<1>1. r.made \in Nat /\ r.unloads \in Seq(Files) /\ Len(r.unloads) \in Nat
  BY DEF Registry, Fields
<1>2. CASE r.modules[f] = None
  <2>1. t = Ex!LoadExtension(r, f)
    BY <1>2 DEF Ex!ReloadExtension
  <2> HIDE DEF t
  <2>2. /\ Sound(r, t, f) /\ r.made <= t.made /\ t.made <= r.made + 1 /\ t.unloads = r.unloads
    BY <2>1, ExtensionLoaded
  <2>3. t.made \in Nat
    BY <2>2 DEF Sound, Registry, Fields
  <2> QED
    BY <2>2, <2>3, <1>1 DEF t
<1>3. CASE r.modules[f] # None
  <2> DEFINE u == Ex!UnloadExtension(r, f, FALSE)
             s == Ex!LoadExtension(u, f)
             v == [s EXCEPT !.ok = TRUE]
             w == Ex!UnloadExtension(v, f, TRUE)
             q == Ex!LoadModule(w, f, r.modules[f])
  <2>1. t = IF s.ok THEN s ELSE q
    BY <1>3 DEF Ex!ReloadExtension
  <2> HIDE DEF t
  <2>2. /\ Sound(r, u, f) /\ u.made = r.made /\ u.ok
        /\ u.unloads = r.unloads \/ u.unloads = Append(r.unloads, f)
        /\ u.modules[f] = None
    BY <1>3, ExtensionUnloaded
  <2> HIDE DEF u
  <2>3. /\ Sound(u, s, f) /\ u.made <= s.made /\ s.made <= u.made + 1 /\ s.unloads = u.unloads
    BY <2>2, ExtensionLoaded DEF Sound
  <2> HIDE DEF s
  <2>4. /\ Registry(v) /\ Same(s, v) /\ v.ok
        /\ v.commands = s.commands /\ v.listeners = s.listeners
    BY <2>3, RegistryOk DEF Sound
  <2> HIDE DEF v
  <2>5. Others(s, v, f)
    <3>1. Grows(s, v)
      BY <2>4 DEF Grows
    <3>2. \A g : SoundFile(s, g) => SoundFile(v, g)
      BY <3>1, <2>4, SoundGrows DEF Same
    <3> QED
      BY <3>2, <2>4 DEF Others, Same, Pending
  <2>6. /\ Sound(v, w, f) /\ w.made = v.made /\ w.ok
        /\ w.unloads = v.unloads \/ w.unloads = Append(v.unloads, f)
        /\ w.modules[f] = None
    BY <2>4, ExtensionUnloaded
  <2> HIDE DEF w
  <2>7. r.modules[f] \in Sources
    BY <1>3 DEF Registry, Fields
  <2>8. /\ Sound(w, q, f) /\ SoundFile(q, f)
        /\ w.made <= q.made /\ q.made <= w.made + 1 /\ q.unloads = w.unloads
    BY <2>6, <2>7, ModuleLoaded DEF Sound
  <2> HIDE DEF q
  <2>9. /\ s.made \in Nat /\ q.made \in Nat /\ w.made = s.made
        /\ r.made <= s.made /\ s.made <= r.made + 1 /\ s.made <= q.made /\ q.made <= s.made + 1
    BY <2>2, <2>3, <2>4, <2>6, <2>8 DEF Sound, Registry, Fields, Same
  <2>10. /\ s.unloads \in Seq(Files) /\ Len(s.unloads) \in {Len(r.unloads), Len(r.unloads) + 1}
         /\ q.unloads \in Seq(Files) /\ Len(q.unloads) \in {Len(s.unloads), Len(s.unloads) + 1}
    <3>1. \A z : z \in Seq(Files) => /\ Append(z, f) \in Seq(Files) /\ Len(z) \in Nat
                                     /\ Len(Append(z, f)) = Len(z) + 1
      OBVIOUS
    <3>2. s.unloads = r.unloads \/ s.unloads = Append(r.unloads, f)
      BY <2>2, <2>3
    <3>3. q.unloads = s.unloads \/ q.unloads = Append(s.unloads, f)
      BY <2>4, <2>6, <2>8 DEF Same
    <3> QED
      BY <1>1, <3>1, <3>2, <3>3
  <2>11. CASE s.ok
    <3>1. Others(r, s, f) /\ SoundFile(s, f)
      BY <2>2, <2>3, OthersAgain DEF Sound, SoundFile
    <3>2. t = s
      BY <2>1, <2>11
    <3> QED
      BY <3>1, <3>2, <2>3, <2>9, <2>10, <1>1 DEF Sound, t
  <2>12. CASE ~s.ok
    <3>1. Others(r, s, f)
      BY <2>2, <2>3, OthersAgain DEF Sound
    <3>2. Others(r, v, f)
      BY <3>1, <2>5, OthersAgain
    <3>3. Others(r, w, f)
      BY <3>2, <2>6, OthersAgain DEF Sound
    <3>4. Others(r, q, f)
      BY <3>3, <2>8, OthersAgain DEF Sound
    <3>5. t = q
      BY <2>1, <2>12
    <3> QED
      BY SMTT(60), <3>4, <3>5, <2>8, <2>9, <2>10, <1>1 DEF Sound, t
  <2> QED
    BY <2>11, <2>12
<1> QED
  BY <1>2, <1>3

\* What the task of an unload event makes of a registry.
Handled(r) == [Ex!RemoveListed(r, Head(r.unloads)) EXCEPT !.unloads = Tail(@)]

\* The commands it removes, and their names.
Gone(r) == {r.commands[n] : n \in r.listed[Head(r.unloads)] \cap DOMAIN r.commands}
GoneNames(r) == UNION {Ex!Names(c) : c \in Gone(r)}

\* The fields it changes.
LEMMA HandledFields ==
    ASSUME NEW r, Registry(r), r.unloads # << >>
    PROVE  LET t == Handled(r) IN
           /\ Fields(t)
           /\ t.modules = r.modules /\ t.ext = r.ext /\ t.listeners = r.listeners /\ t.made = r.made
           /\ t.failed = r.failed /\ t.unloads = Tail(r.unloads)
           /\ DOMAIN t.commands = DOMAIN r.commands \ GoneNames(r)
           /\ \A n \in DOMAIN t.commands : t.commands[n] = r.commands[n]
           /\ \A g \in Files : t.listed[g] = r.listed[g] \ {c.name : c \in {d \in Gone(r) : d.file = g}}
<1> DEFINE f == Head(r.unloads)
           t == Handled(r)
           C == Ex!Less(r.commands, GoneNames(r))
           D == [g \in Files |-> r.listed[g] \ {c.name : c \in {d \in Gone(r) : d.file = g}}]
           U == Tail(r.unloads)
           v == Ex!RemoveListed(r, f)
           w == [r EXCEPT !.commands = C]
<1>1. v = [w EXCEPT !.listed = D]
  BY DEF Ex!RemoveListed, Gone, GoneNames
<1>2. t = [v EXCEPT !.unloads = Tail(v.unloads)]
  BY DEF Handled
<1>3. r = [modules |-> r.modules, ext |-> r.ext, commands |-> r.commands, listed |-> r.listed,
           listeners |-> r.listeners, unloads |-> r.unloads, made |-> r.made, failed |-> r.failed, ok |-> r.ok]
  BY DEF Registry, Fields
<1>4. DOMAIN D = Files /\ U \in Seq(Files)
  BY DEF Registry, Fields
<1>5. DOMAIN C = DOMAIN r.commands \ GoneNames(r) /\ \A n \in DOMAIN C : C[n] = r.commands[n]
  BY DEF Ex!Less
<1>6. \A g \in Files : D[g] = r.listed[g] \ {c.name : c \in {d \in Gone(r) : d.file = g}}
  OBVIOUS
<1> HIDE DEF f, t, C, D, v
<1>7. w = [modules |-> r.modules, ext |-> r.ext, commands |-> C, listed |-> r.listed,
           listeners |-> r.listeners, unloads |-> r.unloads, made |-> r.made, failed |-> r.failed, ok |-> r.ok]
  BY <1>3
<1> HIDE DEF w
<1>8. v = [modules |-> r.modules, ext |-> r.ext, commands |-> C, listed |-> D,
           listeners |-> r.listeners, unloads |-> r.unloads, made |-> r.made, failed |-> r.failed, ok |-> r.ok]
  BY <1>1, <1>7
<1>9. t = [v EXCEPT !.unloads = U]
  BY <1>2, <1>8
<1> HIDE DEF U
<1>10. t = [modules |-> r.modules, ext |-> r.ext, commands |-> C, listed |-> D,
            listeners |-> r.listeners, unloads |-> U, made |-> r.made, failed |-> r.failed, ok |-> r.ok]
  BY <1>8, <1>9
<1>11. /\ t.modules = r.modules /\ t.ext = r.ext /\ t.commands = C /\ t.listed = D /\ t.listeners = r.listeners
       /\ t.unloads = U /\ t.made = r.made /\ t.failed = r.failed /\ t.ok = r.ok
  BY <1>10
<1>12. Fields(t)
  BY <1>4, <1>10, <1>11 DEF Registry, Fields
<1> QED
  BY <1>5, <1>6, <1>11, <1>12 DEF t, U

\* A command that shares a name with one that is removed is that one.
LEMMA GoneTogether ==
    ASSUME NEW r, Registry(r), r.unloads # << >>
    PROVE  /\ \A c \in Gone(r) : /\ Whole(r, c) /\ c.file = Head(r.unloads) /\ c.name \in r.listed[c.file]
                                 /\ c.name \in DOMAIN r.commands /\ r.commands[c.name] = c
           /\ \A c : Whole(r, c) => c \in Gone(r) \/ Ex!Names(c) \cap GoneNames(r) = {}
<1>1. Head(r.unloads) \in Files
  BY DEF Registry, Fields
<1>2. \A c \in Gone(r) : /\ Whole(r, c) /\ c.file = Head(r.unloads) /\ c.name \in r.listed[c.file]
                         /\ c.name \in DOMAIN r.commands /\ r.commands[c.name] = c
  BY <1>1 DEF Registry, ListedWhole, Gone
<1>3. ASSUME NEW c, Whole(r, c), NEW n \in Ex!Names(c), n \in GoneNames(r)
      PROVE  c \in Gone(r)
  <2>1. PICK d \in Gone(r) : n \in Ex!Names(d)
    BY <1>3 DEF GoneNames
  <2>2. r.commands[n] = d /\ r.commands[n] = c
    BY <1>2, <1>3, <2>1 DEF Whole
  <2> QED
    BY <2>1, <2>2
<1> QED
  BY <1>2, <1>3

\* The registry stays in order, and so do the other files.
LEMMA UnloadHandled ==
    ASSUME NEW r, Registry(r), r.unloads # << >>
    PROVE  /\ Registry(Handled(r)) /\ Others(r, Handled(r), Head(r.unloads))
           /\ Handled(r).made = r.made /\ Handled(r).unloads = Tail(r.unloads) /\ Handled(r).modules = r.modules
           /\ Pending(Handled(r)) \subseteq Pending(r) /\ Head(r.unloads) \in Pending(r)
<1> DEFINE t == Handled(r)
           f == Head(r.unloads)
<1>1. /\ Fields(t)
      /\ t.modules = r.modules /\ t.ext = r.ext /\ t.listeners = r.listeners /\ t.made = r.made
      /\ t.failed = r.failed /\ t.unloads = Tail(r.unloads)
      /\ DOMAIN t.commands = DOMAIN r.commands \ GoneNames(r)
      /\ \A n \in DOMAIN t.commands : t.commands[n] = r.commands[n]
      /\ \A g \in Files : t.listed[g] = r.listed[g] \ {c.name : c \in {d \in Gone(r) : d.file = g}}
  BY HandledFields
<1>2. f \in Files /\ Pending(r) = {f} \cup Pending(t)
  <2> DEFINE u == r.unloads
  <2>1. u \in Seq(Files) /\ u # << >>
    BY DEF Registry, Fields
  <2> HIDE DEF u
  <2>2. /\ Len(u) \in Nat /\ 1 <= Len(u) /\ Head(u) = u[1] /\ DOMAIN u = 1 .. Len(u) /\ Head(u) \in Files
        /\ DOMAIN Tail(u) = 1 .. (Len(u) - 1) /\ \A i \in 1 .. (Len(u) - 1) : Tail(u)[i] = u[i + 1]
    BY <2>1
  <2>3. {u[i] : i \in DOMAIN u} = {u[1]} \cup {Tail(u)[i] : i \in DOMAIN Tail(u)}
    <3>1. ASSUME NEW i \in DOMAIN u, i # 1
          PROVE  i - 1 \in DOMAIN Tail(u) /\ Tail(u)[i - 1] = u[i]
      BY <2>2, <3>1
    <3>2. ASSUME NEW i \in DOMAIN Tail(u)
          PROVE  i + 1 \in DOMAIN u /\ Tail(u)[i] = u[i + 1]
      BY <2>2, <3>2
    <3>3. 1 \in DOMAIN u
      BY <2>2
    <3> QED
      BY <3>1, <3>2, <3>3
  <2>4. Pending(r) = {u[1]} \cup Pending(t)
    <3>1. Pending(r) = {u[i] : i \in DOMAIN u}
      BY DEF Pending, u
    <3>2. Pending(t) = {Tail(u)[i] : i \in DOMAIN Tail(u)}
      BY <1>1 DEF Pending, u
    <3> QED
      BY <2>3, <3>1, <3>2
  <2>5. f = u[1] /\ f \in Files
    BY <2>2 DEF u
  <2> QED
    BY <2>4, <2>5
<1>3. /\ \A c \in Gone(r) : /\ Whole(r, c) /\ c.file = f /\ c.name \in r.listed[c.file]
                            /\ c.name \in DOMAIN r.commands /\ r.commands[c.name] = c
      /\ \A c : Whole(r, c) => c \in Gone(r) \/ Ex!Names(c) \cap GoneNames(r) = {}
  BY GoneTogether
<1> HIDE DEF t, f
<1>4. ASSUME NEW c, Whole(r, c), c \notin Gone(r)
      PROVE  Whole(t, c)
  BY <1>1, <1>3, <1>4 DEF Whole
<1>5. \A c : c.name \in Ex!Names(c)
  BY DEF Ex!Names
<1>6. ListedWhole(t)
  <2> SUFFICES ASSUME NEW g \in Files, NEW n \in t.listed[g]
               PROVE  /\ n \in DOMAIN t.commands /\ t.commands[n].name = n /\ t.commands[n].file = g
                      /\ Whole(t, t.commands[n])
    BY DEF ListedWhole
  <2> DEFINE c == r.commands[n]
  <2>1. /\ n \in DOMAIN r.commands /\ c.name = n /\ c.file = g /\ Whole(r, c)
        /\ n \notin {d.name : d \in {e \in Gone(r) : e.file = g}}
    BY <1>1 DEF Registry, ListedWhole
  <2> HIDE DEF c
  <2>2. c \notin Gone(r)
    BY <2>1
  <2>3. Whole(t, c) /\ n \in Ex!Names(c)
    BY <1>4, <1>5, <2>1, <2>2
  <2>4. n \in DOMAIN t.commands /\ t.commands[n] = c
    BY <2>3 DEF Whole
  <2> QED
    BY <2>1, <2>3, <2>4
<1>7. ASSUME NEW n \in DOMAIN t.commands
      PROVE  LET c == t.commands[n] IN
             /\ c = r.commands[n] /\ n \in DOMAIN r.commands /\ c \notin Gone(r)
             /\ n \in Ex!Names(c) /\ c.file \in Files /\ c.owner \in 1 .. t.made
             /\ \/ c.owner \in t.failed
                \/ c.name \in r.listed[c.file] /\ r.commands[c.name] = c /\ Whole(r, c)
  <2> DEFINE c == t.commands[n]
  <2>1. c = r.commands[n] /\ n \in DOMAIN r.commands /\ n \notin GoneNames(r)
    BY <1>1
  <2>2. /\ n \in Ex!Names(c) /\ c.file \in Files /\ c.owner \in 1 .. t.made
        /\ c.owner \in t.failed \/ (c.name \in r.listed[c.file] /\ r.commands[c.name] = c)
    BY <2>1, <1>1 DEF Registry, Listed
  <2> HIDE DEF c
  <2>3. c \notin Gone(r)
    BY <2>1, <2>2 DEF GoneNames
  <2>4. c.name \in r.listed[c.file] /\ r.commands[c.name] = c => Whole(r, c)
    BY <2>2 DEF Registry, ListedWhole
  <2> QED
    BY <2>1, <2>2, <2>3, <2>4 DEF c
<1>8. Listed(t, {})
  <2> SUFFICES ASSUME NEW n \in DOMAIN t.commands
               PROVE  LET c == t.commands[n] IN
                      /\ n \in Ex!Names(c) /\ c.file \in Files /\ c.owner \in 1 .. t.made
                      /\ c.owner \in t.failed \/ (c.name \in t.listed[c.file] /\ t.commands[c.name] = c)
    BY DEF Listed
  <2> DEFINE c == t.commands[n]
  <2>1. /\ c \notin Gone(r) /\ n \in Ex!Names(c) /\ c.file \in Files /\ c.owner \in 1 .. t.made
        /\ c.owner \in t.failed \/ (c.name \in r.listed[c.file] /\ r.commands[c.name] = c /\ Whole(r, c))
    BY <1>7
  <2> HIDE DEF c
  <2>2. ASSUME c.name \in r.listed[c.file], r.commands[c.name] = c, Whole(r, c)
        PROVE  c.name \in t.listed[c.file] /\ t.commands[c.name] = c
    <3>1. \A d \in Gone(r) : d.name # c.name
      BY <1>3, <2>1, <2>2
    <3>2. c.name \in t.listed[c.file]
      BY <3>1, <2>1, <2>2, <1>1
    <3>3. Whole(t, c)
      BY <1>4, <2>1, <2>2
    <3> QED
      BY <3>2, <3>3, <1>5 DEF Whole
  <2> QED
    BY <2>1, <2>2 DEF c
<1>9. Accounted(t, None, {})
  <2>1. ASSUME NEW n \in DOMAIN t.commands
        PROVE  LET c == t.commands[n] IN
               c.owner \in t.failed \/ c.owner = t.ext[c.file] \/ c.file \in Pending(t)
    <3> DEFINE c == t.commands[n]
    <3>1. /\ c = r.commands[n] /\ n \in DOMAIN r.commands /\ c \notin Gone(r) /\ c.file \in Files
          /\ c.owner \in t.failed \/ (c.name \in r.listed[c.file] /\ r.commands[c.name] = c /\ Whole(r, c))
      BY <1>7
    <3>2. c.owner \in r.failed \/ c.owner = r.ext[c.file] \/ c.file \in Pending(r)
      BY <3>1 DEF Registry, Accounted
    <3> HIDE DEF c
    <3>3. CASE c.file = f
      <4>1. c.owner \in t.failed
        <5> SUFFICES ASSUME c.name \in r.listed[f], r.commands[c.name] = c, Whole(r, c) PROVE FALSE
          BY <3>1, <3>3
        <5>1. c.name \in DOMAIN r.commands
          BY <1>5 DEF Whole
        <5> QED
          BY <5>1, <3>1 DEF Gone, f
      <4> QED
        BY <4>1 DEF c
    <3>4. CASE c.file # f
      BY <3>2, <3>4, <1>1, <1>2 DEF c
    <3> QED
      BY <3>3, <3>4
  <2>2. \A l \in t.listeners :
            l.owner \in t.failed \cup {0} \/ \E g \in Files : t.ext[g] # None /\ l.owner = t.ext[g]
    BY <1>1 DEF Registry, Accounted
  <2> QED
    BY <2>1, <2>2 DEF Accounted
<1>10. ASSUME NEW g \in Files \ {f}, SoundFile(r, g)
       PROVE  SoundFile(t, g)
  <2> SUFFICES ASSUME t.modules[g] # None, NEW i \in DOMAIN t.modules[g].members
               PROVE  There(t, Ex!Bound(g, t.ext[g], i, t.modules[g].members[i]), t.modules[g].members[i])
    BY DEF SoundFile, AllThere
  <2> DEFINE m == r.modules[g].members[i]
             b == Ex!Bound(g, r.ext[g], i, m)
  <2>1. There(r, b, m)
    BY <1>1, <1>10 DEF SoundFile, AllThere
  <2>2. Ex!IsCommand(m) => b.file = g
    BY BoundFields
  <2> HIDE DEF m, b
  <2>3. There(t, b, m)
    BY <2>1, <2>2, <1>1, <1>3, <1>4 DEF There
  <2> QED
    BY <2>3, <1>1 DEF m, b
<1>11. OneFile(t)
  BY <1>1 DEF Registry, OneFile
<1> QED
  BY <1>1, <1>2, <1>6, <1>8, <1>9, <1>10, <1>11 DEF Registry, Others, t, f
-----------------------------------------------------------------------------
\* The registry is in order; a file that is loaded, and not hastily, has no task pending and
\* all its members registered.
ExInv ==
    /\ file \in [Files -> Sources]
    /\ Registry(reg)
    /\ \A f \in Files \ hasty : reg.modules[f] # None => f \notin Pending(reg) /\ SoundFile(reg, f)
    /\ reg.made <= MaxMade /\ Len(reg.unloads) <= MaxUnloads

\* An empty registry is in order.
LEMMA FreshRegistry == Registry(Ex!Fresh) /\ Pending(Ex!Fresh) = {} /\ Ex!Fresh.made = 0 /\ Len(Ex!Fresh.unloads) = 0
<1> DEFINE r == Ex!Fresh
<1>1. /\ r = [modules |-> r.modules, ext |-> r.ext, commands |-> r.commands, listed |-> r.listed,
              listeners |-> r.listeners, unloads |-> r.unloads, made |-> r.made, failed |-> r.failed,
              ok |-> r.ok]
      /\ r.commands = << >> /\ r.listeners = {Ex!Library} /\ r.unloads = << >> /\ r.made = 0
      /\ r.failed = {} /\ r.ok = TRUE
      /\ r.modules = [f \in Files |-> None] /\ r.ext = [f \in Files |-> None]
      /\ r.listed = [f \in Files |-> {}]
  BY DEF Ex!Fresh
<1>2. Ex!Library.owner = 0
  BY DEF Ex!Library
<1> HIDE DEF r
<1>3. Fields(r)
  <2>1. << >> \in Seq(Files) /\ 0 \in Nat /\ {} \subseteq 1 .. 0
    OBVIOUS
  <2> QED
    BY <1>1, <2>1 DEF Fields
<1>4. DOMAIN r.commands = {}
  BY <1>1
<1>5. Pending(r) = {}
  BY <1>1 DEF Pending
<1>6. OneFile(r) /\ ListedWhole(r) /\ Listed(r, {}) /\ Accounted(r, None, {})
  BY <1>1, <1>2, <1>4 DEF OneFile, ListedWhole, Listed, Accounted
<1> QED
  BY <1>1, <1>3, <1>5, <1>6 DEF Registry, r

\* It is so at the start.
LEMMA ExInitInv == Init => ExInv
<1> SUFFICES ASSUME Init PROVE ExInv
  OBVIOUS
<1>1. file \in [Files -> Sources] /\ reg = Ex!Fresh
  BY DEF Init, Ex!Init
<1>2. \A f \in Files : reg.modules[f] = None
  BY <1>1 DEF Ex!Fresh
<1>3. MaxMade \in Nat /\ MaxUnloads \in Nat
  BY SourceData
<1> QED
  BY <1>1, <1>2, <1>3, FreshRegistry DEF ExInv

\* A call begins with nothing raised.
LEMMA Calmed ==
    ASSUME NEW r, Registry(r)
    PROVE  LET t == Ex!Calm(r) IN
           /\ Registry(t) /\ t.ok /\ Same(r, t)
           /\ \A g : SoundFile(r, g) => SoundFile(t, g)
<1> DEFINE t == [r EXCEPT !.ok = TRUE]
<1>1. t = Ex!Calm(r)
  BY DEF Ex!Calm
<1>2. Registry(t) /\ Same(r, t) /\ t.ok = TRUE /\ t.commands = r.commands /\ t.listeners = r.listeners
  <2> DEFINE k == TRUE
  <2>1. k \in BOOLEAN /\ k = TRUE
    OBVIOUS
  <2> HIDE DEF k
  <2>2. t = [r EXCEPT !.ok = k]
    BY <2>1
  <2> HIDE DEF t
  <2> QED
    BY <2>1, <2>2, RegistryOk
<1> HIDE DEF t
<1>3. Grows(r, t)
  BY <1>2 DEF Grows
<1>4. \A g : SoundFile(r, g) => SoundFile(t, g)
  BY <1>2, <1>3, SoundGrows DEF Same
<1> QED
  BY <1>1, <1>2, <1>4

\* A call about f keeps the invariant, if f is hasty or not loaded or without a task.
LEMMA CallKept ==
    ASSUME ExInv, NEW f \in Files, Sound(Ex!Calm(reg), reg', f), file' = file,
           hasty \subseteq hasty', reg'.modules[f] # None /\ f \notin hasty' => f \notin Pending(reg)',
           reg'.made <= MaxMade, Len(reg'.unloads) <= MaxUnloads
    PROVE  ExInv'
<1> DEFINE r == Ex!Calm(reg)
<1>1. /\ Registry(r) /\ r.modules = reg.modules /\ Pending(r) = Pending(reg)
      /\ \A g : SoundFile(reg, g) => SoundFile(r, g)
  BY Calmed DEF ExInv, Same, Pending
<1> HIDE DEF r
<1>2. /\ Registry(reg)' /\ (SoundFile(r, f) => SoundFile(reg, f)')
      /\ \A g \in Files \ {f} : reg'.modules[g] = r.modules[g] /\ (SoundFile(r, g) => SoundFile(reg, g)')
      /\ Pending(reg)' \subseteq Pending(r) \cup {f}
  BY DEF Sound, Others, r, Registry, Fields, OneFile, ListedWhole, Listed, Accounted, Pending, Whole,
         SoundFile, AllThere, There
<1>3. ASSUME NEW g \in Files \ hasty', reg'.modules[g] # None
      PROVE  g \notin Pending(reg)' /\ SoundFile(reg, g)'
  <2>1. CASE g = f
    <3>1. reg.modules[f] = None \/ SoundFile(reg, f)
      BY <1>3, <2>1 DEF ExInv
    <3>2. SoundFile(reg, f)
      BY <3>1 DEF SoundFile
    <3> QED
      BY <3>2, <2>1, <1>1, <1>2, <1>3
  <2>2. CASE g # f
    <3>1. reg.modules[g] # None /\ g \notin hasty
      BY <1>1, <1>2, <1>3, <2>2
    <3>2. g \notin Pending(reg) /\ SoundFile(reg, g)
      BY <3>1 DEF ExInv
    <3> QED
      BY <3>2, <2>2, <1>1, <1>2
  <2> QED
    BY <2>1, <2>2
<1>4. file' \in [Files -> Sources]
  BY DEF ExInv
<1> QED
  BY <1>2, <1>3, <1>4 DEF ExInv

\* A file that Hastily leaves out has no task.
LEMMA HastyFiles ==
    ASSUME NEW f, hasty' = Ex!Hastily(f)
    PROVE  hasty \subseteq hasty' /\ (f \notin hasty' => f \notin Pending(reg)')
BY DEF Ex!Hastily, Pending

\* Every step of the registry keeps the invariant.
LEMMA ExStep == ExInv /\ Ex!Next => ExInv'
<1> SUFFICES ASSUME ExInv, Ex!Next PROVE ExInv'
  OBVIOUS
<1> DEFINE r == Ex!Calm(reg)
<1>1. Registry(r) /\ r.ok /\ Same(reg, r)
  BY Calmed DEF ExInv
<1>2. file \in [Files -> Sources] /\ Registry(reg)
  BY DEF ExInv
<1>3. /\ r.made \in Nat /\ r.made = reg.made /\ r.unloads \in Seq(Files) /\ r.unloads = reg.unloads
      /\ Len(r.unloads) \in Nat /\ MaxMade \in Nat /\ MaxUnloads \in Nat
      /\ reg.made <= MaxMade /\ Len(reg.unloads) <= MaxUnloads
  BY <1>1, SourceData DEF Same, Registry, Fields, ExInv
<1> HIDE DEF r
<1>4. ASSUME NEW f \in Files, Ex!Load(f)
      PROVE  ExInv'
  <2>1. reg' = Ex!LoadExtension(r, f) /\ hasty' = Ex!Hastily(f) /\ file' = file /\ reg.made < MaxMade
    BY <1>4 DEF Ex!Load, Ex!Result, r
  <2>2. Sound(r, reg', f) /\ reg'.made <= r.made + 1 /\ reg'.unloads = r.unloads
    BY <2>1, <1>1, <1>2, ExtensionLoaded
  <2>3. reg'.made \in Nat
    BY <2>2 DEF Sound, Registry, Fields
  <2>4. reg'.made <= MaxMade /\ Len(reg'.unloads) <= MaxUnloads
    BY <2>1, <2>2, <2>3, <1>3
  <2> QED
    BY <2>1, <2>2, <2>4, HastyFiles, CallKept DEF r
<1>5. ASSUME NEW f \in Files, Ex!Unload(f)
      PROVE  ExInv'
  <2> DEFINE force == FALSE
  <2>1. /\ reg' = Ex!UnloadExtension(r, f, force) /\ hasty' = hasty /\ file' = file
        /\ Len(reg.unloads) < MaxUnloads
    BY <1>5 DEF Ex!Unload, Ex!Result, r
  <2>2. force \in BOOLEAN
    OBVIOUS
  <2> HIDE DEF force
  <2>3. /\ Sound(r, reg', f) /\ reg'.made = r.made /\ reg'.modules[f] = None
        /\ reg'.unloads = r.unloads \/ reg'.unloads = Append(r.unloads, f)
    BY <2>1, <2>2, <1>1, ExtensionUnloaded
  <2>4. reg'.made <= MaxMade /\ Len(reg'.unloads) <= MaxUnloads
    <3>1. Len(Append(r.unloads, f)) = Len(r.unloads) + 1
      BY <1>3
    <3>2. Len(reg'.unloads) \in {Len(r.unloads), Len(r.unloads) + 1}
      BY <2>3, <3>1
    <3> QED
      BY <3>2, <2>1, <2>3, <1>3
  <2> QED
    BY <2>1, <2>3, <2>4, CallKept DEF r
<1>6. ASSUME NEW f \in Files, Ex!Reload(f)
      PROVE  ExInv'
  <2>1. /\ reg' = Ex!ReloadExtension(r, f) /\ hasty' = Ex!Hastily(f) /\ file' = file
        /\ reg.made + 2 <= MaxMade /\ Len(reg.unloads) + 2 <= MaxUnloads
    BY <1>6 DEF Ex!Reload, Ex!Result, r
  <2>2. /\ Sound(r, reg', f) /\ reg'.made <= r.made + 2
        /\ reg'.unloads \in Seq(Files) /\ Len(reg'.unloads) <= Len(r.unloads) + 2
    BY <2>1, <1>1, <1>2, ExtensionReloaded
  <2>3. reg'.made \in Nat /\ Len(reg'.unloads) \in Nat
    BY <2>2 DEF Sound, Registry, Fields
  <2>4. reg'.made <= MaxMade /\ Len(reg'.unloads) <= MaxUnloads
    BY <2>1, <2>2, <2>3, <1>3
  <2> QED
    BY <2>1, <2>2, <2>4, HastyFiles, CallKept DEF r
<1>7. ASSUME NEW f \in Files, Ex!Edit(f)
      PROVE  ExInv'
  <2>1. reg' = reg /\ hasty' = hasty /\ \E s \in Sources : file' = [file EXCEPT ![f] = s]
    BY <1>7 DEF Ex!Edit
  <2>2. file' \in [Files -> Sources]
    BY <2>1, <1>2
  <2>3. Registry(reg)'
    BY <2>1, <1>2 DEF Registry, Fields, OneFile, ListedWhole, Listed, Accounted, Pending, Whole
  <2>4. \A g \in Files \ hasty' : reg'.modules[g] # None => g \notin Pending(reg)' /\ SoundFile(reg, g)'
    BY <2>1 DEF ExInv, Pending, SoundFile, AllThere, There, Whole
  <2> QED
    BY <2>1, <2>2, <2>3, <2>4, <1>3 DEF ExInv
<1>8. CASE Ex!HandleUnload
  <2>1. reg' = Handled(reg) /\ reg.unloads # << >> /\ file' = file /\ hasty' = hasty
    BY <1>8 DEF Ex!HandleUnload, Ex!Result, Handled
  <2> DEFINE h == Head(reg.unloads)
  <2>2. /\ Registry(reg') /\ Others(reg, reg', h)
        /\ reg'.made = reg.made /\ reg'.unloads = Tail(reg.unloads) /\ reg'.modules = reg.modules
        /\ Pending(reg') \subseteq Pending(reg) /\ h \in Pending(reg)
    BY <2>1, <1>2, UnloadHandled
  <2> HIDE DEF h
  <2>3. ASSUME NEW g \in Files \ hasty', reg'.modules[g] # None
        PROVE  g \notin Pending(reg') /\ SoundFile(reg', g)
    <3>1. g \notin Pending(reg) /\ SoundFile(reg, g)
      BY <2>1, <2>2, <2>3 DEF ExInv
    <3> QED
      BY <3>1, <2>2 DEF Others
  <2>4. Len(reg'.unloads) <= MaxUnloads
    <3>1. Len(Tail(reg.unloads)) = Len(reg.unloads) - 1
      BY <1>3, <2>1
    <3> QED
      BY <3>1, <2>2, <1>3
  <2> QED
    BY <2>1, <2>2, <2>3, <2>4, <1>2, <1>3 DEF ExInv
<1> QED
  BY <1>4, <1>5, <1>6, <1>7, <1>8 DEF Ex!Next

\* Always.
THEOREM RegistryIsInOrder == Spec => []ExInv
<1>1. Init => ExInv
  BY ExInitInv
<1>2. ExInv /\ [Next]_vars => ExInv'
  <2> SUFFICES ASSUME ExInv, [Next]_vars PROVE ExInv'
    OBVIOUS
  <2>1. [Ex!Next]_exVars
    BY DEF Next, vars, gcVars, msVars, vsVars, tcVars, cdVars, waVars, epVars, exVars, pcVars, chVars
  <2>2. CASE exVars' = exVars
    <3>1. file' = file /\ reg' = reg /\ hasty' = hasty
      BY <2>2 DEF exVars
    <3> QED
      BY <3>1 DEF ExInv, Registry, Fields, OneFile, ListedWhole, Listed, Accounted, Pending, Whole,
                  SoundFile, AllThere, There
  <2> QED
    BY <2>1, <2>2, ExStep
<1> QED
  BY <1>1, <1>2, PTL DEF Spec

\* The variables of Extensions have their types.
THEOREM ExtensionTypes == Spec => []Ex!TypeOK
<1>1. ExInv => Ex!TypeOK
  <2> SUFFICES ASSUME ExInv PROVE Ex!TypeOK
    OBVIOUS
  <2>1. \A n \in DOMAIN reg.commands : reg.commands[n].owner \in 1 .. reg.made
    BY DEF ExInv, Registry, Listed
  <2> QED
    BY <2>1 DEF ExInv, Registry, Fields, Ex!TypeOK
<1> QED
  BY <1>1, RegistryIsInOrder, PTL

\* Once no task is left, every command and listener is of an extension that is there or whose
\* load failed.
THEOREM UnloadedLeaveNothing == Spec => []UnloadedIsGone
<1>1. ExInv => UnloadedIsGone
  <2> SUFFICES ASSUME ExInv, reg.unloads = << >>
               PROVE  /\ \A n \in DOMAIN reg.commands : reg.commands[n].owner \in Ex!Present \cup reg.failed
                      /\ \A l \in reg.listeners : l.owner \in Ex!Present \cup reg.failed \cup {0}
    BY DEF UnloadedIsGone, Ex!UnloadedIsGone
  <2>1. Pending(reg) = {}
    BY DEF Pending
  <2>2. None \notin Nat /\ reg.made \in Nat
    BY SourceData DEF ExInv, Registry, Fields
  <2>3. ASSUME NEW n \in DOMAIN reg.commands
        PROVE  reg.commands[n].owner \in Ex!Present \cup reg.failed
    <3> DEFINE c == reg.commands[n]
    <3>1. c.file \in Files /\ c.owner \in 1 .. reg.made
      BY DEF ExInv, Registry, Listed
    <3>2. c.owner \in reg.failed \/ c.owner = reg.ext[c.file]
      BY <2>1 DEF ExInv, Registry, Accounted
    <3>3. c.owner # None
      BY <2>2, <3>1
    <3> HIDE DEF c
    <3>4. c.owner \in Ex!Present \cup reg.failed
      BY <3>1, <3>2, <3>3 DEF Ex!Present
    <3> QED
      BY <3>4 DEF c
  <2>4. ASSUME NEW l \in reg.listeners
        PROVE  l.owner \in Ex!Present \cup reg.failed \cup {0}
    <3>1. l.owner \in reg.failed \cup {0} \/ \E g \in Files : reg.ext[g] # None /\ l.owner = reg.ext[g]
      BY DEF ExInv, Registry, Accounted
    <3> QED
      BY <3>1 DEF Ex!Present
  <2> QED
    BY <2>3, <2>4
<1> QED
  BY <1>1, RegistryIsInOrder, PTL

\* An extension that is there, and was not loaded hastily, has all it defines.
THEOREM LoadedStayWhole == Spec => []LoadedIsWhole
<1>1. ExInv => LoadedIsWhole
  BY DEF ExInv, LoadedIsWhole, Ex!LoadedIsWhole, SoundFile, AllThere, There, Whole
<1> QED
  BY <1>1, RegistryIsInOrder, PTL

-----------------------------------------------------------------------------
\* The types of every part of the composition: those of the five that SafeProofs is about, with the
\* bounds of their caches and buffers, of Waits, and of the three of this module.
THEOREM EveryPartsTypes == Spec => []TypeOK
<1>1. /\ Gc!TypeOK /\ Gc!ListedAreKept
      /\ Ms!TypeOK /\ Vs!TypeOK
      /\ Tc!TypeOK /\ Tc!WithinHardLimit
      /\ Cd!TypeOK /\ Wa!TypeOK /\ Ex!TypeOK /\ Pc!TypeOK /\ Ch!TypeOK
      => TypeOK
  BY DEF TypeOK
<1>2. Spec => [](Gc!TypeOK /\ Gc!ListedAreKept) /\ []Ms!TypeOK /\ []Vs!TypeOK /\ [](Tc!TypeOK /\ Tc!WithinHardLimit)
  BY CacheListsWhatItKeeps, MessageTypesKept, VoiceStateTypes, CacheLimited
<1>3. Spec => []Cd!TypeOK /\ []Wa!TypeOK /\ []Ex!TypeOK /\ []Pc!TypeOK /\ [](Ch!TypeOK /\ Ch!ChunkedMeansAll)
  BY CooldownTypes, WaitsTypesKept, ExtensionTypes, PrefixedTypes, ChunkedIsWhole
<1> QED
  BY <1>1, <1>2, <1>3, PTL
=============================================================================
