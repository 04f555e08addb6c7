--------------------------- MODULE DeepeningProof ---------------------------
(***************************************************************************)
(* Proofs about Deepening: the limits of a search, the aspiration window,  *)
(* the vote and the options, for any lines, depths, scores and clocks.     *)
(***************************************************************************)
EXTENDS Deepening, FiniteSetTheorems, WellFoundedInduction, TLAPS

------------------------------------------------------------------------------
(* Sets of natural numbers *)

\* A non-empty set of naturals has a least element.
LEMMA LeastNatural ==
  ASSUME NEW S \in SUBSET Nat, S # {}
  PROVE  \E m \in S : \A n \in S : m <= n
<1>1. PICK m \in S : \A n \in S : <<n, m>> \notin OpToRel(<, Nat)
  BY NatLessThanWellFounded, WFMin, Zenon
<1>2. \A n \in S : ~(n < m)
  BY <1>1, Zenon DEF OpToRel
<1> QED
  BY <1>2

\* A set of naturals with 0 and every successor has all of them.
LEMMA SetInduction ==
  ASSUME NEW S, 0 \in S, \A n \in Nat : n \in S => n + 1 \in S
  PROVE  \A n \in Nat : n \in S
<1> SUFFICES ASSUME Nat \ S # {} PROVE FALSE
  OBVIOUS
<1>1. PICK m \in Nat \ S : \A n \in Nat \ S : m <= n
  BY LeastNatural
<1> QED
  BY <1>1, m # 0, m - 1 \in Nat

\* One with an upper bound has a greatest element.
LEMMA GreatestNatural ==
  ASSUME NEW S \in SUBSET Nat, S # {}, NEW b \in Nat, \A n \in S : n <= b
  PROVE  \E m \in S : \A n \in S : n <= m
<1> DEFINE T == {b - n : n \in S}
<1>1. T \in SUBSET Nat /\ T # {}
  <2>1. \A n \in S : n \in Nat /\ b - n \in Nat
    OBVIOUS
  <2> QED
    BY <2>1
<1>2. PICK t \in T : \A u \in T : t <= u
  BY <1>1, LeastNatural
<1>3. PICK m \in S : t = b - m
  BY <1>2
<1>4. \A n \in S : b - m <= b - n /\ n \in Nat /\ m \in Nat
  BY <1>2, <1>3
<1>5. \A n \in S : n <= m
  BY <1>4
<1> QED
  BY <1>5

LEMMA LeastIsMin ==
  ASSUME NEW S \in SUBSET Nat, S # {}
  PROVE  Min(S) \in S /\ \A n \in S : Min(S) =< n
<1>1. \E x \in S : \A y \in S : x =< y
  BY LeastNatural
<1> QED
  BY <1>1, Zenon DEF Min

LEMMA GreatestIsMax ==
  ASSUME NEW S \in SUBSET Nat, S # {}, NEW b \in Nat, \A n \in S : n =< b
  PROVE  Max(S) \in S /\ \A n \in S : Max(S) >= n
<1>1. PICK m \in S : \A n \in S : n =< m
  BY GreatestNatural
<1>2. \E x \in S : \A y \in S : x >= y
  BY <1>1
<1> QED
  BY <1>2, Zenon DEF Max

------------------------------------------------------------------------------
(* A function given by its value at 0 and a step *)

Follows(g, n, first, step) ==
  g[0] = first /\ \A i \in 0 .. n - 1 : g[i + 1] = step[<<i, g[i]>>]

\* For any number of steps there is one that takes them.
LEMMA IterationsReach ==
  ASSUME NEW T, NEW first \in T, NEW step \in [Nat \X T -> T]
  PROVE  \A n \in Nat : \E g \in [Nat -> T] : Follows(g, n, first, step)
<1> DEFINE has == {n \in Nat : \E g \in [Nat -> T] : Follows(g, n, first, step)}
<1>1. 0 \in has
  <2> DEFINE g == [i \in Nat |-> first]
  <2>1. g \in [Nat -> T] /\ g[0] = first /\ 0 .. 0 - 1 = {}
    OBVIOUS
  <2> HIDE DEF g
  <2> QED
    BY <2>1 DEF Follows
<1>2. ASSUME NEW n \in Nat, n \in has PROVE n + 1 \in has
  <2>1. PICK g \in [Nat -> T] : Follows(g, n, first, step)
    BY <1>2
  <2> DEFINE h == [g EXCEPT ![n + 1] = step[<<n, g[n]>>]]
  <2>2. h \in [Nat -> T] /\ h[n + 1] = step[<<n, g[n]>>] /\ \A i \in 0 .. n : h[i] = g[i]
    OBVIOUS
  <2> HIDE DEF h
  <2>3. \A i \in 0 .. (n + 1) - 1 : h[i + 1] = step[<<i, h[i]>>]
    <3> TAKE i \in 0 .. (n + 1) - 1
    <3>1. i \in 0 .. n /\ h[i] = g[i]
      BY <2>2
    <3>2. CASE i = n
      BY <2>2, <3>1, <3>2
    <3>3. CASE i # n
      <4>1. i \in 0 .. n - 1 /\ i + 1 \in 0 .. n
        BY <3>1, <3>3
      <4> QED
        BY <2>1, <2>2, <3>1, <4>1 DEF Follows
    <3> QED
      BY <3>2, <3>3
  <2>4. h[0] = first
    BY <2>1, <2>2 DEF Follows
  <2>5. Follows(h, n + 1, first, step)
    BY <2>3, <2>4 DEF Follows
  <2> QED
    BY <2>2, <2>5
<1>3. \A n \in Nat : n \in has
  <2> HIDE DEF has
  <2> QED
    BY <1>1, <1>2, SetInduction
<1> QED
  BY <1>3

Iterates(f, first, step) ==
  f[0] = first /\ \A n \in Nat : f[n + 1] = step[<<n, f[n]>>]

\* What a recursive definition over the naturals asks for exists.
LEMMA IterationExists ==
  ASSUME NEW T, NEW first \in T, NEW step \in [Nat \X T -> T]
  PROVE  \E f \in [Nat -> T] : Iterates(f, first, step)
<1> DEFINE pick(n) == CHOOSE g \in [Nat -> T] : Follows(g, n, first, step)
<1> DEFINE f == [n \in Nat |-> pick(n)[n]]
<1>1. \A n \in Nat : pick(n) \in [Nat -> T] /\ Follows(pick(n), n, first, step)
  BY IterationsReach
<1> HIDE DEF pick
<1>2. f \in [Nat -> T]
  BY <1>1
<1>3. f[0] = first
  BY <1>1 DEF Follows
<1>4. ASSUME NEW n \in Nat PROVE pick(n + 1)[n] = pick(n)[n]
  <2> DEFINE g == pick(n + 1)
  <2> DEFINE h == pick(n)
  <2> DEFINE agree == {k \in Nat : k <= n => g[k] = h[k]}
  <2>1. /\ g[0] = first /\ \A i \in 0 .. (n + 1) - 1 : g[i + 1] = step[<<i, g[i]>>]
        /\ h[0] = first /\ \A i \in 0 .. n - 1 : h[i + 1] = step[<<i, h[i]>>]
    BY <1>1 DEF Follows
  <2> HIDE DEF g, h
  <2>2. 0 \in agree
    BY <2>1
  <2>3. ASSUME NEW k \in Nat, k \in agree PROVE k + 1 \in agree
    <3> SUFFICES ASSUME k + 1 <= n PROVE g[k + 1] = h[k + 1]
      OBVIOUS
    <3>1. k \in 0 .. n - 1 /\ k \in 0 .. (n + 1) - 1 /\ k <= n
      OBVIOUS
    <3> QED
      BY <2>1, <2>3, <3>1
  <2>4. \A k \in Nat : k \in agree
    <3> HIDE DEF agree
    <3> QED
      BY <2>2, <2>3, SetInduction
  <2> QED
    BY <2>4 DEF g, h
<1>5. ASSUME NEW n \in Nat PROVE f[n + 1] = step[<<n, f[n]>>]
  <2>1. n \in 0 .. (n + 1) - 1 /\ n + 1 \in Nat
    OBVIOUS
  <2>2. pick(n + 1)[n + 1] = step[<<n, pick(n + 1)[n]>>]
    BY <1>1, <2>1 DEF Follows
  <2> QED
    BY <1>4, <2>1, <2>2
<1> QED
  BY <1>2, <1>3, <1>5 DEF Iterates

------------------------------------------------------------------------------
(* The settings of a "go" *)

\* InPairs, of any words.
PairsIn(args) ==
  /\ \A i \in 1 .. (Len(args) - 1) :
       args[i + 1].text = "number" <=> args[i].text \notin {"number", "ponder"}
  /\ args # <<>> => args[1].text # "number" /\ args[Len(args)].text \in {"number", "infinite"}

\* The loop over the words reads every name of a line of pairs as one: each
\* word but the numbers is a setting.
LEMMA NamesAreSettings ==
  ASSUME NEW args, GoWords(args), PairsIn(args)
  PROVE  SettingsAt(args) = {i \in 1 .. (Len(args) - 1) : args[i].text # "number"}
<1> DEFINE n == Len(args)
<1> DEFINE f == [i \in 1 .. n |-> args[i].text # "number"]
<1> DEFINE Fits(h) == h = [i \in 1 .. n |-> i = 1 \/ (h[i - 1] => args[i - 1].text = "ponder")]
<1> DEFINE g == CHOOSE h : Fits(h)
<1>1. /\ n \in Nat /\ DOMAIN args = 1 .. n
      /\ \A i \in 1 .. (n - 1) :
           args[i + 1].text = "number" <=> args[i].text \notin {"number", "ponder"}
      /\ n # 0 => args[1].text # "number"
  BY DEF GoWords, PairsIn
<1>2. ASSUME NEW i \in 1 .. n
      PROVE  f[i] = (i = 1 \/ (f[i - 1] => args[i - 1].text = "ponder"))
  <2>1. CASE i = 1
    BY <1>1, <2>1
  <2>2. CASE i # 1
    <3>1. i - 1 \in 1 .. (n - 1) /\ i - 1 \in 1 .. n /\ (i - 1) + 1 = i
      BY <1>1, <2>2
    <3>2. args[i].text = "number" <=> args[i - 1].text \notin {"number", "ponder"}
      BY <1>1, <3>1
    <3> QED
      BY <2>2, <3>1, <3>2
  <2> QED
    BY <2>1, <2>2
<1>3. Fits(f)
  <2> HIDE DEF f
  <2>1. f = [i \in 1 .. n |-> f[i]]
    BY DEF f
  <2> QED
    BY <1>2, <2>1
<1>4. Fits(g)
  BY <1>3, Zenon
<1> HIDE DEF g
<1>5. \A i \in 1 .. n : g[i] = (i = 1 \/ (g[i - 1] => args[i - 1].text = "ponder"))
  BY <1>4
<1> DEFINE agree == {i \in Nat : i + 1 \in 1 .. n => g[i + 1] = f[i + 1]}
<1>6. 0 \in agree
  <2> SUFFICES ASSUME 1 \in 1 .. n PROVE g[1] = f[1]
    OBVIOUS
  <2> QED
    BY <1>1, <1>5
<1>7. ASSUME NEW i \in Nat, i \in agree PROVE i + 1 \in agree
  <2> SUFFICES ASSUME (i + 1) + 1 \in 1 .. n PROVE g[(i + 1) + 1] = f[(i + 1) + 1]
    OBVIOUS
  <2> DEFINE k == (i + 1) + 1
  <2>1. i + 1 \in 1 .. n /\ k - 1 = i + 1 /\ k \in 1 .. n
    BY <1>1
  <2>2. g[k - 1] = f[k - 1]
    BY <1>7, <2>1
  <2> HIDE DEF f
  <2>3. g[k] = f[k]
    BY <1>2, <1>5, <2>1, <2>2
  <2> QED
    BY <2>3
<1>8. \A i \in Nat : i \in agree
  <2> HIDE DEF agree
  <2> QED
    BY <1>6, <1>7, SetInduction
<1>9. \A i \in 1 .. (n - 1) : g[i] = (args[i].text # "number")
  <2> TAKE i \in 1 .. (n - 1)
  <2>1. i \in 1 .. n /\ i - 1 \in Nat /\ (i - 1) + 1 = i
    BY <1>1
  <2>2. g[i] = f[i]
    BY <1>8, <2>1
  <2> QED
    BY <2>1, <2>2
<1>10. SettingsAt(args) = {i \in 1 .. (n - 1) : g[i]}
  BY DEF SettingsAt, g
<1> QED
  BY <1>9, <1>10

\* Said, of any words.
SaidBy(args, name) ==
  LET at == {i \in 1 .. (Len(args) - 1) : args[i].text = name}
  IN IF at = {} THEN 0 ELSE args[1 + CHOOSE i \in at : \A j \in at : j =< i].number

\* A word that needs none after it, or the name of a setting, is found wherever
\* it stands.
LEMMA NamesAreFound ==
  ASSUME NEW args, GoWords(args), PairsIn(args), NEW name, name \notin {"number", "infinite"}
  PROVE  HasSetting(args, name) <=> \E i \in DOMAIN args : args[i].text = name
<1>1. /\ Len(args) \in Nat /\ DOMAIN args = 1 .. Len(args)
      /\ args # <<>> => args[Len(args)].text \in {"number", "infinite"}
  BY DEF GoWords, PairsIn
<1>2. HasSetting(args, name) <=>
        \E i \in 1 .. (Len(args) - 1) : args[i].text # "number" /\ args[i].text = name
  BY NamesAreSettings DEF HasSetting
<1>3. ASSUME NEW i \in DOMAIN args, args[i].text = name PROVE i \in 1 .. (Len(args) - 1)
  <2>1. Len(args) # 0 /\ args # <<>>
    BY <1>1, <1>3
  <2>2. i # Len(args)
    BY <1>1, <1>3, <2>1
  <2> QED
    BY <1>1, <1>3, <2>2
<1>4. \A i \in 1 .. (Len(args) - 1) : i \in DOMAIN args
  BY <1>1
<1> QED
  BY <1>2, <1>3, <1>4

\* The value of a setting is the number said for it, the last one of the line.
LEMMA SettingsAreSaid ==
  ASSUME NEW args, GoWords(args), PairsIn(args),
         NEW name, name \notin {"number", "infinite", "ponder"}
  PROVE  /\ SettingOr0(args, name) = SaidBy(args, name)
         /\ SettingOr0(args, name) \in Nat
         /\ HasSetting(args, name) => to_number(LastValue(args, name)) \in Nat
<1> DEFINE at == {i \in 1 .. (Len(args) - 1) : args[i].text = name}
<1>1. /\ Len(args) \in Nat /\ DOMAIN args = 1 .. Len(args)
      /\ \A i \in 1 .. Len(args) : args[i].number \in Int
      /\ \A i \in 1 .. Len(args) : args[i].text = "number" => args[i].number >= 0
      /\ \A i \in 1 .. (Len(args) - 1) :
           args[i + 1].text = "number" <=> args[i].text \notin {"number", "ponder"}
  <2>1. Len(args) \in Nat /\ DOMAIN args = 1 .. Len(args) /\ \A i \in 1 .. Len(args) : args[i] \in Word
    BY DEF GoWords
  <2>2. \A i \in 1 .. Len(args) : args[i].number \in Int
    BY <2>1 DEF Word
  <2> QED
    BY <2>1, <2>2 DEF GoWords, PairsIn
<1>2. {i \in SettingsAt(args) : args[i].text = name} = at
  BY NamesAreSettings
<1>3. HasSetting(args, name) <=> at # {}
  BY <1>2 DEF HasSetting
<1>4. CASE at = {}
  BY <1>3, <1>4 DEF SettingOr0, SaidBy
<1>5. CASE at # {}
  <2>1. at \in SUBSET Nat /\ \A i \in at : i =< Len(args)
    BY <1>1
  <2>2. Max(at) \in at /\ \A i \in at : Max(at) >= i
    BY <1>1, <1>5, <2>1, GreatestIsMax
  <2>3. PICK m \in at : m = Max(at)
    BY <2>2
  <2> DEFINE c == CHOOSE i \in at : \A j \in at : j =< i
  <2>4. \E i \in at : \A j \in at : j =< i
    BY <2>1, <2>2
  <2> HIDE DEF at
  <2>5. c \in at /\ \A j \in at : j =< c
    BY <2>4, Zenon
  <2> HIDE DEF c
  <2>6. c = m
    <3>1. c \in Nat /\ m \in Nat
      BY <2>1, <2>5
    <3>2. m =< c /\ c =< m
      BY <2>2, <2>3, <2>5, <3>1
    <3> QED
      BY <3>1, <3>2
  <2>7. m \in 1 .. (Len(args) - 1) /\ args[m].text = name
    BY DEF at
  <2>8. m + 1 \in 1 .. Len(args) /\ args[m + 1].text = "number" /\ m + 1 = 1 + m
    BY <1>1, <2>7
  <2>9. args[m + 1].number \in Nat
    BY <1>1, <2>8
  <2>10. LastValue(args, name) = args[m + 1]
    BY <1>2, <2>3 DEF LastValue
  <2>11. SettingOr0(args, name) = args[m + 1].number
    BY <1>3, <1>5, <2>9, <2>10 DEF SettingOr0, ValueOr0, to_number, Unset
  <2>12. SaidBy(args, name) = args[1 + c].number
    BY <1>5 DEF SaidBy, at, c
  <2> QED
    BY <2>6, <2>8, <2>9, <2>10, <2>11, <2>12 DEF to_number
<1> QED
  BY <1>4, <1>5

\* Numbers, of any words.
NumbersIn(args, name) ==
  {0} \cup {args[i + 1].number : i \in {j \in 1 .. (Len(args) - 1) :
                                          args[j].text = name /\ args[j + 1].text = "number"}}

\* On any line the loop takes a setting from a word of that name and its value
\* from the next one, or has 0 when that is no number.
LEMMA SettingsAreWords ==
  ASSUME NEW args, GoWords(args), NEW name
  PROVE  /\ SettingOr0(args, name) \in NumbersIn(args, name)
         /\ SettingOr0(args, name) \in Nat
         /\ HasSetting(args, name) => \E i \in DOMAIN args : args[i].text = name
         /\ HasSetting(args, name) => to_number(LastValue(args, name)) \in Nat \cup {Unset}
<1> DEFINE at == {i \in SettingsAt(args) : args[i].text = name}
<1>1. /\ Len(args) \in Nat /\ DOMAIN args = 1 .. Len(args)
      /\ \A i \in 1 .. Len(args) : args[i].number \in Int
      /\ \A i \in 1 .. Len(args) : IF args[i].text = "number" THEN args[i].number >= 0
                                                              ELSE args[i].number = Unset
  <2>1. Len(args) \in Nat /\ DOMAIN args = 1 .. Len(args) /\ \A i \in 1 .. Len(args) : args[i] \in Word
    BY DEF GoWords
  <2>2. \A i \in 1 .. Len(args) : args[i].number \in Int
    BY <2>1 DEF Word
  <2> QED
    BY <2>1, <2>2 DEF GoWords
<1>2. at \subseteq 1 .. (Len(args) - 1)
  BY DEF SettingsAt
<1>3. HasSetting(args, name) <=> at # {}
  BY DEF HasSetting
<1>4. CASE at = {}
  <2> HIDE DEF at
  <2> QED
    BY <1>3, <1>4 DEF SettingOr0, NumbersIn
<1>5. CASE at # {}
  <2>1. at \in SUBSET Nat /\ \A i \in at : i =< Len(args)
    BY <1>1, <1>2
  <2>2. Max(at) \in at
    <3> HIDE DEF at
    <3> QED
      BY <1>1, <1>5, <2>1, GreatestIsMax
  <2>3. PICK m \in at : m = Max(at)
    BY <2>2
  <2>4. m \in 1 .. (Len(args) - 1) /\ args[m].text = name
    BY <1>2, <2>3
  <2>5. m + 1 \in 1 .. Len(args) /\ m \in DOMAIN args
    BY <1>1, <2>4
  <2>6. LastValue(args, name) = args[m + 1]
    BY <2>3 DEF LastValue
  <2>7. SettingOr0(args, name) =
          IF args[m + 1].number = Unset THEN 0 ELSE args[m + 1].number
    BY <1>3, <1>5, <2>6 DEF SettingOr0, ValueOr0, to_number
  <2>8. CASE args[m + 1].text = "number"
    <3>1. args[m + 1].number \in Nat
      BY <1>1, <2>5, <2>8
    <3>2. SettingOr0(args, name) = args[m + 1].number
      BY <2>7, <3>1 DEF Unset
    <3>3. args[m + 1].number \in NumbersIn(args, name)
      BY <2>4, <2>8 DEF NumbersIn
    <3> QED
      BY <2>4, <2>5, <2>6, <3>1, <3>2, <3>3 DEF to_number
  <2>9. CASE args[m + 1].text # "number"
    <3>1. args[m + 1].number = Unset
      BY <1>1, <2>5, <2>9
    <3> QED
      BY <2>4, <2>5, <2>6, <2>7, <3>1 DEF NumbersIn, to_number
  <2> QED
    BY <2>8, <2>9
<1> QED
  BY <1>4, <1>5

------------------------------------------------------------------------------
(* The time manager *)

TimeFields ==
  {"time", "inc", "movesToGo", "moveTime", "overhead", "soft", "hard", "timedOut", "pvMove",
   "pvScore", "moveStability", "scoreStability", "moveFactor", "scoreFactor", "nodeFactor"}

Clocked(t) ==
  /\ DOMAIN t = TimeFields
  /\ t.soft \in Nat /\ t.hard \in Nat /\ t.overhead \in Nat

SameLimits(t, u) ==
  /\ DOMAIN u = DOMAIN t
  /\ u.soft = t.soft /\ u.hard = t.hard /\ u.overhead = t.overhead

\* Neither the end of a search nor its result moves a limit.
LEMMA LimitsStay ==
  ASSUME NEW t, Clocked(t)
  PROVE  /\ SameLimits(t, reset(t)) /\ SameLimits(t, stop(t))
         /\ \A move, score, percent : SameLimits(t, updateMoveStability(t, move, score, percent))
<1>1. SameLimits(t, reset(t))
  BY DEF SameLimits, Clocked, TimeFields, reset
<1>2. SameLimits(t, stop(t))
  BY DEF SameLimits, Clocked, TimeFields, stop
<1>3. ASSUME NEW move, NEW score, NEW percent
      PROVE  SameLimits(t, updateMoveStability(t, move, score, percent))
  BY DEF SameLimits, Clocked, TimeFields, updateMoveStability
<1> QED
  BY <1>1, <1>2, <1>3

LEMMA SameIsClocked ==
  ASSUME NEW t, NEW u, Clocked(t), SameLimits(t, u)
  PROVE  Clocked(u)
BY DEF Clocked, SameLimits

LEMMA NewLimits ==
  ASSUME NEW t, Clocked(t), NEW soft, NEW hard
  PROVE  LET u == WithLimits(t, soft, hard)
         IN /\ DOMAIN u = DOMAIN t
            /\ u.soft = soft /\ u.hard = hard /\ u.overhead = t.overhead
BY DEF WithLimits, Clocked, TimeFields

LEMMA NewOverhead ==
  ASSUME NEW t, Clocked(t), NEW overhead \in Nat
  PROVE  LET u == [t EXCEPT !.overhead = overhead] IN Clocked(u) /\ u.overhead = overhead
BY DEF Clocked, TimeFields

LEMMA InitialIsClocked ==
  Clocked(InitialTime(50)) /\ InitialTime(50).overhead = 50
BY DEF InitialTime, reset, Clocked, TimeFields

\* The settings of a "go" are its own.
LEMMA GoSets ==
  ASSUME NEW t, Clocked(t), NEW args
  PROVE  LET u == GoTime(t, args)
         IN /\ SameLimits(t, u)
            /\ u.time = [white |-> SettingOr0(args, "wtime"), black |-> SettingOr0(args, "btime")]
            /\ u.inc = [white |-> SettingOr0(args, "winc"), black |-> SettingOr0(args, "binc")]
            /\ u.movesToGo = SettingOr0(args, "movestogo")
            /\ u.moveTime = IF HasSetting(args, "movetime") THEN SettingOr0(args, "movetime")
                                                            ELSE Unset
<1> DEFINE r == reset(t)
<1>1. SameLimits(t, r) /\ r.moveTime = Unset
  <2>1. r.moveTime = Unset
    BY DEF reset, Clocked, TimeFields
  <2> QED
    BY <2>1, LimitsStay
<1>2. DOMAIN r = TimeFields
  BY <1>1 DEF SameLimits, Clocked
<1> HIDE DEF r
<1>3. GoTime(t, args) =
        [r EXCEPT
           !.time = [white |-> SettingOr0(args, "wtime"), black |-> SettingOr0(args, "btime")],
           !.inc = [white |-> SettingOr0(args, "winc"), black |-> SettingOr0(args, "binc")],
           !.movesToGo = SettingOr0(args, "movestogo"),
           !.moveTime = IF HasSetting(args, "movetime") THEN SettingOr0(args, "movetime") ELSE @]
  BY DEF GoTime, r
<1> QED
  BY <1>1, <1>2, <1>3 DEF SameLimits, TimeFields

LEMMA InfiniteIsNatural == Infinite \in Nat
BY SMT DEF Infinite

LEMMA Divided ==
  ASSUME NEW n \in Nat, NEW k \in Nat, k # 0
  PROVE  n \div k \in Nat
OBVIOUS

LEMMA MoveTimeIsStarted ==
  ASSUME NEW t, NEW side, t.moveTime # Unset
  PROVE  start(t, side) = WithLimits(t, t.moveTime + t.inc[side], t.moveTime + t.inc[side])
BY SMT DEF start

LEMMA NoClockIsStarted ==
  ASSUME NEW t, NEW side, t.moveTime = Unset, t.time[side] = 0, t.inc[side] = 0
  PROVE  start(t, side) = WithLimits(t, Infinite, Infinite)
BY SMT DEF start

LEMMA SharesAreStarted ==
  ASSUME NEW t, NEW side, t.moveTime = Unset, t.time[side] # 0 \/ t.inc[side] # 0
  PROVE  start(t, side) =
           WithLimits(t, LesserOf(limitTime(t, side), (SoftFrac * baseTime(t, side)) \div 100000),
                         LesserOf(limitTime(t, side), (HardFrac * baseTime(t, side)) \div 100000))
BY SMT DEF start

\* Without a time for the move and with a clock or an increment.
LEMMA SharesAreOfTheClock ==
  ASSUME NEW t, Clocked(t), NEW side, t.time[side] \in Nat, t.inc[side] \in Nat,
         t.movesToGo \in Nat, t.moveTime = Unset, t.time[side] # 0 \/ t.inc[side] # 0
  PROVE  LET u == start(t, side)
         IN /\ Clocked(u) /\ u.overhead = t.overhead
            /\ u.soft =< u.hard
            /\ 100 * u.hard =< 80 * Greater(0, t.time[side] - t.overhead)
<1> DEFINE left == subtractOverhead(t, t.time[side])
<1> DEFINE base == baseTime(t, side)
<1>1. left \in Nat /\ left = Greater(0, t.time[side] - t.overhead)
  BY DEF subtractOverhead, Greater, Clocked
<1>2. base \in Nat
  <2> HIDE DEF left
  <2>1. left * 1000 \in Nat /\ left * BaseFrac \in Nat
    BY <1>1 DEF BaseFrac
  <2>2. t.movesToGo # 0 => (left * 1000) \div t.movesToGo \in Nat
    BY <2>1, Divided
  <2>3. t.inc[side] * IncFrac * 10 \in Nat
    BY DEF IncFrac
  <2>4. base = (IF t.movesToGo # 0 THEN (left * 1000) \div t.movesToGo ELSE left * BaseFrac)
               + t.inc[side] * IncFrac * 10
    BY DEF baseTime, left
  <2> HIDE DEF base
  <2> QED
    BY <2>1, <2>2, <2>3, <2>4
<1> DEFINE limit == (left * LimitFrac) \div 100
<1> DEFINE soft == LesserOf(limit, (SoftFrac * base) \div 100000)
<1> DEFINE hard == LesserOf(limit, (HardFrac * base) \div 100000)
<1>3. start(t, side) = WithLimits(t, soft, hard)
  <2>1. limitTime(t, side) = limit
    BY SMT DEF limitTime
  <2> QED
    BY <2>1, SharesAreStarted, SMT
<1> HIDE DEF left, base
<1>4. soft \in Nat /\ hard \in Nat /\ soft =< hard /\ 100 * hard =< 80 * left
  <2>1. limit \in Nat /\ 100 * limit =< 80 * left
    BY <1>1, SMT DEF LimitFrac
  <2> DEFINE a == (SoftFrac * base) \div 100000
  <2> DEFINE b == (HardFrac * base) \div 100000
  <2>2. a \in Nat /\ b \in Nat /\ a =< b
    BY <1>2, SMT DEF SoftFrac, HardFrac
  <2> HIDE DEF limit, a, b
  <2>3. soft = LesserOf(limit, a) /\ hard = LesserOf(limit, b)
    BY SMT DEF a, b
  <2> HIDE DEF soft, hard
  <2> QED
    BY <1>1, <2>1, <2>2, <2>3, SMT DEF LesserOf
<1> HIDE DEF soft, hard
<1> QED
  BY <1>1, <1>3, <1>4, NewLimits DEF Clocked

\* LimitsAreSaid, of any words and limits.
FitsThePairs(soft, hard, args, side, overhead) ==
  LET says(name) == \E i \in DOMAIN args : args[i].text = name
      time == SaidBy(args, IF side = "white" THEN "wtime" ELSE "btime")
      inc == SaidBy(args, IF side = "white" THEN "winc" ELSE "binc")
      left == Greater(0, time - overhead)
  IN IF says("ponder") \/ says("depth") THEN hard = Infinite /\ soft = Infinite
     ELSE IF says("movetime") THEN hard = SaidBy(args, "movetime") + inc /\ soft = hard
     ELSE IF time = 0 /\ inc = 0 THEN hard = Infinite /\ soft = Infinite
     ELSE soft =< hard /\ 100 * hard =< 80 * left

\* LimitsAreOfTheWords, of any words and limits.
FitsTheWords(soft, hard, args, side, overhead) ==
  LET says(name) == \E i \in DOMAIN args : args[i].text = name
      times == NumbersIn(args, IF side = "white" THEN "wtime" ELSE "btime")
      incs == NumbersIn(args, IF side = "white" THEN "winc" ELSE "binc")
  IN \/ hard = Infinite /\ soft = Infinite
     \/ /\ says("movetime")
        /\ \E time \in NumbersIn(args, "movetime"), inc \in incs : hard = time + inc /\ soft = hard
     \/ /\ soft =< hard
        /\ \E time \in times : 100 * hard =< 80 * Greater(0, time - overhead)

FitsTheGo(soft, hard, args, side, overhead) ==
  IF PairsIn(args) THEN FitsThePairs(soft, hard, args, side, overhead)
                   ELSE FitsTheWords(soft, hard, args, side, overhead)

GoDepthIsSet(args) == IF GoPonders(args) THEN FALSE ELSE GoDepth(args) # Unset

\* What a "go" that starts a search leaves.
TimedGo(t, args, side) ==
  IF GoPonders(args) \/ GoDepthIsSet(args) THEN startInfinite(GoTime(t, args))
                                           ELSE start(GoTime(t, args), side)

LEMMA PairsAreTimed ==
  ASSUME NEW t, Clocked(t), NEW args, GoWords(args), PairsIn(args),
         NEW side \in {"white", "black"}
  PROVE  LET u == TimedGo(t, args, side)
         IN /\ Clocked(u) /\ u.overhead = t.overhead
            /\ FitsThePairs(u.soft, u.hard, args, side, t.overhead)
<1> DEFINE says(name) == \E i \in DOMAIN args : args[i].text = name
<1> DEFINE timed == GoTime(t, args)
<1> DEFINE u == TimedGo(t, args, side)
<1> DEFINE time == SaidBy(args, IF side = "white" THEN "wtime" ELSE "btime")
<1> DEFINE inc == SaidBy(args, IF side = "white" THEN "winc" ELSE "binc")
<1>1. GoPonders(args) <=> says("ponder")
  BY NamesAreFound DEF GoPonders
<1>2. HasSetting(args, "depth") <=> says("depth")
  BY NamesAreFound
<1>3. HasSetting(args, "movetime") <=> says("movetime")
  BY NamesAreFound
<1>4. GoDepthIsSet(args) <=> ~says("ponder") /\ says("depth")
  <2>1. HasSetting(args, "depth") => GoDepth(args) \in Nat /\ GoDepth(args) # Unset
    <3>1. HasSetting(args, "depth") => to_number(LastValue(args, "depth")) \in Nat
      BY SettingsAreSaid
    <3>2. DepthRange \in Nat /\ DepthRange # 0
      BY DeepeningAssumption
    <3>3. ASSUME NEW n \in Nat PROVE n # Unset /\ n % DepthRange \in Nat /\ n % DepthRange # Unset
      BY <3>2 DEF Unset
    <3> QED
      BY <3>1, <3>3 DEF GoDepth
  <2>2. ~HasSetting(args, "depth") => GoDepth(args) = Unset
    BY DEF GoDepth
  <2> QED
    BY <1>1, <1>2, <2>1, <2>2 DEF GoDepthIsSet
<1>5. /\ Clocked(timed) /\ timed.overhead = t.overhead
      /\ timed.time[side] = time /\ timed.inc[side] = inc
      /\ time \in Nat /\ inc \in Nat /\ timed.movesToGo \in Nat
      /\ timed.moveTime = IF HasSetting(args, "movetime") THEN SaidBy(args, "movetime") ELSE Unset
      /\ SaidBy(args, "movetime") \in Nat
  <2>1. /\ SameLimits(t, timed)
        /\ timed.time = [white |-> SettingOr0(args, "wtime"), black |-> SettingOr0(args, "btime")]
        /\ timed.inc = [white |-> SettingOr0(args, "winc"), black |-> SettingOr0(args, "binc")]
        /\ timed.movesToGo = SettingOr0(args, "movestogo")
        /\ timed.moveTime = IF HasSetting(args, "movetime") THEN SettingOr0(args, "movetime")
                                                            ELSE Unset
    BY GoSets
  <2> HIDE DEF timed
  <2>2. \A name \in {"wtime", "btime", "winc", "binc", "movestogo", "movetime"} :
          SettingOr0(args, name) = SaidBy(args, name) /\ SettingOr0(args, name) \in Nat
    BY SettingsAreSaid
  <2>3. Clocked(timed) /\ timed.overhead = t.overhead
    BY <2>1, SameIsClocked DEF SameLimits
  <2>4. timed.time[side] = time /\ timed.inc[side] = inc /\ time \in Nat /\ inc \in Nat
    BY <2>1, <2>2
  <2> QED
    BY <2>1, <2>2, <2>3, <2>4
<1> HIDE DEF timed, time, inc, says
<1>6. CASE says("ponder") \/ says("depth")
  <2>1. u = startInfinite(timed)
    BY <1>1, <1>4, <1>6 DEF TimedGo, timed
  <2>2. Clocked(u) /\ u.soft = Infinite /\ u.hard = Infinite /\ u.overhead = t.overhead
    BY <1>5, <2>1, InfiniteIsNatural, NewLimits DEF startInfinite, Clocked
  <2> QED
    BY <1>6, <2>2 DEF FitsThePairs, says
<1>7. CASE ~(says("ponder") \/ says("depth"))
  <2>1. u = start(timed, side)
    BY <1>1, <1>4, <1>7 DEF TimedGo, timed
  <2>2. CASE says("movetime")
    <3>1. timed.moveTime = SaidBy(args, "movetime") /\ timed.moveTime # Unset
          /\ timed.moveTime + inc \in Nat
      BY <1>3, <1>5, <2>2 DEF Unset
    <3>2. u = WithLimits(timed, timed.moveTime + inc, timed.moveTime + inc)
      BY <1>5, <2>1, <3>1, MoveTimeIsStarted
    <3>3. Clocked(u) /\ u.soft = u.hard /\ u.hard = SaidBy(args, "movetime") + inc
          /\ u.overhead = t.overhead
      BY <1>5, <3>1, <3>2, NewLimits DEF Clocked
    <3> QED
      BY <1>7, <2>2, <3>3 DEF FitsThePairs, says, inc
  <2>3. CASE ~says("movetime") /\ time = 0 /\ inc = 0
    <3>1. timed.moveTime = Unset
      BY <1>3, <1>5, <2>3
    <3>2. u = WithLimits(timed, Infinite, Infinite)
      BY <1>5, <2>1, <2>3, <3>1, NoClockIsStarted
    <3>3. Clocked(u) /\ u.soft = Infinite /\ u.hard = Infinite /\ u.overhead = t.overhead
      BY <1>5, <3>2, InfiniteIsNatural, NewLimits DEF Clocked
    <3> QED
      BY <1>7, <2>3, <3>3 DEF FitsThePairs, says, time, inc
  <2>4. CASE ~says("movetime") /\ ~(time = 0 /\ inc = 0)
    <3>1. timed.moveTime = Unset
      BY <1>3, <1>5, <2>4
    <3>2. /\ Clocked(u) /\ u.overhead = t.overhead
          /\ u.soft =< u.hard
          /\ 100 * u.hard =< 80 * Greater(0, time - t.overhead)
      BY <1>5, <2>1, <2>4, <3>1, SharesAreOfTheClock
    <3> QED
      BY <1>7, <2>4, <3>2 DEF FitsThePairs, says, time, inc
  <2> QED
    BY <2>2, <2>3, <2>4
<1> QED
  BY <1>6, <1>7 DEF timed

\* A line of any words has limits of its own as well.
LEMMA WordsAreTimed ==
  ASSUME NEW t, Clocked(t), NEW args, GoWords(args), NEW side \in {"white", "black"}
  PROVE  LET u == TimedGo(t, args, side)
         IN /\ Clocked(u) /\ u.overhead = t.overhead
            /\ FitsTheWords(u.soft, u.hard, args, side, t.overhead)
<1> DEFINE says(name) == \E i \in DOMAIN args : args[i].text = name
<1> DEFINE timed == GoTime(t, args)
<1> DEFINE u == TimedGo(t, args, side)
<1> DEFINE time == SettingOr0(args, IF side = "white" THEN "wtime" ELSE "btime")
<1> DEFINE inc == SettingOr0(args, IF side = "white" THEN "winc" ELSE "binc")
<1> DEFINE times == NumbersIn(args, IF side = "white" THEN "wtime" ELSE "btime")
<1> DEFINE incs == NumbersIn(args, IF side = "white" THEN "winc" ELSE "binc")
<1>1. /\ Clocked(timed) /\ timed.overhead = t.overhead
      /\ timed.time[side] = time /\ timed.inc[side] = inc
      /\ timed.movesToGo = SettingOr0(args, "movestogo")
      /\ timed.moveTime = IF HasSetting(args, "movetime") THEN SettingOr0(args, "movetime")
                                                          ELSE Unset
  <2>1. /\ SameLimits(t, timed)
        /\ timed.time = [white |-> SettingOr0(args, "wtime"), black |-> SettingOr0(args, "btime")]
        /\ timed.inc = [white |-> SettingOr0(args, "winc"), black |-> SettingOr0(args, "binc")]
        /\ timed.movesToGo = SettingOr0(args, "movestogo")
        /\ timed.moveTime = IF HasSetting(args, "movetime") THEN SettingOr0(args, "movetime")
                                                            ELSE Unset
    BY GoSets
  <2> HIDE DEF timed
  <2>2. Clocked(timed) /\ timed.overhead = t.overhead
    BY <2>1, SameIsClocked DEF SameLimits
  <2>3. timed.time[side] = time /\ timed.inc[side] = inc
    BY <2>1
  <2> QED
    BY <2>1, <2>2, <2>3
<1>2. time \in times /\ time \in Nat /\ inc \in incs /\ inc \in Nat
  BY SettingsAreWords
<1>3. /\ SettingOr0(args, "movestogo") \in Nat
      /\ SettingOr0(args, "movetime") \in Nat
      /\ SettingOr0(args, "movetime") \in NumbersIn(args, "movetime")
      /\ HasSetting(args, "movetime") => says("movetime")
  BY SettingsAreWords
<1>4. u = startInfinite(timed) \/ u = start(timed, side)
  BY DEF TimedGo
<1>5. FitsTheWords(u.soft, u.hard, args, side, t.overhead) <=>
        \/ u.hard = Infinite /\ u.soft = Infinite
        \/ /\ says("movetime")
           /\ \E n \in NumbersIn(args, "movetime"), i \in incs : u.hard = n + i /\ u.soft = u.hard
        \/ /\ u.soft =< u.hard
           /\ \E n \in times : 100 * u.hard =< 80 * Greater(0, n - t.overhead)
  BY Zenon DEF FitsTheWords
<1> HIDE DEF timed, time, inc, times, incs, u, says
<1>6. CASE u = startInfinite(timed)
  <2>1. Clocked(u) /\ u.soft = Infinite /\ u.hard = Infinite /\ u.overhead = t.overhead
    BY <1>1, <1>6, InfiniteIsNatural, NewLimits DEF startInfinite, Clocked
  <2> QED
    BY <1>5, <2>1 DEF u
<1>7. CASE u = start(timed, side)
  <2>1. CASE HasSetting(args, "movetime")
    <3> DEFINE n == SettingOr0(args, "movetime")
    <3>1. timed.moveTime = n /\ timed.moveTime # Unset /\ n + inc \in Nat
      BY <1>1, <1>2, <1>3, <2>1 DEF Unset
    <3>2. u = WithLimits(timed, n + inc, n + inc)
      BY <1>1, <1>7, <3>1, MoveTimeIsStarted
    <3> HIDE DEF n
    <3>3. Clocked(u) /\ u.soft = n + inc /\ u.hard = n + inc /\ u.overhead = t.overhead
      BY <1>1, <3>1, <3>2, NewLimits DEF Clocked
    <3>4. n \in NumbersIn(args, "movetime") /\ says("movetime")
      BY <1>3, <2>1 DEF n
    <3> QED
      BY <1>2, <1>5, <3>3, <3>4 DEF u
  <2>2. CASE ~HasSetting(args, "movetime") /\ time = 0 /\ inc = 0
    <3>1. timed.moveTime = Unset
      BY <1>1, <2>2
    <3>2. u = WithLimits(timed, Infinite, Infinite)
      BY <1>1, <1>7, <2>2, <3>1, NoClockIsStarted
    <3>3. Clocked(u) /\ u.soft = Infinite /\ u.hard = Infinite /\ u.overhead = t.overhead
      BY <1>1, <3>2, InfiniteIsNatural, NewLimits DEF Clocked
    <3> QED
      BY <1>5, <3>3 DEF u
  <2>3. CASE ~HasSetting(args, "movetime") /\ ~(time = 0 /\ inc = 0)
    <3>1. timed.moveTime = Unset
      BY <1>1, <2>3
    <3>2. /\ Clocked(u) /\ u.overhead = t.overhead
          /\ u.soft =< u.hard
          /\ 100 * u.hard =< 80 * Greater(0, time - t.overhead)
      BY <1>1, <1>2, <1>3, <1>7, <2>3, <3>1, SharesAreOfTheClock
    <3> QED
      BY <1>2, <1>5, <3>2 DEF u
  <2> QED
    BY <2>1, <2>2, <2>3
<1> QED
  BY <1>4, <1>6, <1>7

LEMMA GoIsTimed ==
  ASSUME NEW t, Clocked(t), NEW args, GoWords(args), NEW side \in {"white", "black"}
  PROVE  LET u == TimedGo(t, args, side)
         IN /\ Clocked(u) /\ u.overhead = t.overhead
            /\ FitsTheGo(u.soft, u.hard, args, side, t.overhead)
BY PairsAreTimed, WordsAreTimed DEF FitsTheGo

------------------------------------------------------------------------------
(* The invariant *)

OptionTypes ==
  /\ option \in [Hash : Int, Threads : Int, MoveOverhead : Int, SyzygyProbeLimit : Int,
                 Ponder : BOOLEAN]
  /\ 1 =< option.Hash /\ option.Hash =< 1024
  /\ 1 =< option.Threads /\ option.Threads =< 128
  /\ 0 =< option.MoveOverhead /\ option.MoveOverhead =< 10000
  /\ 0 =< option.SyzygyProbeLimit /\ option.SyzygyProbeLimit =< 7
  /\ engine \in [searchers : Int, entries : Int, ponder : BOOLEAN]
  /\ benched \in BOOLEAN

CommandTypes ==
  /\ player \in {"white", "black"}
  /\ GoWords(go)
  /\ Clocked(tm)

\* A searcher alone stays within the scores; the window around the result of
\* several may go beyond them, but by no more than the width it is given.
LoopTypes ==
  /\ pc \in {"idle", "iterate", "single", "multi"}
  /\ depth \in Nat /\ depth < DepthRange
  /\ d \in Nat /\ d < DepthRange
  /\ window \in [alpha : Int, beta : Int, delta : Int, depthReduction : Int]
  /\ MinScore - AspirationWindow =< window.alpha /\ window.alpha =< MaxScore
  /\ MinScore =< window.beta /\ window.beta =< MaxScore + AspirationWindow
  /\ AspirationWindow =< window.delta /\ window.delta =< 8 * AspirationWindow
  /\ 0 =< window.depthReduction /\ window.depthReduction =< 2
  /\ bestScore \in Int /\ MinScore =< bestScore /\ bestScore =< MaxScore

\* A search only runs towards a depth that was asked for.
LoopIsForADepth ==
  /\ depth = 0 => d = 1
  /\ pc \in {"single", "multi"} => depth # 0 /\ d =< depth /\ counted = {}

OpenWindow == window.alpha = MinScore /\ window.beta = MaxScore

\* The width doubles with every search outside of the window, whose depth is
\* reduced by no more than their number; the third opens it.
WindowGrows ==
  pc = "single" =>
    /\ window.alpha < window.beta /\ MinScore =< window.alpha /\ window.beta =< MaxScore
    /\ d < AspirationMinDepth => OpenWindow
    /\ \/ fails = 0 /\ window.delta = AspirationWindow /\ window.depthReduction = 0
       \/ fails = 1 /\ window.delta = 2 * AspirationWindow /\ window.depthReduction =< 1
       \/ fails = 2 /\ window.delta = 4 * AspirationWindow
       \/ fails = 3 /\ OpenWindow

CommandParts == OptionTypes /\ OptionsAreInEffect /\ CommandTypes /\ LimitsAreOfThisGo
LoopParts == LoopTypes /\ LoopIsForADepth /\ WindowGrows /\ WinnerIsCounted

DeepeningInv == CommandParts /\ LoopParts

LEMMA LimitsFit ==
  LimitsAreOfThisGo <=>
    (Searching => FitsTheGo(tm.soft, tm.hard, go, player, option.MoveOverhead))
<1>1. InPairs <=> PairsIn(go)
  BY Zenon DEF InPairs, PairsIn
<1>2. LimitsAreSaid <=> FitsThePairs(tm.soft, tm.hard, go, player, option.MoveOverhead)
  BY Zenon DEF LimitsAreSaid, FitsThePairs, Says, Said, SaidBy
<1>3. LimitsAreOfTheWords <=> FitsTheWords(tm.soft, tm.hard, go, player, option.MoveOverhead)
  BY Zenon DEF LimitsAreOfTheWords, FitsTheWords, Says, Numbers, NumbersIn
<1> QED
  BY <1>1, <1>2, <1>3 DEF LimitsAreOfThisGo, FitsTheGo

LEMMA SideOfThePosition ==
  ASSUME NEW args, Read("position", args) PROVE args[1].text \in {"white", "black"}
<1>1. PICK line \in Lines : Head(line).text = "position" /\ args = Tail(line)
  BY DEF Read
<1>2. line \in Seq(Word) /\ Len(line) >= 2 /\ line[2].text \in {"white", "black"}
  BY <1>1, LinesAssumption
<1>3. args[1] = line[2]
  BY <1>1, <1>2
<1> QED
  BY <1>2, <1>3

LEMMA ArgumentsOfAGo ==
  ASSUME NEW args, Read("go", args) PROVE GoWords(args)
BY LinesAssumption DEF Read

LEMMA ValueIsANumber ==
  ASSUME NEW args, Read("setoption", args), IsSetOption(args) PROVE args[4].number \in Int
<1>1. PICK line \in Lines : Head(line).text = "setoption" /\ args = Tail(line)
  BY DEF Read
<1>2. line \in Seq(Word) /\ line # <<>>
  BY <1>1, LinesAssumption
<1>3. args \in Seq(Word) /\ Len(args) >= 4
  BY <1>1, <1>2 DEF IsSetOption
<1>4. args[4] \in Word
  BY <1>3
<1> QED
  BY <1>4 DEF Word

LEMMA InitCommands == Init => CommandParts
<1> SUFFICES ASSUME Init PROVE CommandParts
  OBVIOUS
<1>1. OptionTypes
  <2>1. /\ option = [Hash |-> 16, Threads |-> 1, MoveOverhead |-> 50, SyzygyProbeLimit |-> 0,
                     Ponder |-> FALSE]
        /\ engine = [searchers |-> 1, entries |-> 16 * 65536, ponder |-> FALSE]
        /\ benched = FALSE
    BY DEF Init, Defaults, tableSizeFromMb, EntriesPerMb
  <2>2. engine \in [searchers : Int, entries : Int, ponder : BOOLEAN]
    BY <2>1
  <2>3. option \in [Hash : Int, Threads : Int, MoveOverhead : Int, SyzygyProbeLimit : Int,
                    Ponder : BOOLEAN]
    BY <2>1
  <2>4. benched \in BOOLEAN
    <3>1. benched = FALSE
      BY <2>1
    <3> QED
      BY <3>1
  <2>5. /\ 1 =< option.Hash /\ option.Hash =< 1024
        /\ 1 =< option.Threads /\ option.Threads =< 128
        /\ 0 =< option.MoveOverhead /\ option.MoveOverhead =< 10000
        /\ 0 =< option.SyzygyProbeLimit /\ option.SyzygyProbeLimit =< 7
    BY <2>1
  <2> QED
    BY <2>2, <2>3, <2>4, <2>5 DEF OptionTypes
<1>2. OptionsAreInEffect
  BY InitialIsClocked DEF Init, Defaults, OptionsAreInEffect
<1>3. CommandTypes
  BY InitialIsClocked DEF Init, CommandTypes, GoWords
<1>4. LimitsAreOfThisGo
  BY DEF Init, LimitsAreOfThisGo, Searching
<1> QED
  BY <1>1, <1>2, <1>3, <1>4 DEF CommandParts

LEMMA GoKeepsCommands ==
  ASSUME CommandParts, NEW args, Go(args) PROVE CommandParts'
<1> DEFINE timed == GoTime(tm, args)
<1>1. GoWords(args) /\ pc = "idle" /\ go' = args
  BY ArgumentsOfAGo DEF Go, Read
<1>2. Clocked(tm) /\ player \in {"white", "black"}
  BY DEF CommandParts, CommandTypes
<1>3. OptionTypes'
  BY DEF CommandParts, OptionTypes, Go
<1>4. CASE GoPonders(args) /\ ~engine.ponder
  <2>1. tm' = timed /\ pc' = "idle"
    BY <1>1, <1>4 DEF Go, jobVars
  <2>2. SameLimits(tm, tm')
    BY <1>2, <2>1, GoSets
  <2>3. Clocked(tm')
    BY <1>2, <2>2, SameIsClocked
  <2>4. CommandTypes'
    BY <1>1, <1>2, <2>3 DEF CommandTypes, Go
  <2>5. OptionsAreInEffect'
    BY <2>2 DEF CommandParts, OptionsAreInEffect, SameLimits, Go
  <2>6. LimitsAreOfThisGo'
    BY <2>1 DEF LimitsAreOfThisGo, Searching
  <2> QED
    BY <1>3, <2>4, <2>5, <2>6 DEF CommandParts
<1>5. CASE ~(GoPonders(args) /\ ~engine.ponder)
  <2>1. tm' = TimedGo(tm, args, player)
    BY <1>5 DEF Go, TimedGo, GoDepthIsSet
  <2>2. /\ Clocked(tm') /\ tm'.overhead = tm.overhead
        /\ FitsTheGo(tm'.soft, tm'.hard, args, player, tm.overhead)
    BY <1>1, <1>2, <2>1, GoIsTimed
  <2>3. CommandTypes'
    BY <1>1, <1>2, <2>2 DEF CommandTypes, Go
  <2>4. OptionsAreInEffect'
    BY <2>2 DEF CommandParts, OptionsAreInEffect, Go
  <2>5. LimitsAreOfThisGo'
    <3>1. tm.overhead = option.MoveOverhead /\ option' = option /\ player' = player
      BY DEF CommandParts, OptionsAreInEffect, Go
    <3>2. (Searching => FitsTheGo(tm.soft, tm.hard, go, player, option.MoveOverhead))'
      BY <1>1, <2>2, <3>1
    <3>3. LimitsAreOfThisGo' <=>
            (Searching => FitsTheGo(tm.soft, tm.hard, go, player, option.MoveOverhead))'
      BY LimitsFit, PTL
    <3> QED
      BY <3>2, <3>3
  <2> QED
    BY <1>3, <2>3, <2>4, <2>5 DEF CommandParts
<1> QED
  BY <1>4, <1>5

LEMMA SetOptionKeepsCommands ==
  ASSUME CommandParts, NEW args, SetOption(args) PROVE CommandParts'
<1>1. pc' = "idle" /\ go' = go /\ player' = player
  BY DEF SetOption, Read, jobVars
<1>2. Clocked(tm) /\ GoWords(go) /\ player \in {"white", "black"}
  BY DEF CommandParts, CommandTypes
<1>3. LimitsAreOfThisGo'
  BY <1>1 DEF LimitsAreOfThisGo, Searching
<1>4. CASE ~(IsSetOption(args) /\ Accepts(OptionName(args), args[4]))
  <2>1. UNCHANGED <<option, engine, tm, benched>>
    BY <1>4 DEF SetOption
  <2>2. OptionTypes' /\ OptionsAreInEffect'
    BY <2>1 DEF CommandParts, OptionTypes, OptionsAreInEffect
  <2>3. CommandTypes'
    BY <1>1, <1>2, <2>1 DEF CommandTypes
  <2> QED
    BY <1>3, <2>2, <2>3 DEF CommandParts
<1>5. CASE IsSetOption(args) /\ Accepts(OptionName(args), args[4])
  <2> DEFINE name == OptionName(args)
  <2> DEFINE value == OptionValue(name, args[4])
  <2>1. /\ option' = [option EXCEPT ![name] = value]
        /\ InEffect(name, value)
        /\ benched' = (benched /\ name # "Hash")
    BY <1>5 DEF SetOption
  <2>2. Read("setoption", args)
    BY DEF SetOption
  <2>3. args[4].number \in Int
    BY <1>5, <2>2, ValueIsANumber
  <2>4. name \in {"Hash", "Threads", "MoveOverhead", "SyzygyProbeLimit", "Ponder"}
    BY <1>5 DEF IsSetOption, OptionName, Defaults
  <2>5. name # "Ponder" =>
          /\ value = args[4].number
          /\ Limits[name].min =< value /\ value =< Limits[name].max
    BY <1>5, <2>4 DEF Accepts, OptionValue, Spins, Limits, to_number
  <2>6. name = "Ponder" => value \in BOOLEAN
    BY DEF OptionValue, Spins, Limits
  <2> HIDE DEF name, value
  <2>7. OptionTypes /\ OptionsAreInEffect
    BY DEF CommandParts
  <2>13. name # "Hash" => benched' = benched
    <3>1. benched \in BOOLEAN
      BY <2>7 DEF OptionTypes
    <3>2. CASE benched = TRUE
      BY <2>1, <3>2
    <3>3. CASE benched = FALSE
      BY <2>1, <3>3
    <3> QED
      BY <3>1, <3>2, <3>3
  <2>8. CASE name = "Hash"
    <3>1. value \in Int /\ 1 =< value /\ value =< 1024
      BY <2>3, <2>5, <2>8 DEF Limits
    <3>2. engine' = [engine EXCEPT !.entries = value * 65536] /\ tm' = tm
      BY <2>1, <2>8, <3>1 DEF InEffect, setSizeMb, tableSizeFromMb, EntriesPerMb
    <3>3. option' = [option EXCEPT !.Hash = value] /\ benched' = FALSE
      BY <2>1, <2>8
    <3>4. OptionTypes'
      <4>1. engine' \in [searchers : Int, entries : Int, ponder : BOOLEAN]
        BY <2>7, <3>1, <3>2 DEF OptionTypes
      <4>2. benched' \in BOOLEAN
        BY <3>3
      <4> QED
        BY <2>7, <3>1, <3>3, <4>1, <4>2 DEF OptionTypes
    <3>5. OptionsAreInEffect'
      BY <2>7, <3>1, <3>2, <3>3
         DEF OptionTypes, OptionsAreInEffect, tableSizeFromMb, EntriesPerMb
    <3>6. CommandTypes'
      BY <1>1, <1>2, <3>2 DEF CommandTypes
    <3> QED
      BY <1>3, <3>4, <3>5, <3>6 DEF CommandParts
  <2>9. CASE name = "Threads"
    <3>1. value \in Int /\ 1 =< value /\ value =< 128
      BY <2>3, <2>5, <2>9 DEF Limits
    <3>2. engine' = [engine EXCEPT !.searchers = value] /\ tm' = tm
      BY <2>1, <2>9 DEF InEffect
    <3>3. option' = [option EXCEPT !.Threads = value] /\ benched' = benched
      BY <2>1, <2>13, <2>9
    <3>4. OptionTypes'
      BY <2>7, <3>1, <3>2, <3>3 DEF OptionTypes
    <3>5. OptionsAreInEffect'
      BY <2>7, <3>1, <3>2, <3>3 DEF OptionTypes, OptionsAreInEffect
    <3>6. CommandTypes'
      BY <1>1, <1>2, <3>2 DEF CommandTypes
    <3> QED
      BY <1>3, <3>4, <3>5, <3>6 DEF CommandParts
  <2>10. CASE name = "MoveOverhead"
    <3>1. value \in Nat /\ value =< 10000
      BY <2>3, <2>5, <2>10 DEF Limits
    <3>2. engine' = engine /\ tm' = [tm EXCEPT !.overhead = value]
      BY <2>1, <2>10 DEF InEffect
    <3>3. option' = [option EXCEPT !.MoveOverhead = value] /\ benched' = benched
      BY <2>1, <2>13, <2>10
    <3>4. OptionTypes'
      BY <2>7, <3>1, <3>2, <3>3 DEF OptionTypes
    <3>5. Clocked(tm') /\ tm'.overhead = value
      BY <1>2, <3>1, <3>2 DEF Clocked, TimeFields
    <3>6. OptionsAreInEffect'
      BY <2>7, <3>2, <3>3, <3>5 DEF OptionTypes, OptionsAreInEffect
    <3>7. CommandTypes'
      BY <1>1, <1>2, <3>5 DEF CommandTypes
    <3> QED
      BY <1>3, <3>4, <3>6, <3>7 DEF CommandParts
  <2>11. CASE name = "SyzygyProbeLimit"
    <3>1. value \in Int /\ 0 =< value /\ value =< 7
      BY <2>3, <2>5, <2>11 DEF Limits
    <3>2. engine' = engine /\ tm' = tm
      BY <2>1, <2>11 DEF InEffect
    <3>3. option' = [option EXCEPT !.SyzygyProbeLimit = value] /\ benched' = benched
      BY <2>1, <2>13, <2>11
    <3>4. OptionTypes'
      BY <2>7, <3>1, <3>2, <3>3 DEF OptionTypes
    <3>5. OptionsAreInEffect'
      BY <2>7, <3>2, <3>3 DEF OptionTypes, OptionsAreInEffect
    <3>6. CommandTypes'
      BY <1>1, <1>2, <3>2 DEF CommandTypes
    <3> QED
      BY <1>3, <3>4, <3>5, <3>6 DEF CommandParts
  <2>12. CASE name = "Ponder"
    <3>1. engine' = [engine EXCEPT !.ponder = value] /\ tm' = tm
      BY <2>1, <2>12 DEF InEffect
    <3>2. option' = [option EXCEPT !.Ponder = value] /\ benched' = benched
      BY <2>1, <2>13, <2>12
    <3>3. OptionTypes'
      BY <2>6, <2>7, <2>12, <3>1, <3>2 DEF OptionTypes
    <3>4. OptionsAreInEffect'
      BY <2>7, <3>1, <3>2 DEF OptionTypes, OptionsAreInEffect
    <3>5. CommandTypes'
      BY <1>1, <1>2, <3>1 DEF CommandTypes
    <3> QED
      BY <1>3, <3>3, <3>4, <3>5 DEF CommandParts
  <2> QED
    BY <2>4, <2>8, <2>9, <2>10, <2>11, <2>12
<1> QED
  BY <1>4, <1>5

LEMMA PositionKeepsCommands ==
  ASSUME CommandParts, NEW args, Position(args) PROVE CommandParts'
<1>1. pc' = "idle" /\ go' = go /\ player' = args[1].text /\ tm' = reset(tm)
  BY DEF Position, Read, jobVars
<1>2. Clocked(tm) /\ GoWords(go)
  BY DEF CommandParts, CommandTypes
<1>3. player' \in {"white", "black"}
  BY <1>1, SideOfThePosition DEF Position
<1>4. SameLimits(tm, tm')
  BY <1>1, <1>2, LimitsStay
<1>5. Clocked(tm')
  BY <1>2, <1>4, SameIsClocked
<1>6. CommandTypes'
  BY <1>1, <1>2, <1>3, <1>5 DEF CommandTypes
<1>7. LimitsAreOfThisGo'
  BY <1>1 DEF LimitsAreOfThisGo, Searching
<1>8. OptionTypes' /\ OptionsAreInEffect'
  BY <1>4 DEF CommandParts, OptionTypes, OptionsAreInEffect, SameLimits, Position
<1> QED
  BY <1>6, <1>7, <1>8 DEF CommandParts

\* The table comes back in steps of 16 MB: a second bench changes nothing.
LEMMA SizeAfterABench ==
  ASSUME NEW mb \in Int, 1 =< mb
  PROVE  /\ getSizeMb(tableSizeFromMb(mb)) = 0 <=> mb < 16
         /\ mb >= 16 => getSizeMb(tableSizeFromMb(mb)) = mb - (mb % 16)
<1> DEFINE q == mb \div 16
<1> DEFINE r == mb % 16
<1>1. q \in Int /\ r \in Int /\ 0 =< r /\ r < 16 /\ mb = 16 * q + r
  BY SMT
<1> HIDE DEF q, r
<1>2. (mb * 65536) \div 1048576 = q
  BY <1>1, SMT
<1>3. getSizeMb(tableSizeFromMb(mb)) = q * 16
  BY <1>2, SMT DEF getSizeMb, tableSizeFromMb, EntriesPerMb
<1>4. (q * 16 = 0 <=> mb < 16) /\ (mb >= 16 => q * 16 = mb - r)
  BY <1>1, SMT
<1> QED
  BY <1>3, <1>4, Zenon DEF r

LEMMA BenchKeepsCommands ==
  ASSUME CommandParts, NEW args, Bench(args) PROVE CommandParts'
<1> DEFINE mb == IF ~benched THEN option.Hash
                 ELSE IF option.Hash < 16 THEN 128 ELSE option.Hash - (option.Hash % 16)
<1> DEFINE after == IF option.Hash < 16 THEN 128 ELSE option.Hash - (option.Hash % 16)
<1>1. pc' = "idle" /\ go' = go /\ player' = player /\ option' = option /\ benched' = TRUE
  BY DEF Bench, Read, jobVars
<1>2. Clocked(tm) /\ GoWords(go) /\ player \in {"white", "black"}
  BY DEF CommandParts, CommandTypes
<1>3. LimitsAreOfThisGo'
  BY <1>1 DEF LimitsAreOfThisGo, Searching
<1>4. Clocked(tm') /\ tm'.overhead = tm.overhead
  <2> DEFINE cleared == reset(tm)
  <2> DEFINE endless == startInfinite(cleared)
  <2>1. SameLimits(tm, cleared)
    BY <1>2, LimitsStay
  <2>2. Clocked(cleared) /\ cleared.overhead = tm.overhead
    BY <1>2, <2>1, SameIsClocked DEF SameLimits
  <2> HIDE DEF cleared
  <2>3. Clocked(endless) /\ endless.overhead = tm.overhead
    BY <2>2, InfiniteIsNatural, NewLimits DEF startInfinite, Clocked
  <2> HIDE DEF endless
  <2>4. tm' = stop(endless)
    BY DEF Bench, endless, cleared
  <2>5. SameLimits(endless, stop(endless))
    BY <2>3, LimitsStay
  <2> QED
    BY <2>3, <2>4, <2>5, SameIsClocked DEF SameLimits
<1>5. CommandTypes'
  BY <1>1, <1>2, <1>4 DEF CommandTypes
<1>6. option.Hash \in Int /\ 1 =< option.Hash
  BY DEF CommandParts, OptionTypes
<1>7. mb \in Int /\ 1 =< mb /\ engine.entries = tableSizeFromMb(mb)
  <2>1. mb \in Int /\ 1 =< mb
    BY <1>6, SMT
  <2>2. engine.entries = tableSizeFromMb(mb)
    BY DEF CommandParts, OptionsAreInEffect
  <2> QED
    BY <2>1, <2>2
<1>8. (IF mb < 16 THEN 128 ELSE mb - (mb % 16)) = after
  <2>1. CASE ~benched
    BY <2>1
  <2>2. CASE benched /\ option.Hash < 16
    BY <2>2, SMT
  <2>3. CASE benched /\ ~(option.Hash < 16)
    BY <1>6, <2>3, SMT
  <2> QED
    BY <2>1, <2>2, <2>3
<1> DEFINE before == getSizeMb(engine.entries)
<1>9. engine' = [engine EXCEPT !.entries = setSizeMb(tableSizeFromMb(128), before)]
  BY SMT DEF Bench, setSizeMb
<1> HIDE DEF mb, after
<1>10. setSizeMb(tableSizeFromMb(128), before) = tableSizeFromMb(after)
  <2>1. before = getSizeMb(tableSizeFromMb(mb))
    BY <1>7
  <2> HIDE DEF before
  <2>2. (before = 0 <=> mb < 16) /\ (mb >= 16 => before = mb - (mb % 16))
    BY <1>7, <2>1, SizeAfterABench
  <2>3. CASE mb < 16
    BY <1>8, <2>2, <2>3 DEF setSizeMb
  <2>4. CASE ~(mb < 16)
    <3>1. mb >= 16 /\ before # 0 /\ after = before
      BY <1>7, <1>8, <2>2, <2>4
    <3> QED
      BY <3>1 DEF setSizeMb
  <2> QED
    BY <2>3, <2>4
<1>11. tableSizeFromMb(after) \in Int
  <2>1. after \in Int
    BY <1>6 DEF after
  <2> QED
    BY <2>1 DEF tableSizeFromMb, EntriesPerMb
<1>12. engine' = [engine EXCEPT !.entries = tableSizeFromMb(after)]
  BY <1>9, <1>10
<1>13. OptionTypes'
  BY <1>1, <1>11, <1>12 DEF CommandParts, OptionTypes
<1>14. OptionsAreInEffect'
  <2>1. engine'.entries = tableSizeFromMb(after) /\ engine'.searchers = engine.searchers
        /\ engine'.ponder = engine.ponder
    BY <1>12 DEF CommandParts, OptionTypes
  <2>2. /\ engine.searchers = option.Threads /\ engine.ponder = option.Ponder
        /\ tm.overhead = option.MoveOverhead
    BY DEF CommandParts, OptionsAreInEffect
  <2> QED
    BY <1>1, <1>4, <2>1, <2>2 DEF OptionsAreInEffect, after
<1> QED
  BY <1>3, <1>5, <1>13, <1>14 DEF CommandParts

\* The job leaves what the commands set alone and the limits where they are.
LEMMA JobKeepsCommands ==
  ASSUME CommandParts, UNCHANGED commandVars, SameLimits(tm, tm'), Searching' => Searching
  PROVE  CommandParts'
<1>1. OptionTypes' /\ OptionsAreInEffect'
  BY DEF CommandParts, OptionTypes, OptionsAreInEffect, SameLimits, commandVars
<1>2. Clocked(tm')
  BY SameIsClocked DEF CommandParts, CommandTypes
<1>3. CommandTypes'
  BY <1>2 DEF CommandParts, CommandTypes, commandVars
<1>4. LimitsAreOfThisGo'
  <2>1. Searching => FitsTheGo(tm.soft, tm.hard, go, player, option.MoveOverhead)
    BY LimitsFit DEF CommandParts
  <2>2. (Searching => FitsTheGo(tm.soft, tm.hard, go, player, option.MoveOverhead))'
    BY <2>1 DEF SameLimits, commandVars
  <2>3. LimitsAreOfThisGo' <=>
          (Searching => FitsTheGo(tm.soft, tm.hard, go, player, option.MoveOverhead))'
    BY LimitsFit, PTL
  <2> QED
    BY <2>2, <2>3
<1> QED
  BY <1>1, <1>3, <1>4 DEF CommandParts

------------------------------------------------------------------------------
(* The loop *)

LEMMA ScoreNumbers ==
  MaxScore = 30000 /\ MinScore = -30000 /\ AspirationWindow = 81 /\ AspirationMaxWindow = 500
BY DEF MaxScore, MinScore, AspirationWindow, AspirationMaxWindow

LEMMA ChoiceIsInside ==
  ASSUME NEW score \in ScoreChoices
  PROVE  score \in Int /\ MinScore < score /\ score < MaxScore
<1>1. MinScore \in Int /\ MaxScore \in Int
  BY ScoreNumbers
<1>2. score \in (MinScore + 1) .. (MaxScore - 1)
  BY DeepeningAssumption
<1> QED
  BY <1>1, <1>2

LEMMA Depths ==
  /\ DepthRange \in Nat /\ DepthRange >= 3
  /\ MaxSearchDepth \in Nat /\ MaxSearchDepth < DepthRange
  /\ AspirationMinDepth \in Nat
BY DeepeningAssumption

LEMMA NextIsADepth ==
  ASSUME NEW n \in Nat PROVE NextDepth(n) \in Nat /\ NextDepth(n) < DepthRange
<1>1. \A m \in Nat, k \in Nat : k # 0 => m % k \in Nat /\ m % k < k
  BY SMT
<1>2. n + 1 \in Nat /\ DepthRange \in Nat /\ DepthRange # 0
  BY Depths
<1> QED
  BY <1>1, <1>2 DEF NextDepth

LEMMA FreshLoopFits ==
  ASSUME pc' \in {"idle", "iterate"}, depth' \in Nat, depth' < DepthRange,
         d' = 1, bestScore' = 0, counted' = {},
         window' = WindowOf(MinScore, MaxScore, AspirationWindow, 0)
  PROVE  LoopParts'
<1>1. LoopTypes'
  <2>1. window' \in [alpha : Int, beta : Int, delta : Int, depthReduction : Int]
    BY ScoreNumbers DEF WindowOf
  <2>2. /\ window'.alpha = MinScore /\ window'.beta = MaxScore
        /\ window'.delta = AspirationWindow /\ window'.depthReduction = 0
    BY DEF WindowOf
  <2>3. 1 < DepthRange
    BY Depths
  <2> QED
    BY <2>1, <2>2, <2>3, ScoreNumbers DEF LoopTypes
<1>2. LoopIsForADepth'
  BY DEF LoopIsForADepth
<1>3. WindowGrows' /\ WinnerIsCounted'
  BY DEF WindowGrows, WinnerIsCounted
<1> QED
  BY <1>1, <1>2, <1>3 DEF LoopParts

LEMMA InitLoop == Init => LoopParts
<1> SUFFICES ASSUME Init PROVE LoopParts
  OBVIOUS
<1>1. LoopTypes
  <2>1. window \in [alpha : Int, beta : Int, delta : Int, depthReduction : Int]
    BY ScoreNumbers DEF Init, WindowOf
  <2>2. /\ window.alpha = MinScore /\ window.beta = MaxScore
        /\ window.delta = AspirationWindow /\ window.depthReduction = 0
    BY DEF Init, WindowOf
  <2>3. /\ pc = "idle" /\ depth = 0 /\ d = 1 /\ bestScore = 0 /\ 1 < DepthRange
    BY Depths DEF Init
  <2> QED
    BY <2>1, <2>2, <2>3, ScoreNumbers, Depths DEF LoopTypes
<1>2. LoopIsForADepth
  BY DEF Init, LoopIsForADepth
<1>3. WindowGrows /\ WinnerIsCounted
  BY DEF Init, WindowGrows, WinnerIsCounted
<1> QED
  BY <1>1, <1>2, <1>3 DEF LoopParts

LEMMA LoopStays == LoopParts /\ UNCHANGED jobVars => LoopParts'
BY DEF LoopParts, LoopTypes, LoopIsForADepth, WindowGrows, OpenWindow, WinnerIsCounted, jobVars

LEMMA GoKeepsLoop ==
  ASSUME DeepeningInv, NEW args, Go(args) PROVE LoopParts'
<1>1. GoWords(args)
  BY ArgumentsOfAGo DEF Go
<1>2. CASE GoPonders(args) /\ ~engine.ponder
  BY <1>2, LoopStays DEF Go, DeepeningInv
<1>3. CASE ~(GoPonders(args) /\ ~engine.ponder)
  <2> DEFINE given == IF GoPonders(args) THEN Unset ELSE GoDepth(args)
  <2>1. /\ depth' = (IF given = Unset THEN MaxSearchDepth ELSE given)
        /\ pc' = "iterate" /\ FreshLoop
    BY <1>3 DEF Go
  <2>2. given # Unset => given \in Nat /\ given < DepthRange
    <3>1. HasSetting(args, "depth") => to_number(LastValue(args, "depth")) \in Nat \cup {Unset}
      BY <1>1, SettingsAreWords
    <3>2. \A n \in Nat : n % DepthRange \in Nat /\ n % DepthRange < DepthRange
      BY Depths
    <3> QED
      BY <3>1, <3>2 DEF GoDepth
  <2> HIDE DEF given
  <2>3. depth' \in Nat /\ depth' < DepthRange
    BY <2>1, <2>2, Depths
  <2> QED
    BY <2>1, <2>3, FreshLoopFits DEF FreshLoop
<1> QED
  BY <1>2, <1>3

LEMMA AnswerKeepsAll ==
  ASSUME DeepeningInv, Answer PROVE DeepeningInv'
<1>1. SameLimits(tm, tm')
  BY LimitsStay DEF DeepeningInv, CommandParts, CommandTypes, Answer
<1>2. CommandParts'
  BY <1>1, JobKeepsCommands DEF DeepeningInv, Answer, Searching
<1>3. LoopParts'
  <2>1. depth' \in Nat /\ depth' < DepthRange
    BY Depths DEF Answer
  <2> QED
    BY <2>1, FreshLoopFits DEF Answer, FreshLoop
<1> QED
  BY <1>2, <1>3 DEF DeepeningInv

LEMMA CommandKeepsAll ==
  ASSUME DeepeningInv, Command PROVE DeepeningInv'
<1> USE DEF DeepeningInv
<1>1. ASSUME NEW args, Go(args) PROVE DeepeningInv'
  BY <1>1, GoKeepsCommands, GoKeepsLoop
<1>2. ASSUME NEW args, SetOption(args) PROVE DeepeningInv'
  BY <1>2, SetOptionKeepsCommands, LoopStays DEF SetOption
<1>3. ASSUME NEW args, Position(args) PROVE DeepeningInv'
  BY <1>3, PositionKeepsCommands, LoopStays DEF Position
<1>4. ASSUME NEW args, Bench(args) PROVE DeepeningInv'
  BY <1>4, BenchKeepsCommands, LoopStays DEF Bench
<1> QED
  BY <1>1, <1>2, <1>3, <1>4 DEF Command

\* The part of an iteration that leaves the window where it is.
LEMMA IterationEnds ==
  ASSUME DeepeningInv, pc \in {"single", "multi"}, pc' = "iterate", d' = NextDepth(d),
         depth' = depth, window' = window, counted' = {},
         bestScore' \in Int, MinScore =< bestScore', bestScore' =< MaxScore
  PROVE  LoopParts'
<1>1. LoopTypes /\ depth # 0
  BY DEF DeepeningInv, LoopParts, LoopIsForADepth
<1>2. d' \in Nat /\ d' < DepthRange
  BY <1>1, NextIsADepth DEF LoopTypes
<1>3. LoopTypes'
  BY <1>1, <1>2 DEF LoopTypes
<1>4. LoopIsForADepth'
  BY <1>1 DEF LoopIsForADepth
<1>5. WindowGrows' /\ WinnerIsCounted'
  BY DEF WindowGrows, WinnerIsCounted
<1> QED
  BY <1>3, <1>4, <1>5 DEF LoopParts

LEMMA StartKeepsAll ==
  ASSUME DeepeningInv, StartIteration PROVE DeepeningInv'
<1>1. LoopTypes /\ LoopIsForADepth
  BY DEF DeepeningInv, LoopParts
<1>2. CommandParts'
  <2>1. SameLimits(tm, tm')
    BY DEF SameLimits, StartIteration
  <2> QED
    BY <2>1, JobKeepsCommands DEF DeepeningInv, StartIteration, Searching
<1>3. d =< depth /\ depth # 0 /\ d' = d /\ depth' = depth
  <2>1. d =< depth /\ d' = d /\ depth' = depth
    BY DEF StartIteration, MayIterate
  <2> QED
    BY <1>1, <2>1 DEF LoopTypes, LoopIsForADepth
<1>4. LoopIsForADepth'
  BY <1>3 DEF LoopIsForADepth, StartIteration
<1>5. WinnerIsCounted'
  BY DEF WinnerIsCounted, StartIteration
<1>6. CASE pc' = "multi" /\ window' = window
  <2>1. LoopTypes'
    BY <1>1, <1>3, <1>6 DEF LoopTypes, StartIteration
  <2>2. WindowGrows'
    BY <1>6 DEF WindowGrows
  <2> QED
    BY <1>2, <1>4, <1>5, <2>1, <2>2 DEF DeepeningInv, LoopParts
<1>7. CASE pc' = "single" /\ window' = NewWindow(d, bestScore)
  <2>1. bestScore \in Int /\ MinScore =< bestScore /\ bestScore =< MaxScore
    BY <1>1 DEF LoopTypes
  <2>2. /\ window' \in [alpha : Int, beta : Int, delta : Int, depthReduction : Int]
        /\ window'.alpha < window'.beta
        /\ MinScore =< window'.alpha /\ window'.beta =< MaxScore
        /\ window'.alpha =< MaxScore /\ MinScore =< window'.beta
        /\ window'.delta = AspirationWindow /\ window'.depthReduction = 0
        /\ d < AspirationMinDepth => OpenWindow'
    <3>1. CASE d >= AspirationMinDepth
      <4>1. ~(d < AspirationMinDepth)
        BY <1>1, <3>1, Depths DEF LoopTypes
      <4>2. window' = WindowOf(Greater(MinScore, bestScore - AspirationWindow),
                               LesserOf(MaxScore, bestScore + AspirationWindow),
                               AspirationWindow, 0)
        BY <1>7, <3>1 DEF NewWindow
      <4> QED
        BY <2>1, <4>1, <4>2, ScoreNumbers DEF WindowOf, Greater, LesserOf
    <3>2. CASE ~(d >= AspirationMinDepth)
      BY <1>7, <3>2, ScoreNumbers DEF NewWindow, WindowOf, OpenWindow
    <3> QED
      BY <3>1, <3>2
  <2>3. LoopTypes'
    BY <1>1, <1>3, <1>7, <2>2, ScoreNumbers DEF LoopTypes, StartIteration
  <2>4. WindowGrows'
    BY <1>3, <2>2 DEF WindowGrows, StartIteration
  <2> QED
    BY <1>2, <1>4, <1>5, <2>3, <2>4 DEF DeepeningInv, LoopParts
<1> QED
  BY <1>6, <1>7 DEF StartIteration

LEMMA TimeIsUpKeepsAll ==
  ASSUME DeepeningInv, TimeIsUp PROVE DeepeningInv'
<1>1. SameLimits(tm, tm')
  BY LimitsStay DEF DeepeningInv, CommandParts, CommandTypes, TimeIsUp
<1>2. CommandParts'
  BY <1>1, JobKeepsCommands DEF DeepeningInv, TimeIsUp, Searching
<1>3. counted' = {} /\ bestScore' = bestScore /\ LoopTypes
  BY DEF DeepeningInv, LoopParts, LoopIsForADepth, TimeIsUp
<1>4. LoopParts'
  BY <1>3, IterationEnds DEF TimeIsUp, LoopTypes
<1> QED
  BY <1>2, <1>4 DEF DeepeningInv

LEMMA SucceedsKeepsAll ==
  ASSUME DeepeningInv, Succeeds PROVE DeepeningInv'
<1>1. PICK s \in ScoreChoices, move \in MoveChoices, percent \in NodePercents :
        /\ bestScore' = s
        /\ tm' = updateMoveStability(tm, move, s, percent)
  BY DEF Succeeds
<1>2. SameLimits(tm, tm')
  BY <1>1, LimitsStay DEF DeepeningInv, CommandParts, CommandTypes
<1>3. CommandParts'
  BY <1>2, JobKeepsCommands DEF DeepeningInv, Succeeds, Searching
<1>4. counted' = {}
  BY DEF DeepeningInv, LoopParts, LoopIsForADepth, Succeeds
<1>5. bestScore' \in Int /\ MinScore =< bestScore' /\ bestScore' =< MaxScore
  BY <1>1, ChoiceIsInside, ScoreNumbers
<1>6. LoopParts'
  BY <1>4, <1>5, IterationEnds DEF Succeeds
<1> QED
  BY <1>3, <1>6 DEF DeepeningInv

\* A window that a search fell out of is not open on that side: it is moved, its
\* width doubled, and opened when that is more than it may be.
LEMMA WindowIsMoved ==
  ASSUME DeepeningInv, pc = "single", UNCHANGED <<commandVars, tm, pc, depth, d, bestScore, counted>>,
         fails' = fails + 1, ~OpenWindow,
         NEW moved \in [alpha : Int, beta : Int, delta : Int, depthReduction : Int],
         moved.alpha < moved.beta, MinScore =< moved.alpha, moved.beta =< MaxScore,
         moved.delta = window.delta, 0 =< moved.depthReduction,
         moved.depthReduction =< window.depthReduction + 1,
         window' = grow(moved)
  PROVE  DeepeningInv'
<1>1. LoopTypes /\ LoopIsForADepth /\ WindowGrows
  BY DEF DeepeningInv, LoopParts
<1>2. CommandParts'
  <2>1. SameLimits(tm, tm')
    BY DEF SameLimits
  <2> QED
    BY <2>1, JobKeepsCommands DEF DeepeningInv, Searching
<1>3. LoopIsForADepth' /\ WinnerIsCounted'
  BY <1>1 DEF LoopIsForADepth, WinnerIsCounted
<1>4. ~(d < AspirationMinDepth)
  BY <1>1 DEF WindowGrows
<1>5. /\ window' \in [alpha : Int, beta : Int, delta : Int, depthReduction : Int]
      /\ window'.alpha < window'.beta /\ MinScore =< window'.alpha /\ window'.beta =< MaxScore
      /\ window'.delta = 2 * window.delta
      /\ IF 2 * window.delta > AspirationMaxWindow
           THEN window'.alpha = MinScore /\ window'.beta = MaxScore /\ window'.depthReduction = 0
           ELSE window'.depthReduction = moved.depthReduction
  <2>1. window.delta \in Int
    BY <1>1 DEF LoopTypes
  <2>2. CASE 2 * window.delta > AspirationMaxWindow
    <3>1. window' = WindowOf(MinScore, MaxScore, 2 * window.delta, 0)
      BY <2>2 DEF grow
    <3> QED
      BY <2>1, <2>2, <3>1, ScoreNumbers DEF WindowOf
  <2>3. CASE ~(2 * window.delta > AspirationMaxWindow)
    <3>1. window' = [moved EXCEPT !.delta = 2 * window.delta]
      BY <2>3 DEF grow
    <3> QED
      BY <2>1, <2>3, <3>1
  <2> QED
    BY <2>2, <2>3
<1>6. /\ window'.depthReduction =< 2 /\ 0 =< window'.depthReduction
      /\ 81 =< window'.delta /\ window'.delta =< 648
      /\ \/ fails' = 1 /\ window'.delta = 162 /\ window'.depthReduction =< 1
         \/ fails' = 2 /\ window'.delta = 324
         \/ fails' = 3 /\ window'.alpha = MinScore /\ window'.beta = MaxScore
  <2>1. window \in [alpha : Int, beta : Int, delta : Int, depthReduction : Int]
    BY <1>1 DEF LoopTypes
  <2>2. CASE fails = 0 /\ window.delta = 81 /\ window.depthReduction = 0
    BY <1>5, <2>1, <2>2, ScoreNumbers
  <2>3. CASE fails = 1 /\ window.delta = 162 /\ window.depthReduction =< 1
    BY <1>5, <2>1, <2>3, ScoreNumbers
  <2>4. CASE fails = 2 /\ window.delta = 324
    BY <1>5, <2>1, <2>4, ScoreNumbers
  <2> QED
    BY <1>1, <2>2, <2>3, <2>4, ScoreNumbers DEF WindowGrows
<1>7. LoopTypes'
  BY <1>1, <1>5, <1>6, ScoreNumbers DEF LoopTypes
<1>8. WindowGrows'
  BY <1>4, <1>5, <1>6, ScoreNumbers DEF WindowGrows, OpenWindow
<1> QED
  BY <1>2, <1>3, <1>7, <1>8 DEF DeepeningInv, LoopParts

LEMMA FailsLowKeepsAll ==
  ASSUME DeepeningInv, FailsLow PROVE DeepeningInv'
<1>1. PICK s \in ScoreChoices : s =< window.alpha
  BY DEF FailsLow
<1>2. LoopTypes /\ WindowGrows /\ pc = "single"
  BY DEF DeepeningInv, LoopParts, FailsLow
<1>3. /\ window.alpha \in Int /\ window.beta \in Int /\ window.delta \in Int
      /\ window.depthReduction \in Int /\ 0 =< window.depthReduction
      /\ window.alpha < window.beta /\ window.beta =< MaxScore
      /\ 81 =< window.delta
  BY <1>2, ScoreNumbers DEF LoopTypes, WindowGrows
<1>4. MinScore < window.alpha
  BY <1>1, <1>3, ChoiceIsInside, ScoreNumbers
<1> DEFINE moved == widenOnFailLow(window)
<1> DEFINE alpha == Greater(MinScore, window.alpha - window.delta)
<1> DEFINE beta == Halved(alpha + window.beta)
<1>5. moved = WindowOf(alpha, beta, window.delta, 0)
  BY DEF widenOnFailLow
<1>6. alpha \in Int /\ MinScore =< alpha /\ alpha < window.alpha
  BY <1>3, <1>4, ScoreNumbers DEF Greater
<1> HIDE DEF alpha
<1>7. beta \in Int /\ alpha < beta /\ beta =< window.beta
  <2> DEFINE n == alpha + window.beta
  <2>1. n \in Int
    BY <1>3, <1>6
  <2>2. beta = Halved(n)
    OBVIOUS
  <2> HIDE DEF n, beta
  <2>3. beta \in Int /\ 2 * beta =< n + 1 /\ n - 1 =< 2 * beta
    BY <2>1, <2>2, SMT DEF Halved
  <2> QED
    BY <1>3, <1>6, <2>3 DEF n
<1> HIDE DEF beta
<1>8. /\ moved \in [alpha : Int, beta : Int, delta : Int, depthReduction : Int]
      /\ moved.alpha = alpha /\ moved.beta = beta
      /\ moved.delta = window.delta /\ moved.depthReduction = 0
  BY <1>3, <1>5, <1>6, <1>7 DEF WindowOf
<1> HIDE DEF moved
<1>9. ~OpenWindow
  BY <1>3, <1>4, ScoreNumbers DEF OpenWindow
<1>10. window' = grow(moved) /\ fails' = fails + 1
  BY DEF FailsLow, moved
<1>11. UNCHANGED <<commandVars, tm, pc, depth, d, bestScore, counted>>
  BY DEF FailsLow
<1>12. /\ moved.alpha < moved.beta /\ MinScore =< moved.alpha /\ moved.beta =< MaxScore
       /\ 0 =< moved.depthReduction /\ moved.depthReduction =< window.depthReduction + 1
  BY <1>3, <1>6, <1>7, <1>8, ScoreNumbers
<1> QED
  BY <1>2, <1>8, <1>9, <1>10, <1>11, <1>12, WindowIsMoved

LEMMA FailsHighKeepsAll ==
  ASSUME DeepeningInv, FailsHigh PROVE DeepeningInv'
<1>1. PICK s \in ScoreChoices : s >= window.beta
  BY DEF FailsHigh
<1>2. LoopTypes /\ WindowGrows /\ pc = "single"
  BY DEF DeepeningInv, LoopParts, FailsHigh
<1>3. /\ window.alpha \in Int /\ window.beta \in Int /\ window.delta \in Int
      /\ window.depthReduction \in Int /\ 0 =< window.depthReduction
      /\ window.alpha < window.beta /\ MinScore =< window.alpha
      /\ 81 =< window.delta
  BY <1>2, ScoreNumbers DEF LoopTypes, WindowGrows
<1>4. window.beta < MaxScore
  BY <1>1, <1>3, ChoiceIsInside, ScoreNumbers
<1> DEFINE moved == widenOnFailHigh(window)
<1> DEFINE beta == LesserOf(MaxScore, window.beta + window.delta)
<1>5. moved = WindowOf(window.alpha, beta, window.delta, window.depthReduction + 1)
  BY DEF widenOnFailHigh
<1>6. beta \in Int /\ window.beta < beta /\ beta =< MaxScore
  BY <1>3, <1>4, ScoreNumbers DEF LesserOf
<1> HIDE DEF beta
<1>7. /\ moved \in [alpha : Int, beta : Int, delta : Int, depthReduction : Int]
      /\ moved.alpha = window.alpha /\ moved.beta = beta
      /\ moved.delta = window.delta /\ moved.depthReduction = window.depthReduction + 1
  BY <1>3, <1>5, <1>6 DEF WindowOf
<1> HIDE DEF moved
<1>8. ~OpenWindow
  BY <1>3, <1>4, ScoreNumbers DEF OpenWindow
<1>9. window' = grow(moved) /\ fails' = fails + 1
  BY DEF FailsHigh, moved
<1>10. UNCHANGED <<commandVars, tm, pc, depth, d, bestScore, counted>>
  BY DEF FailsHigh
<1>11. /\ moved.alpha < moved.beta /\ MinScore =< moved.alpha /\ moved.beta =< MaxScore
       /\ 0 =< moved.depthReduction /\ moved.depthReduction =< window.depthReduction + 1
  BY <1>3, <1>6, <1>7, ScoreNumbers
<1> QED
  BY <1>2, <1>7, <1>8, <1>9, <1>10, <1>11, WindowIsMoved

------------------------------------------------------------------------------
(* The vote *)

Byte == {v \in Nat : v < 256}
Ballot == [move : MoveChoices, vote : Byte]

\* A vote is added for a move of the map or for a new one.
LEMMA VoteIsAdded ==
  ASSUME NEW map \in Seq(Ballot), NEW move \in MoveChoices, NEW vote \in Int
  PROVE  LET after == insertOrIncrement(map, move, vote)
         IN /\ after \in Seq(Ballot) /\ after # <<>>
            /\ \A j \in DOMAIN after :
                 after[j].move = move \/ \E i \in DOMAIN map : map[i].move = after[j].move
<1> DEFINE after == insertOrIncrement(map, move, vote)
<1>1. \A v \in Int : v % 256 \in Byte
  <2>1. \A v \in Int : v % 256 \in Nat /\ v % 256 < 256
    BY SMT
  <2> QED
    BY <2>1 DEF Byte
<1>2. CASE \E i \in DOMAIN map : map[i].move = move
  <2> DEFINE entry(i) ==
        IF map[i].move = move THEN [map[i] EXCEPT !.vote = (map[i].vote + vote) % 256] ELSE map[i]
  <2>1. after = [i \in DOMAIN map |-> entry(i)]
    BY <1>2 DEF insertOrIncrement
  <2>2. ASSUME NEW i \in DOMAIN map
        PROVE  entry(i) \in Ballot /\ entry(i).move = map[i].move
    <3>1. map[i] \in Ballot
      OBVIOUS
    <3>2. map[i].vote \in Int
      BY <3>1 DEF Ballot, Byte
    <3>3. (map[i].vote + vote) % 256 \in Byte
      BY <1>1, <3>2
    <3> QED
      BY <3>1, <3>3 DEF Ballot
  <2> HIDE DEF entry
  <2>3. Len(map) \in Nat /\ DOMAIN map = 1 .. Len(map)
    OBVIOUS
  <2>4. after \in [1 .. Len(map) -> Ballot]
    BY <2>1, <2>2, <2>3
  <2>5. after \in Seq(Ballot) /\ DOMAIN after = DOMAIN map
    BY <2>3, <2>4
  <2>6. after # <<>>
    BY <1>2, <2>5
  <2> QED
    BY <2>1, <2>2, <2>5, <2>6
<1>3. CASE ~\E i \in DOMAIN map : map[i].move = move
  <2> DEFINE new == [move |-> move, vote |-> vote % 256]
  <2>1. after = Append(map, new)
    BY <1>3 DEF insertOrIncrement
  <2>2. new \in Ballot /\ new.move = move
    BY <1>1 DEF Ballot
  <2> HIDE DEF new
  <2>3. after \in Seq(Ballot) /\ after # <<>>
    BY <2>1, <2>2
  <2>4. ASSUME NEW j \in DOMAIN after
        PROVE  after[j].move = move \/ \E i \in DOMAIN map : map[i].move = after[j].move
    <3>1. j = Len(map) + 1 \/ j \in DOMAIN map
      BY <2>1, <2>2
    <3>2. CASE j = Len(map) + 1
      BY <2>1, <2>2, <3>2
    <3>3. CASE j \in DOMAIN map
      BY <2>1, <2>2, <3>3
    <3> QED
      BY <3>1, <3>2, <3>3
  <2> QED
    BY <2>3, <2>4
<1> QED
  BY <1>2, <1>3

\* Of the moves with the most votes there is a first one.
LEMMA VotedMoveIsThere ==
  ASSUME NEW map \in Seq(Ballot), map # <<>>
  PROVE  \E j \in DOMAIN map : VotedMove(map) = map[j].move
<1>1. /\ DOMAIN map = 1 .. Len(map) /\ Len(map) \in Nat /\ Len(map) # 0
      /\ \A j \in DOMAIN map : map[j].vote \in Nat /\ map[j].vote < 256
  <2>1. \A j \in DOMAIN map : map[j] \in Ballot
    OBVIOUS
  <2> QED
    BY <2>1 DEF Ballot, Byte
<1> DEFINE votes == {map[j].vote : j \in DOMAIN map}
<1>2. votes \in SUBSET Nat /\ votes # {} /\ \A v \in votes : v =< 256
  BY <1>1
<1>3. PICK most \in votes : \A v \in votes : v =< most
  <2>1. 256 \in Nat
    OBVIOUS
  <2> HIDE DEF votes
  <2> QED
    BY <1>2, <2>1, GreatestNatural
<1> DEFINE leaders == {j \in DOMAIN map : map[j].vote = most}
<1>4. leaders \in SUBSET Nat /\ leaders # {}
  BY <1>1
<1>5. PICK first \in leaders : \A j \in leaders : first =< j
  BY <1>4, LeastNatural
<1>6. \A j \in DOMAIN map : map[j].vote =< map[first].vote
  BY <1>3
<1>7. ASSUME NEW j \in 1 .. (first - 1) PROVE map[j].vote < map[first].vote
  <2>1. j \in DOMAIN map /\ ~(first =< j)
    BY <1>1
  <2>2. j \notin leaders
    BY <1>5, <2>1
  <2> QED
    BY <1>1, <1>6, <2>1, <2>2
<1> DEFINE Leads(i) == /\ \A j \in DOMAIN map : map[j].vote =< map[i].vote
                       /\ \A j \in 1 .. (i - 1) : map[j].vote < map[i].vote
<1>8. first \in DOMAIN map /\ Leads(first)
  BY <1>6, <1>7
<1> DEFINE chosen == CHOOSE i \in DOMAIN map : Leads(i)
<1> HIDE DEF Leads
<1>9. chosen \in DOMAIN map
  BY <1>8, Zenon
<1>10. VotedMove(map) = map[chosen].move
  BY Zenon DEF VotedMove, Leads
<1> QED
  BY <1>9, <1>10, Zenon

Result == [score : ScoreChoices, move : MoveChoices, size : PvSizes]

\* The map has moves of the results inside the window only, and has one when
\* there is a result.
LEMMA VotesAreOfTheInside ==
  ASSUME NEW n \in Nat, NEW results \in [1 .. n -> Result]
  PROVE  /\ Votes(results) \in Seq(Ballot)
         /\ Inside(results) # {} => Votes(results) # <<>>
         /\ \A j \in DOMAIN Votes(results) :
              \E i \in Inside(results) : results[i].move = Votes(results)[j].move
<1> DEFINE inside == Inside(results)
<1> DEFINE weight(i) == (results[i].score - MinScore) * results[i].size
<1> DEFINE Step(i, m) ==
      IF i \in inside THEN insertOrIncrement(m, results[i].move, weight(i)) ELSE m
<1> DEFINE Fits(h) == h = [i \in 0 .. n |-> IF i = 0 THEN <<>> ELSE Step(i, h[i - 1])]
<1> DEFINE map == CHOOSE h : Fits(h)
<1>1. Len(results) = n /\ DOMAIN results = 1 .. n
  OBVIOUS
<1>2. inside \subseteq 1 .. n
  BY <1>1 DEF Inside
<1>3. Votes(results) = map[n]
  BY <1>1, Zenon DEF Votes
<1>4. ASSUME NEW i \in inside PROVE results[i].move \in MoveChoices /\ weight(i) \in Int
  <2>1. results[i] \in Result
    BY <1>2
  <2>2. results[i].score \in Int
    BY <2>1, ChoiceIsInside DEF Result
  <2>3. results[i].size \in Nat
    BY <2>1, DeepeningAssumption DEF Result
  <2> QED
    BY <2>1, <2>2, <2>3, ScoreNumbers DEF Result
<1> HIDE DEF inside, weight
<1>5. ASSUME NEW i \in Nat, NEW m \in Seq(Ballot)
      PROVE  /\ Step(i, m) \in Seq(Ballot)
             /\ i \in inside \/ m # <<>> => Step(i, m) # <<>>
             /\ \A j \in DOMAIN Step(i, m) :
                  \/ i \in inside /\ results[i].move = Step(i, m)[j].move
                  \/ \E k \in DOMAIN m : m[k].move = Step(i, m)[j].move
  <2>1. CASE i \in inside
    <3>1. Step(i, m) = insertOrIncrement(m, results[i].move, weight(i))
      BY <2>1
    <3>2. results[i].move \in MoveChoices /\ weight(i) \in Int
      BY <1>4, <2>1
    <3> DEFINE after == insertOrIncrement(m, results[i].move, weight(i))
    <3>3. /\ after \in Seq(Ballot) /\ after # <<>>
          /\ \A j \in DOMAIN after : \/ after[j].move = results[i].move
                                    \/ \E k \in DOMAIN m : m[k].move = after[j].move
      BY <3>2, VoteIsAdded
    <3> HIDE DEF after
    <3>4. Step(i, m) = after
      BY <3>1 DEF after
    <3> HIDE DEF Step
    <3> QED
      BY <2>1, <3>3, <3>4
  <2>2. CASE i \notin inside
    <3>1. Step(i, m) = m
      BY <2>2
    <3> HIDE DEF Step
    <3> QED
      BY <2>2, <3>1
  <2> QED
    BY <2>1, <2>2
<1> HIDE DEF Step
<1>6. \E h : Fits(h)
  <2> DEFINE T == Seq(Ballot)
  <2> DEFINE step == [p \in Nat \X T |-> Step(p[1] + 1, p[2])]
  <2>1. step \in [Nat \X T -> T] /\ <<>> \in T
    <3>1. \A p \in Nat \X T : p[1] + 1 \in Nat /\ p[2] \in T
      OBVIOUS
    <3>2. \A p \in Nat \X T : Step(p[1] + 1, p[2]) \in T
      BY <1>5, <3>1
    <3>3. <<>> \in T
      OBVIOUS
    <3> HIDE DEF T
    <3> QED
      BY <3>2, <3>3
  <2>2. \A k \in Nat, m \in T : step[<<k, m>>] = Step(k + 1, m)
    OBVIOUS
  <2> DEFINE none == <<>>
  <2> HIDE DEF T, step, none
  <2>3. PICK f \in [Nat -> T] : Iterates(f, none, step)
    <3>1. none \in T
      BY <2>1 DEF none
    <3> QED
      BY <2>1, <3>1, IterationExists
  <2>4. ASSUME NEW i \in 0 .. n
        PROVE  f[i] = IF i = 0 THEN <<>> ELSE Step(i, f[i - 1])
    <3>1. CASE i = 0
      BY <2>3, <3>1 DEF none, Iterates
    <3>2. CASE i # 0
      <4>1. i - 1 \in Nat /\ (i - 1) + 1 = i /\ i - 1 \in 0 .. n
        BY <3>2
      <4>2. f[i - 1] \in T
        BY <2>3, <4>1
      <4>3. f[(i - 1) + 1] = step[<<i - 1, f[i - 1]>>]
        BY <2>3, <4>1 DEF Iterates
      <4>4. step[<<i - 1, f[i - 1]>>] = Step((i - 1) + 1, f[i - 1])
        BY <2>2, <4>1, <4>2
      <4> QED
        BY <3>2, <4>1, <4>3, <4>4
    <3> QED
      BY <3>1, <3>2
  <2> DEFINE h == [i \in 0 .. n |-> f[i]]
  <2>5. \A i \in 0 .. n : h[i] = IF i = 0 THEN <<>> ELSE Step(i, h[i - 1])
    <3> TAKE i \in 0 .. n
    <3>1. i # 0 => i - 1 \in 0 .. n
      OBVIOUS
    <3> QED
      BY <2>4, <3>1
  <2>6. h = [i \in 0 .. n |-> h[i]]
    OBVIOUS
  <2> HIDE DEF h
  <2>7. Fits(h)
    BY <2>5, <2>6
  <2> QED
    BY <2>7
<1>7. Fits(map)
  BY <1>6, Zenon
<1> HIDE DEF map
<1>8. /\ map[0] = <<>>
      /\ \A i \in Nat : i + 1 \in 0 .. n => map[i + 1] = Step(i + 1, map[i])
  <2>1. \A i \in 0 .. n : map[i] = IF i = 0 THEN <<>> ELSE Step(i, map[i - 1])
    BY <1>7
  <2>2. map[0] = <<>>
    BY <2>1
  <2>3. ASSUME NEW i \in Nat, i + 1 \in 0 .. n PROVE map[i + 1] = Step(i + 1, map[i])
    <3>1. i + 1 # 0 /\ (i + 1) - 1 = i
      OBVIOUS
    <3> QED
      BY <2>1, <2>3, <3>1
  <2> QED
    BY <2>2, <2>3
<1> DEFINE Good(k) == /\ map[k] \in Seq(Ballot)
                      /\ (\E i \in inside : i =< k) => map[k] # <<>>
                      /\ \A j \in DOMAIN map[k] : \E i \in inside : results[i].move = map[k][j].move
<1> DEFINE good == {k \in Nat : k =< n => Good(k)}
<1>9. 0 \in good
  <2>1. ASSUME NEW i \in inside PROVE ~(i =< 0)
    <3>1. i \in 1 .. n
      BY <1>2
    <3> QED
      BY <3>1
  <2>2. map[0] = <<>> /\ DOMAIN map[0] = {} /\ map[0] \in Seq(Ballot)
    BY <1>8
  <2>3. Good(0)
    BY <2>1, <2>2
  <2> QED
    BY <2>3
<1>10. ASSUME NEW k \in Nat, k \in good PROVE k + 1 \in good
  <2> SUFFICES ASSUME k + 1 =< n PROVE Good(k + 1)
    OBVIOUS
  <2>1. Good(k)
    BY <1>10
  <2>2. map[k + 1] = Step(k + 1, map[k])
    BY <1>8
  <2>3. k + 1 \in Nat /\ map[k] \in Seq(Ballot)
    BY <2>1
  <2> DEFINE after == Step(k + 1, map[k])
  <2>4. /\ after \in Seq(Ballot)
        /\ k + 1 \in inside \/ map[k] # <<>> => after # <<>>
        /\ \A j \in DOMAIN after :
             \/ k + 1 \in inside /\ results[k + 1].move = after[j].move
             \/ \E i \in DOMAIN map[k] : map[k][i].move = after[j].move
    BY <1>5, <2>3
  <2>5. map[k + 1] = after
    BY <2>2
  <2> HIDE DEF after
  <2>6. (\E i \in inside : i =< k + 1) => after # <<>>
    <3> SUFFICES ASSUME NEW i \in inside, i =< k + 1 PROVE after # <<>>
      OBVIOUS
    <3>1. i \in Nat
      BY <1>2
    <3>2. i = k + 1 \/ i =< k
      BY <3>1
    <3> QED
      BY <2>1, <2>4, <3>2
  <2>7. \A j \in DOMAIN after : \E i \in inside : results[i].move = after[j].move
    <3> TAKE j \in DOMAIN after
    <3>1. CASE k + 1 \in inside /\ results[k + 1].move = after[j].move
      BY <3>1
    <3>2. CASE \E i \in DOMAIN map[k] : map[k][i].move = after[j].move
      BY <2>1, <3>2
    <3> QED
      BY <2>4, <3>1, <3>2
  <2> QED
    BY <2>4, <2>5, <2>6, <2>7
<1>11. \A k \in Nat : k \in good
  <2> HIDE DEF good
  <2> QED
    BY <1>9, <1>10, SetInduction
<1>12. Good(n)
  BY <1>11
<1>13. inside # {} => \E i \in inside : i =< n
  <2> SUFFICES ASSUME NEW i \in inside PROVE i =< n
    OBVIOUS
  <2>1. i \in 1 .. n
    BY <1>2
  <2> QED
    BY <2>1
<1> QED
  BY <1>3, <1>12, <1>13 DEF inside

\* The move of the vote is one of a result that counted, and the first of those
\* is the winner.
LEMMA WinnerCounted ==
  ASSUME NEW n \in Nat, NEW results \in [1 .. n -> Result], Inside(results) # {}, depth # 0
  PROVE  LET move == VotedMove(Votes(results))
             won == WinningResult(results, move)
         IN /\ won \in Result /\ won.move = move
            /\ \E i \in Inside(results) : won = results[i]
            /\ window.alpha < won.score /\ won.score < window.beta
<1> DEFINE inside == Inside(results)
<1> DEFINE map == Votes(results)
<1> DEFINE move == VotedMove(map)
<1>1. DOMAIN results = 1 .. n
  OBVIOUS
<1>2. /\ inside \subseteq 1 .. n
      /\ \A i \in inside : results[i].score > window.alpha /\ results[i].score < window.beta
  BY <1>1 DEF Inside
<1>3. \E j \in DOMAIN map : move = map[j].move
  BY VotesAreOfTheInside, VotedMoveIsThere
<1>4. \E i \in inside : results[i].move = move
  BY <1>3, VotesAreOfTheInside
<1> DEFINE fit == {i \in inside : results[i].move = move}
<1> DEFINE least == Min(fit)
<1>5. fit \in SUBSET Nat /\ fit # {}
  BY <1>2, <1>4
<1>6. least \in fit
  BY <1>5, LeastIsMin
<1>7. WinningResult(results, move) = results[least]
  BY <1>5 DEF WinningResult
<1> HIDE DEF inside, move, least
<1>8. least \in inside /\ results[least].move = move /\ results[least] \in Result
  BY <1>2, <1>6
<1>9. results[least].score \in Int
  BY <1>8, ChoiceIsInside DEF Result
<1>10. results[least].score > window.alpha /\ results[least].score < window.beta
  BY <1>2, <1>8
<1> DEFINE won == results[least]
<1>11. window.alpha < won.score /\ won.score < window.beta
  BY <1>10
<1> QED
  BY <1>7, <1>8, <1>11 DEF inside, move

LEMMA AttemptKeepsAll ==
  ASSUME DeepeningInv, Attempt PROVE DeepeningInv'
<1>1. LoopTypes /\ LoopIsForADepth /\ pc = "multi" /\ depth # 0 /\ counted = {}
  BY DEF DeepeningInv, LoopParts, LoopIsForADepth, Attempt
<1>2. PICK results \in SearcherResults :
        LET move == VotedMove(Votes(results))
            won == WinningResult(results, move)
        IN IF Inside(results) = {}
             THEN /\ window' = WindowOf(MinScore, MaxScore, window.delta, 0)
                  /\ pc' = "iterate"
                  /\ UNCHANGED <<tm, d, bestScore, best, winner, counted>>
             ELSE /\ best' = move /\ winner' = won
                  /\ counted' = {results[i] : i \in Inside(results)}
                  /\ bestScore' = won.score
                  /\ window' = WindowOf(won.score - AspirationWindow, won.score + AspirationWindow,
                                        window.delta, 0)
                  /\ \E percent \in NodePercents :
                       tm' = updateMoveStability(tm, move, won.score, percent)
                  /\ pc' = "iterate" /\ d' = NextDepth(d)
  BY DEF Attempt
<1>3. UNCHANGED commandVars /\ depth' = depth
  BY DEF Attempt
<1>4. engine.searchers \in Nat
  BY DEF DeepeningInv, CommandParts, OptionTypes, OptionsAreInEffect
<1>5. results \in [1 .. engine.searchers -> Result]
  BY DEF SearcherResults, Result
<1>6. window.delta \in Int
  BY <1>1 DEF LoopTypes
<1>7. CASE Inside(results) = {}
  <2>1. /\ window' = WindowOf(MinScore, MaxScore, window.delta, 0) /\ pc' = "iterate"
        /\ UNCHANGED <<tm, d, bestScore, counted>>
    BY <1>2, <1>7
  <2>2. SameLimits(tm, tm')
    BY <2>1 DEF SameLimits
  <2>3. CommandParts'
    BY <1>1, <1>3, <2>1, <2>2, JobKeepsCommands DEF DeepeningInv, Searching
  <2>4. /\ window' \in [alpha : Int, beta : Int, delta : Int, depthReduction : Int]
        /\ window'.alpha = MinScore /\ window'.beta = MaxScore
        /\ window'.delta = window.delta /\ window'.depthReduction = 0
    BY <1>6, <2>1, ScoreNumbers DEF WindowOf
  <2>5. LoopTypes'
    BY <1>1, <1>3, <2>1, <2>4, ScoreNumbers DEF LoopTypes
  <2>6. LoopIsForADepth'
    BY <1>1, <1>3, <2>1 DEF LoopIsForADepth
  <2>7. WindowGrows' /\ WinnerIsCounted'
    BY <1>1, <2>1 DEF WindowGrows, WinnerIsCounted
  <2> QED
    BY <2>3, <2>5, <2>6, <2>7 DEF DeepeningInv, LoopParts
<1>8. CASE Inside(results) # {}
  <2> DEFINE move == VotedMove(Votes(results))
  <2> DEFINE won == WinningResult(results, move)
  <2>1. /\ won \in Result /\ won.move = move
        /\ \E i \in Inside(results) : won = results[i]
    BY <1>1, <1>4, <1>5, <1>8, WinnerCounted
  <2>2. /\ best' = move /\ winner' = won
        /\ counted' = {results[i] : i \in Inside(results)}
        /\ bestScore' = won.score
        /\ window' = WindowOf(won.score - AspirationWindow, won.score + AspirationWindow,
                              window.delta, 0)
        /\ pc' = "iterate" /\ d' = NextDepth(d)
    BY <1>2, <1>8, Zenon
  <2>3. \E percent \in NodePercents : tm' = updateMoveStability(tm, move, won.score, percent)
    BY <1>2, <1>8, Zenon
  <2> HIDE DEF move, won
  <2>4. SameLimits(tm, tm')
    BY <2>3, LimitsStay DEF DeepeningInv, CommandParts, CommandTypes
  <2>5. CommandParts'
    BY <1>1, <1>3, <2>2, <2>4, JobKeepsCommands DEF DeepeningInv, Searching
  <2>6. won.score \in Int /\ MinScore < won.score /\ won.score < MaxScore
    BY <2>1, ChoiceIsInside DEF Result
  <2>7. /\ window' \in [alpha : Int, beta : Int, delta : Int, depthReduction : Int]
        /\ window'.alpha = won.score - AspirationWindow
        /\ window'.beta = won.score + AspirationWindow
        /\ window'.delta = window.delta /\ window'.depthReduction = 0
    BY <1>6, <2>2, <2>6, ScoreNumbers DEF WindowOf
  <2>8. d' \in Nat /\ d' < DepthRange
    BY <1>1, <2>2, NextIsADepth DEF LoopTypes
  <2>9. LoopTypes'
    BY <1>1, <1>3, <2>2, <2>6, <2>7, <2>8, ScoreNumbers DEF LoopTypes
  <2>10. LoopIsForADepth' /\ WindowGrows'
    BY <1>1, <1>3, <2>2 DEF LoopIsForADepth, WindowGrows
  <2>11. WinnerIsCounted'
    BY <2>1, <2>2, <2>6, <2>7, ScoreNumbers DEF WinnerIsCounted
  <2> QED
    BY <2>5, <2>9, <2>10, <2>11 DEF DeepeningInv, LoopParts
<1> QED
  BY <1>7, <1>8

LEMMA JobKeepsAll ==
  ASSUME DeepeningInv, Job PROVE DeepeningInv'
BY StartKeepsAll, AnswerKeepsAll, TimeIsUpKeepsAll, FailsLowKeepsAll, FailsHighKeepsAll,
   SucceedsKeepsAll, AttemptKeepsAll
   DEF Job, LeaveLoop, AttemptTimesOut

LEMMA StutteringKeepsAll ==
  ASSUME DeepeningInv, UNCHANGED vars PROVE DeepeningInv'
<1>1. SameLimits(tm, tm')
  BY DEF SameLimits, vars
<1>2. CommandParts'
  BY <1>1, JobKeepsCommands DEF DeepeningInv, vars, commandVars, Searching
<1>3. LoopParts'
  BY LoopStays DEF DeepeningInv, vars, jobVars
<1> QED
  BY <1>2, <1>3 DEF DeepeningInv

LEMMA DeepeningIsInvariant == Spec => []DeepeningInv
<1>1. Init => DeepeningInv
  BY InitCommands, InitLoop DEF DeepeningInv
<1>2. DeepeningInv /\ [Next]_vars => DeepeningInv'
  BY CommandKeepsAll, JobKeepsAll, StutteringKeepsAll DEF Next
<1> QED
  BY <1>1, <1>2, PTL DEF Spec

------------------------------------------------------------------------------
(* Theorems *)

\* Whatever scores the searches return, they and the window around them fit the
\* 16 bits of a score, a depth and an iteration their byte, the options their
\* limits, and no limit of the time is negative.
THEOREM DeepeningIsWellTyped == Spec => []TypeInvariant
<1>1. DeepeningInv => TypeInvariant
  <2> SUFFICES ASSUME DeepeningInv PROVE TypeInvariant
    OBVIOUS
  <2>1. LoopTypes /\ OptionTypes /\ Clocked(tm)
    BY DEF DeepeningInv, LoopParts, CommandParts, CommandTypes
  <2>2. /\ depth \in 0 .. (DepthRange - 1) /\ d \in 0 .. (DepthRange - 1)
        /\ window.depthReduction \in 0 .. (DepthRange - 1)
    BY <2>1, Depths DEF LoopTypes
  <2>3. NoScore \in Int /\ NoScore = -32768
    BY DEF NoScore
  <2>4. \A x \in Int : NoScore =< x /\ x =< 32767 => x \in Score
    <3>1. NoScore \in Int
      BY DEF NoScore
    <3> QED
      BY <3>1 DEF Score
  <2>5. \A x \in {window.alpha, window.beta, window.delta, bestScore} :
          x \in Int /\ NoScore =< x /\ x =< 32767
    BY <2>1, <2>3, ScoreNumbers DEF LoopTypes
  <2>6. {window.alpha, window.beta, window.delta, bestScore} \subseteq Score
    BY <2>4, <2>5
  <2>7. \A name \in Spins : option[name] >= Limits[name].min /\ option[name] =< Limits[name].max
    BY <2>1 DEF OptionTypes, Spins, Limits
  <2>8. tm.soft >= 0 /\ tm.hard >= 0
    BY <2>1 DEF Clocked
  <2> QED
    BY <2>2, <2>6, <2>7, <2>8 DEF TypeInvariant
<1> QED
  BY <1>1, DeepeningIsInvariant, PTL

\* The window of a searcher alone is never empty and open after three searches
\* outside of it, for any scores between the least and the greatest and any
\* first depth of aspiration.
THEOREM TheWindowOpens == Spec => []WindowOpens
<1>1. DeepeningInv => WindowOpens
  <2> SUFFICES ASSUME DeepeningInv, pc = "single"
               PROVE  /\ window.alpha < window.beta
                      /\ window.alpha >= MinScore /\ window.beta =< MaxScore
                      /\ d < AspirationMinDepth \/ fails >= 3 =>
                           window.alpha = MinScore /\ window.beta = MaxScore
                      /\ searchDepth(window, d) \in 1 .. Greater(1, d)
    BY DEF WindowOpens
  <2>1. LoopTypes /\ WindowGrows
    BY DEF DeepeningInv, LoopParts
  <2>2. window.alpha < window.beta /\ window.alpha >= MinScore /\ window.beta =< MaxScore
    BY <2>1, ScoreNumbers DEF WindowGrows, LoopTypes
  <2>3. d < AspirationMinDepth \/ fails >= 3 =>
          window.alpha = MinScore /\ window.beta = MaxScore
    BY <2>1 DEF WindowGrows, OpenWindow
  <2>4. searchDepth(window, d) \in 1 .. Greater(1, d)
    BY <2>1 DEF LoopTypes, searchDepth, Greater
  <2> QED
    BY <2>2, <2>3, <2>4
<1> QED
  BY <1>1, DeepeningIsInvariant, PTL

\* The limits of a search come from its own "go" and the clock of the side to
\* move: exactly what it says for a line of pairs, and nothing but its own
\* numbers for any other words, whatever lines came before it.
THEOREM LimitsAreItsOwn == Spec => []LimitsAreOfThisGo
<1>1. DeepeningInv => LimitsAreOfThisGo
  BY DEF DeepeningInv, CommandParts
<1> QED
  BY <1>1, DeepeningIsInvariant, PTL

\* Any sequence of lines leaves in effect what the options show, but for the
\* table, which benches round down to 16 MB once.
THEOREM OptionsTakeEffect == Spec => []OptionsAreInEffect
<1>1. DeepeningInv => OptionsAreInEffect
  BY DEF DeepeningInv, CommandParts
<1> QED
  BY <1>1, DeepeningIsInvariant, PTL

\* For any number of searchers and any results, the vote gives a move and a
\* result that counted.
THEOREM TheWinnerCounted == Spec => []WinnerIsCounted
<1>1. DeepeningInv => WinnerIsCounted
  BY DEF DeepeningInv, LoopParts
<1> QED
  BY <1>1, DeepeningIsInvariant, PTL
=============================================================================
