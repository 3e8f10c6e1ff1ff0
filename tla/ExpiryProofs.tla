---------------------------- MODULE ExpiryProofs ----------------------------
(***************************************************************************)
(* Proofs about the ageing of articles, for any threads, groups, modes and *)
(* files of noffle.conf.                                                   *)
(***************************************************************************)
EXTENDS Expiry, FiniteSetTheorems, WellFoundedInduction, TLAPS

-----------------------------------------------------------------------------
(* Induction by the least number for which something fails.                *)

LessNat == {ss \in Nat \X Nat : ss[1] < ss[2]}

LEMMA LessNatWellFounded == IsWellFoundedOn(LessNat, Nat)
<1>1. OpToRel(<, Nat) = LessNat
  BY DEF OpToRel, LessNat
<1> QED BY <1>1, NatLessThanWellFounded, Zenon

LEMMA InLessNat ==
  ASSUME NEW i \in Nat, NEW j \in Nat, i < j
  PROVE  <<i, j>> \in LessNat
BY DEF LessNat

LEMMA LeastOf ==
  ASSUME NEW T, T \subseteq Nat, T # {}
  PROVE  \E x \in T : \A y \in T : x <= y
<1>1. PICK x \in T : \A y \in T : <<y, x>> \notin LessNat
  BY LessNatWellFounded, WFMin, Zenon
<1>2. ASSUME NEW y \in T
      PROVE  x <= y
  <2>1. ~(y < x)
    BY <1>1, InLessNat, Zenon
  <2> QED BY <2>1
<1> QED BY <1>2

LEMMA MinOfNats ==
  ASSUME NEW T, T \subseteq Nat, T # {}
  PROVE  Min(T) \in T /\ \A x \in T : Min(T) <= x
<1>1. \E x \in T : \A y \in T : x <= y
  BY LeastOf
<1> QED BY <1>1 DEF Min

\* A set of numbers that contains 0 and with each number below n the next.
LEMMA UpTo ==
  ASSUME NEW n \in Nat, NEW T, 0 \in T, \A k \in 1 .. n : k - 1 \in T => k \in T
  PROVE  0 .. n \subseteq T
<1> DEFINE Bad == {k \in 0 .. n : k \notin T}
<1>1. SUFFICES ASSUME Bad # {} PROVE FALSE
  OBVIOUS
<1>2. Bad \subseteq Nat
  OBVIOUS
<1>3. PICK k \in Bad : \A j \in Bad : k <= j
  BY <1>1, <1>2, LeastOf
<1>4. k \in 1 .. n
  BY <1>3
<1>5. k - 1 \in T
  BY <1>3, <1>4
<1> QED BY <1>3, <1>4, <1>5

\* A function by recursion on 0 .. n exists.
Follows(f, n, d, step) == f[0] = d /\ \A k \in 1 .. n : f[k] = step[<<k, f[k - 1]>>]

LEMMA Recursion ==
  ASSUME NEW n \in Nat, NEW D, NEW d \in D, NEW step \in [(1 .. n) \X D -> D]
  PROVE  \E f \in [0 .. n -> D] : Follows(f, n, d, step)
<1> DEFINE Upto(m, f) == /\ f \in [0 .. m -> D] /\ f[0] = d
                         /\ \A k \in 1 .. m : f[k] = step[<<k, f[k - 1]>>]
           T == {m \in 0 .. n : \E f : Upto(m, f)}
<1>1. 0 \in T
  <2>1. Upto(0, [k \in 0 .. 0 |-> d])
    OBVIOUS
  <2> HIDE DEF Upto
  <2>2. \E f : Upto(0, f)
    BY <2>1
  <2> QED BY <2>2
<1>2. ASSUME NEW m \in 1 .. n, m - 1 \in T
      PROVE  m \in T
  <2>1. PICK f : Upto(m - 1, f)
    BY <1>2
  <2> DEFINE h == [k \in 0 .. m |-> IF k = m THEN step[<<m, f[m - 1]>>] ELSE f[k]]
  <2>2. f[m - 1] \in D
    BY <2>1
  <2>3. step[<<m, f[m - 1]>>] \in D
    BY <2>2
  <2>4. h \in [0 .. m -> D] /\ h[0] = d
    BY <2>1, <2>3
  <2>5. ASSUME NEW k \in 1 .. m
        PROVE  h[k] = step[<<k, h[k - 1]>>]
    <3>1. CASE k = m
      <4>1. h[k] = step[<<m, f[m - 1]>>]
        BY <3>1
      <4>2. h[k - 1] = f[m - 1]
        BY <3>1
      <4> QED BY <3>1, <4>1, <4>2
    <3>2. CASE k # m
      <4>1. k \in 1 .. m - 1 /\ k - 1 \in 0 .. m /\ k - 1 # m
        BY <3>2
      <4>2. h[k] = f[k] /\ h[k - 1] = f[k - 1]
        BY <4>1
      <4>3. f[k] = step[<<k, f[k - 1]>>]
        BY <2>1, <4>1
      <4> QED BY <4>2, <4>3
    <3> QED BY <3>1, <3>2
  <2> HIDE DEF h
  <2>6. Upto(m, h)
    BY <2>4, <2>5
  <2> HIDE DEF Upto
  <2>7. \E g : Upto(m, g)
    BY <2>6
  <2> QED BY <2>7
<1> HIDE DEF T
<1>3. 0 .. n \subseteq T
  BY <1>1, <1>2, UpTo
<1>4. n \in T
  BY <1>3
<1> QED BY <1>4 DEF T, Follows

-----------------------------------------------------------------------------
(* noffle.conf                                                             *)

Patterns == [groups : SUBSET Groups, days : Nat]
Settings == [expire : Nat, follow : Nat, patterns : Seq(Patterns)]

LEMMA CfgLineType ==
  ASSUME NEW s \in Settings, NEW line \in ConfigLines
  PROVE  CfgLine(s, line) \in Settings
<1>1. GetInt(s.expire, line.n) \in Nat /\ GetInt(s.follow, line.n) \in Nat
  BY DEF GetInt, Settings, ConfigLines
<1>2. GetExpire(s.patterns, line) \in Seq(Patterns)
  <2>1. s.patterns \in Seq(Patterns)
    BY DEF Settings
  <2>2. line.n >= 0 => [groups |-> line.groups, days |-> line.n] \in Patterns
    BY DEF ConfigLines, Patterns
  <2>3. CASE line.n < 0
    BY <2>1, <2>3 DEF GetExpire
  <2>4. CASE ~(line.n < 0)
    <3>1. line.n >= 0
      BY <2>4 DEF ConfigLines
    <3> QED BY <2>1, <2>2, <2>4, <3>1 DEF GetExpire
  <2> QED BY <2>3, <2>4
<1>3. CASE line.key = "default-expire"
  BY <1>1, <1>3 DEF CfgLine, Settings
<1>4. CASE line.key = "thread-follow-time"
  BY <1>1, <1>4 DEF CfgLine, Settings
<1>5. CASE line.key = "expire"
  BY <1>2, <1>5 DEF CfgLine, Settings
<1>6. CASE line.key \notin {"default-expire", "thread-follow-time", "expire"}
  BY <1>6 DEF CfgLine
<1> QED BY <1>3, <1>4, <1>5, <1>6

\* Whatever lines noffle.conf has, what has been read of it is of its type.
LEMMA CfgReadType ==
  ASSUME NEW file \in Seq(ConfigLines)
  PROVE  Cfg_read(file) \in Settings
<1> DEFINE n == Len(file)
           Ends(line) == line.key = "auto-subscribe-mode" /\ line.n \notin Modes
           Ended(k) == \E j \in 1 .. k : Ends(file[j])
           read[k \in 0 .. n] ==
              IF k = 0 THEN Defaults
              ELSE IF \E j \in 1 .. k : Ends(file[j]) THEN read[k - 1]
              ELSE CfgLine(read[k - 1], file[k])
           step == [p \in (1 .. n) \X Settings |->
                      IF Ended(p[1]) THEN p[2] ELSE CfgLine(p[2], file[p[1]])]
<1>1. n \in Nat /\ Defaults \in Settings
  BY DEF Defaults, Settings
<1>2. ASSUME NEW k \in 1 .. n, NEW s \in Settings
      PROVE  /\ (IF Ended(k) THEN s ELSE CfgLine(s, file[k])) \in Settings
             /\ step[<<k, s>>] = IF Ended(k) THEN s ELSE CfgLine(s, file[k])
  <2>1. file[k] \in ConfigLines
    OBVIOUS
  <2>2. CfgLine(s, file[k]) \in Settings
    BY <2>1, CfgLineType
  <2> HIDE DEF Ended
  <2> QED BY <2>2
<1>3. step \in [(1 .. n) \X Settings -> Settings]
  <2> HIDE DEF Ended
  <2>1. ASSUME NEW p \in (1 .. n) \X Settings
        PROVE  (IF Ended(p[1]) THEN p[2] ELSE CfgLine(p[2], file[p[1]])) \in Settings
    BY <1>2
  <2> QED BY <2>1
<1> HIDE DEF step
<1>4. PICK f \in [0 .. n -> Settings] : Follows(f, n, Defaults, step)
  <2> HIDE DEF n
  <2> QED BY <1>1, <1>3, Recursion
<1> DEFINE Body(r, k) == IF k = 0 THEN Defaults
                         ELSE IF \E j \in 1 .. k : Ends(file[j]) THEN r[k - 1]
                         ELSE CfgLine(r[k - 1], file[k])
<1>5. ASSUME NEW k \in 0 .. n
      PROVE  f[k] = Body(f, k)
  <2>1. CASE k = 0
    BY <1>4, <2>1 DEF Follows
  <2>2. CASE k # 0
    <3>1. k \in 1 .. n /\ f[k - 1] \in Settings
      BY <1>1, <2>2
    <3>2. f[k] = IF Ended(k) THEN f[k - 1] ELSE CfgLine(f[k - 1], file[k])
      BY <1>2, <1>4, <3>1 DEF Follows
    <3> QED BY <2>2, <3>2
  <2> QED BY <2>1, <2>2
<1>6. f = [k \in 0 .. n |-> Body(f, k)]
  <2> HIDE DEF Body
  <2> QED BY <1>5
<1>7. read = [k \in 0 .. n |-> Body(read, k)]
  BY <1>6
<1>8. read[0] = Defaults /\ \A k \in 1 .. n : read[k] = Body(read, k)
  <2>1. \A k \in 0 .. n : read[k] = Body(read, k)
    <3> HIDE DEF read, Body, n
    <3> QED BY <1>7
  <2>2. Body(read, 0) = Defaults
    OBVIOUS
  <2> HIDE DEF read, Body, n
  <2> QED BY <1>1, <2>1, <2>2
<1> DEFINE T == {k \in 0 .. n : read[k] \in Settings}
<1>9. ASSUME NEW k \in 1 .. n, k - 1 \in T
      PROVE  k \in T
  <2>1. file[k] \in ConfigLines /\ read[k - 1] \in Settings
    BY <1>9
  <2>2. read[k] \in Settings
    <3> HIDE DEF read, Ends
    <3> QED BY <1>8, <2>1, CfgLineType
  <2> QED BY <2>2
<1>10. 0 .. n \subseteq T
  <2>1. 0 \in T
    <3> HIDE DEF read
    <3> QED BY <1>1, <1>8
  <2> HIDE DEF T
  <2> QED BY <1>1, <1>9, <2>1, UpTo
<1>11. read[n] \in Settings
  BY <1>1, <1>10
<1> QED BY <1>11 DEF Cfg_read

-----------------------------------------------------------------------------
(* The period of an article                                                *)

\* A group without a line leaves the period alone; one with a line makes it
\* "never" or no shorter than its own.
LEMMA LongerOfBounds ==
  ASSUME config \in Settings, NEW g \in Groups, NEW res \in Int, res >= -1
  PROVE  /\ LongerOf(res, g) \in Int /\ LongerOf(res, g) >= -1
         /\ Matches(g) = {} => LongerOf(res, g) = res
         /\ Matches(g) # {} =>
              /\ LongerOf(res, g) # -1
              /\ LongerOf(res, g) > 0 => Period(g) # 0 /\ Period(g) <= LongerOf(res, g)
         /\ LongerOf(res, g) > 0 => res # 0 /\ res <= LongerOf(res, g)
<1> DEFINE ps == config.patterns
           fits == {k \in DOMAIN ps :
                       LET p == ps[k]
                       IN  g \in p.groups /\ ((p.days > res /\ res # 0) \/ p.days = 0)}
<1>1. ps \in Seq(Patterns)
  BY DEF Settings
<1>2. \A k \in DOMAIN ps : ps[k].days \in Nat /\ k \in Nat
  <2> HIDE DEF ps, fits
  <2>1. \A k \in DOMAIN ps : ps[k] \in Patterns /\ k \in Nat
    BY <1>1
  <2> QED BY <2>1 DEF Patterns
<1>3. LongerOf(res, g) = IF fits = {} THEN res ELSE ps[Min(fits)].days
  BY DEF LongerOf
<1>4. Matches(g) = {k \in DOMAIN ps : g \in ps[k].groups} /\ fits \subseteq Matches(g)
  BY DEF Matches
<1>5. fits # {} => Min(fits) \in fits /\ \A k \in fits : Min(fits) <= k
  BY <1>2, MinOfNats
<1>6. Matches(g) # {} =>
        /\ Min(Matches(g)) \in Matches(g) /\ \A k \in Matches(g) : Min(Matches(g)) <= k
  BY <1>2, <1>4, MinOfNats
<1>7. CASE fits = {}
  <2>1. LongerOf(res, g) = res
    BY <1>3, <1>7
  <2>2. ASSUME Matches(g) # {}
        PROVE  Period(g) \in Nat /\ Period(g) # 0 /\ (res = 0 \/ Period(g) <= res)
    <3> DEFINE m == Min(Matches(g))
    <3>1. m \in DOMAIN ps /\ g \in ps[m].groups /\ m \notin fits
      BY <1>4, <1>6, <1>7, <2>2
    <3>2. ~((ps[m].days > res /\ res # 0) \/ ps[m].days = 0)
      BY <3>1
    <3>3. Period(g) = ps[m].days
      BY DEF Period
    <3> QED BY <1>2, <3>1, <3>2, <3>3
  <2> HIDE DEF fits
  <2> QED BY <2>1, <2>2
<1>8. CASE fits # {}
  <2> DEFINE k == Min(fits)
             m == Min(Matches(g))
  <2>1. /\ k \in fits /\ k \in DOMAIN ps /\ LongerOf(res, g) = ps[k].days
        /\ (ps[k].days > res /\ res # 0) \/ ps[k].days = 0
    BY <1>3, <1>5, <1>8
  <2>2. Matches(g) # {} /\ m \in DOMAIN ps /\ g \in ps[m].groups /\ Period(g) = ps[m].days
    BY <1>4, <1>6, <1>8 DEF Period
  <2>3. ps[m].days = 0 \/ (ps[m].days > res /\ res # 0) => k = m
    <3>1. ASSUME ps[m].days = 0 \/ (ps[m].days > res /\ res # 0)
          PROVE  k = m
      <4>1. m \in fits
        BY <2>2, <3>1
      <4>2. k <= m /\ m <= k
        BY <1>4, <1>5, <1>6, <1>8, <2>1, <4>1
      <4>3. k \in Nat /\ m \in Nat
        BY <1>2, <2>1, <2>2
      <4> HIDE DEF k, m
      <4> QED BY <4>2, <4>3
    <3> QED BY <3>1
  <2> HIDE DEF k, m, fits
  <2> QED BY <1>2, <2>1, <2>2, <2>3
<1> QED BY <1>7, <1>8

\* The groups of a that a line of noffle.conf matches.
Lined(a) == {g \in Range(db[a].xref) : Matches(g) # {}}

\* The period is that of default-expire if no group has a line, and else no
\* shorter than that of each group with a line.
LEMMA PeriodOf ==
  ASSUME config \in Settings, NEW a \in Arts, db[a].xref \in Seq(Groups),
         CalcExpireDays(a) > 0
  PROVE  /\ CalcExpireDays(a) \in Nat
         /\ Lined(a) = {} => CalcExpireDays(a) = config.expire
         /\ \A g \in Lined(a) : Period(g) # 0 /\ Period(g) <= CalcExpireDays(a)
<1> DEFINE xref == db[a].xref
           n == Len(xref)
           D == {i \in Int : i >= -1}
           days[k \in 0 .. n] == IF k = 0 THEN -1 ELSE LongerOf(days[k - 1], xref[k])
           Body(r, k) == IF k = 0 THEN -1 ELSE LongerOf(r[k - 1], xref[k])
           step == [p \in (1 .. n) \X D |-> LongerOf(p[2], xref[p[1]])]
<1>1. n \in Nat /\ -1 \in D /\ \A k \in 1 .. n : xref[k] \in Groups
  OBVIOUS
<1>2. ASSUME NEW k \in 1 .. n, NEW r \in D
      PROVE  LongerOf(r, xref[k]) \in D
  BY <1>1, LongerOfBounds
<1>3. step \in [(1 .. n) \X D -> D]
  <2> HIDE DEF D, n, xref
  <2> QED BY <1>2
<1> HIDE DEF D
<1>4. PICK f \in [0 .. n -> D] : Follows(f, n, -1, step)
  <2> HIDE DEF n, step
  <2> QED BY <1>1, <1>3, Recursion
<1>5. ASSUME NEW k \in 0 .. n
      PROVE  f[k] = Body(f, k)
  <2>1. CASE k = 0
    BY <1>4, <2>1 DEF Follows
  <2>2. CASE k # 0
    <3>1. k \in 1 .. n /\ f[k - 1] \in D
      BY <1>1, <2>2
    <3>2. f[k] = step[<<k, f[k - 1]>>]
      BY <1>4, <3>1 DEF Follows
    <3> QED BY <2>2, <3>1, <3>2
  <2> QED BY <2>1, <2>2
<1>6. f = [k \in 0 .. n |-> Body(f, k)]
  <2> HIDE DEF Body
  <2> QED BY <1>5
<1>7. days = [k \in 0 .. n |-> Body(days, k)]
  BY <1>6
<1>8. days[0] = -1 /\ \A k \in 1 .. n : days[k] = LongerOf(days[k - 1], xref[k])
  <2>1. \A k \in 0 .. n : days[k] = Body(days, k)
    <3> HIDE DEF days, Body, n
    <3> QED BY <1>7
  <2> HIDE DEF days, n, xref
  <2> QED BY <1>1, <2>1
<1>9. CalcExpireDays(a) = IF days[n] = -1 THEN config.expire ELSE days[n]
  BY DEF CalcExpireDays
<1> HIDE DEF days, step, Body, n
<1> DEFINE Good(k) == /\ days[k] \in D
                      /\ (\A j \in 1 .. k : Matches(xref[j]) = {}) <=> days[k] = -1
                      /\ \A j \in 1 .. k :
                           days[k] > 0 /\ Matches(xref[j]) # {}
                             => Period(xref[j]) # 0 /\ Period(xref[j]) <= days[k]
           T == {k \in 0 .. n : Good(k)}
<1>10. 0 \in T
  BY <1>1, <1>8
<1>11. ASSUME NEW k \in 1 .. n, k - 1 \in T
       PROVE  k \in T
  <2> DEFINE r == days[k - 1]
             g == xref[k]
  <2>1. g \in Groups /\ r \in Int /\ r >= -1 /\ Good(k - 1) /\ days[k] = LongerOf(r, g)
    BY <1>1, <1>8, <1>11 DEF D
  <2>2. /\ days[k] \in Int /\ days[k] >= -1
        /\ Matches(g) = {} => days[k] = r
        /\ Matches(g) # {} => /\ days[k] # -1
                              /\ days[k] > 0 => Period(g) # 0 /\ Period(g) <= days[k]
        /\ days[k] > 0 => r # 0 /\ r <= days[k]
    <3> HIDE DEF r, g, Good
    <3> QED BY <2>1, LongerOfBounds
  <2>3. ASSUME NEW h \in Groups
        PROVE  Matches(h) # {} => Period(h) \in Int
    <3>1. config.patterns \in Seq(Patterns)
      BY DEF Settings
    <3>2. \A i \in DOMAIN config.patterns : config.patterns[i] \in Patterns /\ i \in Nat
      BY <3>1
    <3>3. Matches(h) # {} => Min(Matches(h)) \in DOMAIN config.patterns
      BY <3>2, MinOfNats DEF Matches
    <3> QED BY <3>2, <3>3 DEF Period, Patterns
  <2>4. days[k] \in D
    BY <2>2 DEF D
  <2>5. (\A j \in 1 .. k : Matches(xref[j]) = {}) <=> days[k] = -1
    <3>1. (\A j \in 1 .. k - 1 : Matches(xref[j]) = {}) <=> r = -1
      BY <2>1
    <3>2. (\A j \in 1 .. k : Matches(xref[j]) = {})
            <=> (\A j \in 1 .. k - 1 : Matches(xref[j]) = {}) /\ Matches(g) = {}
      BY <1>1
    <3>3. Matches(g) = {} => (days[k] = -1 <=> r = -1)
      BY <2>2
    <3> QED BY <2>2, <3>1, <3>2, <3>3
  <2>6. ASSUME NEW j \in 1 .. k, days[k] > 0, Matches(xref[j]) # {}
        PROVE  Period(xref[j]) # 0 /\ Period(xref[j]) <= days[k]
    <3>1. CASE j = k
      BY <2>2, <2>6, <3>1
    <3>2. CASE j # k
      <4>1. j \in 1 .. k - 1 /\ xref[j] \in Groups
        BY <1>1, <3>2
      <4>2. r # -1
        BY <2>1, <2>6, <4>1
      <4>3. r > 0 /\ r <= days[k]
        BY <2>1, <2>2, <2>6, <4>2
      <4>4. Period(xref[j]) # 0 /\ Period(xref[j]) <= r /\ Period(xref[j]) \in Int
        BY <2>1, <2>3, <2>6, <4>1, <4>3
      <4> HIDE DEF r
      <4> QED BY <2>1, <2>2, <4>3, <4>4
    <3> QED BY <3>1, <3>2
  <2>7. Good(k)
    BY <2>4, <2>5, <2>6
  <2> HIDE DEF Good
  <2> QED BY <2>7
<1>12. Good(n)
  <2> HIDE DEF Good
  <2>1. 0 .. n \subseteq T
    <3> HIDE DEF T
    <3> QED BY <1>1, <1>10, <1>11, UpTo
  <2>2. n \in T
    <3> HIDE DEF T
    <3> QED BY <1>1, <2>1
  <2> QED BY <2>2
<1>13. \A g \in Lined(a) : \E j \in 1 .. n : g = xref[j] /\ Matches(g) # {}
  BY DEF Lined, Range, n
<1>14. Lined(a) = {} => \A j \in 1 .. n : Matches(xref[j]) = {}
  BY DEF Lined, Range, n
<1>15. config.expire \in Nat
  BY DEF Settings
<1>16. CASE days[n] = -1
  BY <1>9, <1>12, <1>13, <1>15, <1>16
<1>17. CASE days[n] # -1
  <2>1. CalcExpireDays(a) = days[n] /\ days[n] > 0 /\ days[n] \in Nat
    BY <1>9, <1>12, <1>17 DEF D
  <2>2. \A g \in Lined(a) : Period(g) # 0 /\ Period(g) <= days[n]
    BY <1>12, <1>13, <2>1
  <2>3. Lined(a) # {}
    BY <1>12, <1>14, <1>17
  <2> QED BY <2>1, <2>2, <2>3
<1> QED BY <1>16, <1>17

-----------------------------------------------------------------------------
(* touchReferences                                                         *)

LEMMA RefsType ==
  ASSUME NEW a \in Arts
  PROVE  /\ Refs[a] \in Seq(Arts) /\ Len(Refs[a]) \in Nat
         /\ \A k \in 1 .. Len(Refs[a]) : Refs[a][k] \in Arts
<1>1. Refs[a] \in Seq(Arts)
  BY ExpiryAssumption
<1> QED BY <1>1

\* There are finitely many articles, so one has the longest references.
LEMMA LongestBounds ==
  ASSUME NEW a \in Arts
  PROVE  Longest \in Nat /\ Len(Refs[a]) <= Longest
<1> DEFINE n == Cardinality(Arts)
<1>1. n \in Nat /\ ExistsBijection(1 .. n, Arts)
  BY ExpiryAssumption, FS_CardinalityType
<1>2. PICK f \in Bijection(1 .. n, Arts) : TRUE
  BY <1>1 DEF ExistsBijection
<1>3. f \in [1 .. n -> Arts] /\ \A x \in Arts : \E i \in 1 .. n : f[i] = x
  BY <1>2 DEF Bijection, Surjection, Injection
<1> HIDE DEF n
<1> DEFINE L(x) == Len(Refs[x])
           Bound(m) == \E b \in Nat : \A i \in 1 .. m : L(f[i]) <= b
           T == {m \in 0 .. n : Bound(m)}
<1>4. \A x \in Arts : L(x) \in Nat
  BY RefsType
<1> HIDE DEF L
<1>5. 0 .. n \subseteq T
  <2>1. 0 \in T
    BY <1>1
  <2>2. ASSUME NEW k \in 1 .. n, k - 1 \in T
        PROVE  k \in T
    <3>1. PICK b \in Nat : \A i \in 1 .. k - 1 : L(f[i]) <= b
      BY <2>2
    <3>2. f[k] \in Arts /\ L(f[k]) \in Nat
      BY <1>3, <1>4
    <3>3. \A i \in 1 .. k : L(f[i]) <= b + L(f[k])
      <4>1. ASSUME NEW i \in 1 .. k
            PROVE  L(f[i]) <= b + L(f[k])
        <5>1. L(f[i]) \in Nat
          BY <1>1, <1>3, <1>4
        <5>2. CASE i = k
          BY <3>2, <5>1, <5>2
        <5>3. CASE i # k
          BY <3>1, <3>2, <5>1, <5>3
        <5> QED BY <5>2, <5>3
      <4> QED BY <4>1
    <3>4. b + L(f[k]) \in Nat
      BY <3>2
    <3>5. Bound(k)
      BY <3>3, <3>4
    <3> QED BY <3>5
  <2> HIDE DEF T
  <2> QED BY <1>1, <2>1, <2>2, UpTo
<1>6. PICK b \in Nat : \A i \in 1 .. n : L(f[i]) <= b
  <2>1. n \in T
    <3> HIDE DEF T
    <3> QED BY <1>1, <1>5
  <2> QED BY <2>1
<1> DEFINE B == {c \in Nat : \A x \in Arts : L(x) <= c}
<1>7. b \in B
  BY <1>3, <1>6
<1>8. PICK c \in B : \A d \in B : c <= d
  BY <1>7, LeastOf
<1>9. \E x \in Arts : L(x) = c
  <2>1. SUFFICES ASSUME \A x \in Arts : L(x) # c PROVE FALSE
    OBVIOUS
  <2>2. \A x \in Arts : L(x) <= c - 1
    BY <1>4, <1>8, <2>1
  <2>3. c - 1 \in Nat
    BY <1>4, <1>8, <2>1
  <2>4. c - 1 \in B
    BY <2>2, <2>3
  <2> QED BY <1>8, <2>4
<1>10. Max({L(x) : x \in Arts}) = c
  BY <1>4, <1>8, <1>9 DEF Max
<1>11. Longest = c
  BY <1>10 DEF Longest, L
<1> QED BY <1>8, <1>11 DEF L

Buffer == [slots : [1 .. Longest -> Arts], ends : SUBSET Nat, loaded : Arts,
           touched : SUBSET Arts, done : BOOLEAN]

\* Loading the entry of r overwrites the front of the buffer with its
\* references, unless it is in memory already.
LEMMA LoadArtDoes ==
  ASSUME NEW w \in Buffer, NEW r \in Arts
  PROVE  /\ LoadArt(w, r) \in Buffer
         /\ LoadArt(w, r).touched = w.touched /\ LoadArt(w, r).done = w.done
         /\ \A k \in 1 .. Longest :
              k > Len(Refs[r]) => LoadArt(w, r).slots[k] = w.slots[k]
         /\ \A e \in LoadArt(w, r).ends : e \in w.ends \/ e = Len(Refs[r])
<1> DEFINE s == [k \in DOMAIN w.slots |->
                    IF k <= Len(Refs[r]) THEN Refs[r][k] ELSE w.slots[k]]
           z == {e \in w.ends : e > Len(Refs[r])} \cup {Len(Refs[r])}
<1>1. CASE r = w.loaded
  BY <1>1 DEF LoadArt
<1>2. CASE r # w.loaded
  <2>1. LoadArt(w, r) = [w EXCEPT !.loaded = r, !.slots = s, !.ends = z]
    BY <1>2 DEF LoadArt, Buffer
  <2>2. Longest \in Nat /\ Len(Refs[r]) \in Nat
        /\ \A k \in 1 .. Len(Refs[r]) : Refs[r][k] \in Arts
    BY RefsType, LongestBounds
  <2>3. w.slots \in [1 .. Longest -> Arts] /\ w.ends \in SUBSET Nat
    BY DEF Buffer
  <2>4. s \in [1 .. Longest -> Arts] /\ z \in SUBSET Nat
    BY <2>2, <2>3
  <2>5. \A k \in 1 .. Longest : k > Len(Refs[r]) => s[k] = w.slots[k]
    BY <2>2, <2>3
  <2>6. \A e \in z : e \in w.ends \/ e = Len(Refs[r])
    OBVIOUS
  <2> HIDE DEF s, z
  <2> QED BY <2>1, <2>4, <2>5, <2>6 DEF Buffer
<1> QED BY <1>1, <1>2

LEMMA SlotDoes ==
  ASSUME NEW w \in Buffer, NEW i \in 1 .. Longest
  PROVE  /\ Slot(w, i) \in Buffer
         /\ w.touched \subseteq Slot(w, i).touched
         /\ Slot(w, i).touched \subseteq w.touched \cup Stored(db)
<1> DEFINE r == w.slots[i]
           v == LoadArt(w, r)
<1>1. r \in Arts
  BY DEF Buffer
<1>2. CASE i - 1 \in w.ends \/ w.done
  BY <1>2 DEF Slot, Buffer
<1>3. CASE ~(i - 1 \in w.ends \/ w.done) /\ r \notin Stored(db)
  BY <1>3 DEF Slot
<1>4. CASE ~(i - 1 \in w.ends \/ w.done) /\ r \in Stored(db)
  <2>1. v \in Buffer /\ v.touched = w.touched
    BY <1>1, LoadArtDoes
  <2>2. Slot(w, i) = [v EXCEPT !.touched = @ \cup {r}]
    BY <1>4 DEF Slot
  <2> HIDE DEF v, r
  <2> QED BY <1>1, <1>4, <2>1, <2>2 DEF Buffer
<1> QED BY <1>2, <1>3, <1>4

LEMMA StartType ==
  ASSUME NEW a \in Arts
  PROVE  Start(a) \in Buffer
<1>1. Longest \in Nat /\ Len(Refs[a]) \in Nat /\ \A k \in 1 .. Len(Refs[a]) : Refs[a][k] \in Arts
  BY RefsType, LongestBounds
<1>2. [k \in 1 .. Longest |-> IF k <= Len(Refs[a]) THEN Refs[a][k] ELSE a] \in [1 .. Longest -> Arts]
  BY <1>1
<1> QED BY <1>1, <1>2 DEF Start, Buffer

\* The loop of touchReferences, turn by turn.
LEMMA Walks ==
  ASSUME NEW a \in Arts
  PROVE  \E walk \in [0 .. Longest -> Buffer] :
           /\ walk[0] = Start(a)
           /\ \A k \in 1 .. Longest : walk[k] = Slot(walk[k - 1], k)
           /\ TouchReferences(a) = walk[Longest].touched
<1> DEFINE walk[i \in 0 .. Longest] == IF i = 0 THEN Start(a) ELSE Slot(walk[i - 1], i)
           Body(r, k) == IF k = 0 THEN Start(a) ELSE Slot(r[k - 1], k)
           step == [p \in (1 .. Longest) \X Buffer |-> Slot(p[2], p[1])]
<1>1. Longest \in Nat /\ Start(a) \in Buffer
  BY StartType, LongestBounds
<1>2. step \in [(1 .. Longest) \X Buffer -> Buffer]
  <2>1. \A p \in (1 .. Longest) \X Buffer : Slot(p[2], p[1]) \in Buffer
    BY SlotDoes
  <2> QED BY <2>1
<1>3. PICK f \in [0 .. Longest -> Buffer] : Follows(f, Longest, Start(a), step)
  <2> HIDE DEF step
  <2> QED BY <1>1, <1>2, Recursion
<1>4. ASSUME NEW k \in 0 .. Longest
      PROVE  f[k] = Body(f, k)
  <2>1. CASE k = 0
    BY <1>3, <2>1 DEF Follows
  <2>2. CASE k # 0
    <3>1. k \in 1 .. Longest /\ f[k - 1] \in Buffer
      BY <1>1, <2>2
    <3>2. f[k] = step[<<k, f[k - 1]>>]
      BY <1>3, <3>1 DEF Follows
    <3> QED BY <2>2, <3>1, <3>2
  <2> QED BY <2>1, <2>2
<1>5. f = [k \in 0 .. Longest |-> Body(f, k)]
  <2> HIDE DEF Body
  <2> QED BY <1>4
<1>6. walk = [k \in 0 .. Longest |-> Body(walk, k)]
  BY <1>5
<1>7. walk[0] = Start(a) /\ \A k \in 1 .. Longest : walk[k] = Slot(walk[k - 1], k)
  <2>1. \A k \in 0 .. Longest : walk[k] = Body(walk, k)
    <3> HIDE DEF walk, Body
    <3> QED BY <1>6
  <2> HIDE DEF walk
  <2> QED BY <1>1, <2>1
<1>8. TouchReferences(a) = walk[Longest].touched
  BY DEF TouchReferences
<1>9. walk \in [0 .. Longest -> Buffer]
  <2> DEFINE T == {k \in 0 .. Longest : walk[k] \in Buffer}
  <2> HIDE DEF walk, Body
  <2>1. 0 \in T
    BY <1>1, <1>7
  <2>2. ASSUME NEW k \in 1 .. Longest, k - 1 \in T
        PROVE  k \in T
    BY <1>7, <2>2, SlotDoes
  <2>3. 0 .. Longest \subseteq T
    <3> HIDE DEF T
    <3> QED BY <1>1, <2>1, <2>2, UpTo
  <2> QED BY <1>6, <2>3
<1> HIDE DEF walk
<1> QED BY <1>7, <1>8, <1>9

\* What is touched is in the database.
LEMMA TouchesStored ==
  ASSUME NEW a \in Arts
  PROVE  TouchReferences(a) \subseteq Stored(db)
<1>1. PICK walk \in [0 .. Longest -> Buffer] :
         /\ walk[0] = Start(a)
         /\ \A k \in 1 .. Longest : walk[k] = Slot(walk[k - 1], k)
         /\ TouchReferences(a) = walk[Longest].touched
  BY Walks
<1> DEFINE T == {k \in 0 .. Longest : walk[k].touched \subseteq Stored(db)}
<1>2. Longest \in Nat
  BY LongestBounds
<1>3. 0 \in T
  BY <1>1, <1>2 DEF Start
<1>4. ASSUME NEW k \in 1 .. Longest, k - 1 \in T
      PROVE  k \in T
  <2>1. walk[k - 1] \in Buffer /\ walk[k - 1].touched \subseteq Stored(db)
    BY <1>2, <1>4
  <2>2. walk[k].touched \subseteq walk[k - 1].touched \cup Stored(db)
    BY <1>1, <2>1, SlotDoes
  <2> QED BY <2>1, <2>2
<1>5. 0 .. Longest \subseteq T
  <2> HIDE DEF T
  <2> QED BY <1>2, <1>3, <1>4, UpTo
<1> QED BY <1>1, <1>2, <1>5

(***************************************************************************)
(* When the references of an article are those of its parent and the       *)
(* parent, what is loaded is always shorter than what has been gone        *)
(* through, and the walk comes to the end of them.                         *)
(***************************************************************************)
LEMMA TouchesThread ==
  ASSUME NEW a \in Arts, Threaded(a)
  PROVE  Range(Refs[a]) \cap Stored(db) \subseteq TouchReferences(a)
<1> DEFINE n == Len(Refs[a])
<1>1. PICK walk \in [0 .. Longest -> Buffer] :
         /\ walk[0] = Start(a)
         /\ \A k \in 1 .. Longest : walk[k] = Slot(walk[k - 1], k)
         /\ TouchReferences(a) = walk[Longest].touched
  BY Walks
<1>2. Longest \in Nat /\ n \in Nat /\ n <= Longest /\ Refs[a] \in Seq(Arts)
  BY RefsType, LongestBounds
<1>3. \A k \in 1 .. n : Refs[a][k] \in Arts /\ Len(Refs[Refs[a][k]]) < k
  BY <1>2, RefsType DEF Threaded
<1> DEFINE Ahead(w, i) == /\ ~w.done
                          /\ \A k \in i + 1 .. n : w.slots[k] = Refs[a][k]
                          /\ \A e \in w.ends : e >= n \/ e < i
           Behind(w, i) == \A k \in 1 .. n : k <= i /\ Refs[a][k] \in Stored(db)
                                               => Refs[a][k] \in w.touched
           T == {i \in 0 .. Longest : /\ i <= n => Ahead(walk[i], i)
                                      /\ Behind(walk[i], i)}
<1>4. 0 \in T
  <2>1. ~Start(a).done /\ Start(a).ends = {n}
    BY DEF Start
  <2>2. \A k \in 1 .. n : Start(a).slots[k] = Refs[a][k]
    BY <1>2 DEF Start
  <2>3. Ahead(walk[0], 0)
    BY <1>1, <1>2, <2>1, <2>2
  <2>4. Behind(walk[0], 0)
    BY <1>2
  <2> HIDE DEF Ahead, Behind
  <2> QED BY <1>2, <2>3, <2>4
<1>5. ASSUME NEW i \in 1 .. Longest, i - 1 \in T
      PROVE  i \in T
  <2> DEFINE w == walk[i - 1]
             r == w.slots[i]
             v == LoadArt(w, r)
  <2>1. w \in Buffer /\ walk[i] = Slot(w, i) /\ Behind(w, i - 1) /\ walk[i] \in Buffer
    BY <1>1, <1>2, <1>5
  <2>2. w.touched \subseteq walk[i].touched
    BY <2>1, SlotDoes
  <2>3. CASE i > n
    <3>1. Behind(walk[i], i)
      BY <1>2, <2>1, <2>2, <2>3
    <3> QED BY <2>3, <3>1
  <2>4. CASE i <= n
    <3>1. Ahead(w, i - 1)
      BY <1>2, <1>5, <2>4
    <3>2. i \in 1 .. n /\ r = Refs[a][i] /\ r \in Arts /\ Len(Refs[r]) < i
      BY <1>2, <1>3, <2>4, <3>1
    <3>3. ~(i - 1 \in w.ends \/ w.done)
      BY <1>2, <2>4, <3>1
    <3>4. w.ends \subseteq Nat /\ Len(Refs[r]) \in Nat
      BY <2>1, <3>2, RefsType DEF Buffer
    <3>5. CASE r \notin Stored(db)
      <4>1. walk[i] = w
        BY <2>1, <3>3, <3>5 DEF Slot
      <4>2. Ahead(w, i)
        BY <1>2, <3>1, <3>4
      <4>3. Behind(w, i)
        BY <1>2, <2>1, <3>2, <3>5
      <4> HIDE DEF Ahead, Behind, w
      <4> QED BY <4>1, <4>2, <4>3
    <3>6. CASE r \in Stored(db)
      <4>1. /\ v \in Buffer /\ v.touched = w.touched /\ v.done = w.done
            /\ \A k \in 1 .. Longest : k > Len(Refs[r]) => v.slots[k] = w.slots[k]
            /\ \A e \in v.ends : e \in w.ends \/ e = Len(Refs[r])
        <5>1. w \in Buffer /\ r \in Arts
          BY <2>1, <3>2
        <5> HIDE DEF w, r
        <5> QED BY <5>1, LoadArtDoes
      <4>2. walk[i] = [v EXCEPT !.touched = @ \cup {r}]
        BY <2>1, <3>3, <3>6 DEF Slot
      <4> HIDE DEF v
      <4>3. /\ walk[i].done = w.done /\ walk[i].slots = v.slots /\ walk[i].ends = v.ends
            /\ walk[i].touched = w.touched \cup {r}
        BY <4>1, <4>2 DEF Buffer
      <4>4. Ahead(walk[i], i)
        <5>1. ~walk[i].done
          BY <3>3, <4>3
        <5>2. \A k \in i + 1 .. n : walk[i].slots[k] = Refs[a][k]
          BY <1>2, <3>1, <3>2, <3>4, <4>1, <4>3
        <5>3. \A e \in walk[i].ends : e >= n \/ e < i
          BY <1>2, <3>1, <3>2, <3>4, <4>1, <4>3
        <5> QED BY <5>1, <5>2, <5>3
      <4>5. Behind(walk[i], i)
        BY <1>2, <2>1, <3>2, <4>3
      <4> HIDE DEF Ahead, Behind
      <4> QED BY <4>4, <4>5
    <3> QED BY <3>5, <3>6
  <2> QED BY <1>2, <2>3, <2>4
<1>6. 0 .. Longest \subseteq T
  <2> HIDE DEF T
  <2> QED BY <1>2, <1>4, <1>5, UpTo
<1>7. Behind(walk[Longest], Longest)
  <2>1. Longest \in T
    <3> HIDE DEF T
    <3> QED BY <1>2, <1>6
  <2> HIDE DEF Ahead, Behind
  <2> QED BY <2>1
<1>8. ASSUME NEW r \in Range(Refs[a]) \cap Stored(db)
      PROVE  r \in walk[Longest].touched
  <2>1. PICK k \in 1 .. n : r = Refs[a][k]
    BY <1>2 DEF Range
  <2>2. k <= Longest
    BY <1>2
  <2> QED BY <1>7, <2>1, <2>2
<1> QED BY <1>1, <1>8

-----------------------------------------------------------------------------
(***************************************************************************)
(* The inductive invariant.  What is due is in the database, interesting   *)
(* and not touched before it was due.  While an expiry copies, what it has *)
(* passed over is old.  While it cleans, the groups it has done have no    *)
(* overview without an article.                                            *)
(***************************************************************************)
DueTold == \A r \in Arts : due[r] # Never =>
              /\ r \in Stored(db) /\ db[r].interesting
              /\ due[r] <= db[r].last /\ due[r] <= now

Old(a) == CalcExpireDays(a) > 0 /\ tool.time - db[a].last > CalcExpireDays(a)

CopyKeeps == tool.at = "copy" =>
                /\ tool.time <= now
                /\ \A a \in Stored(db) \ (tool.left \cup tool.kept) : Old(a)

CleanKeeps == tool.at = "clean" =>
                 \A g \in Groups \ tool.left : over[g] \subseteq Stored(db)

IInv == TypeOK /\ DueTold /\ CopyKeeps /\ CleanKeeps

Entries == Entry \cup {NoEntry}

LEMMA EntryOf ==
  ASSUME TypeOK, NEW a \in Arts
  PROVE  /\ db[a] \in Entries
         /\ a \in Stored(db) <=> db[a] # NoEntry
         /\ a \in Stored(db) <=> db[a] \in Entry
<1>1. db[a] \in Entries
  BY DEF TypeOK, Entries
<1>2. \A e \in Entry : e # NoEntry
  <2>1. \A e \in Entry : e.last >= 0
    BY ExpiryAssumption DEF Entry, Times
  <2> QED BY <2>1 DEF NoEntry
<1> QED BY <1>1, <1>2 DEF Stored, Entries

LEMMA SettingsType == TypeOK => config \in Settings
BY ExpiryAssumption, CfgReadType DEF TypeOK

LEMMA TouchedType ==
  ASSUME now \in Times, NEW e \in Entry
  PROVE  /\ Touched(e) \in Entry /\ Touched(e).interesting /\ Touched(e).last = now
BY DEF Touched, Entry

LEMMA StoreType ==
  ASSUME now \in Times, NEW e \in Entry
  PROVE  /\ StoreArt(e) \in Entry /\ StoreArt(e).last = now
         /\ StoreArt(e).interesting = e.interesting
BY DEF StoreArt, Entry

LEMMA PrepareType ==
  ASSUME TypeOK, NEW a \in Arts, NEW g \in Groups, NEW e \in PrepareEntry(a, g)
  PROVE  /\ e \in Entry
         /\ a \in Stored(db) => e.interesting = db[a].interesting /\ e.last = db[a].last
<1>1. CASE a \in Stored(db)
  <2>1. db[a] \in Entry /\ db[a].xref \in Seq(Groups) \ {<<>>}
    BY <1>1, EntryOf DEF Entry
  <2>2. <<g>> \o db[a].xref \in Seq(Groups) \ {<<>>} /\ Append(db[a].xref, g) \in Seq(Groups) \ {<<>>}
    BY <2>1
  <2> DEFINE x == <<g>> \o db[a].xref
             y == Append(db[a].xref, g)
  <2>3. e = [db[a] EXCEPT !.xref = x] \/ e = [db[a] EXCEPT !.xref = y]
    BY <1>1, <2>1 DEF PrepareEntry, Entry
  <2>4. x \in Seq(Groups) \ {<<>>} /\ y \in Seq(Groups) \ {<<>>}
    BY <2>2
  <2> HIDE DEF x, y
  <2> QED BY <2>1, <2>3, <2>4 DEF Entry
<1>2. CASE a \notin Stored(db)
  <2>1. <<g>> \in Seq(Groups) \ {<<>>} /\ now \in Times
    BY DEF TypeOK
  <2>2. e = [last |-> now, interesting |-> FALSE, loaded |-> FALSE, xref |-> <<g>>]
    BY <1>2 DEF PrepareEntry
  <2> QED BY <1>2, <2>1, <2>2 DEF Entry
<1> QED BY <1>1, <1>2

LEMMA OpenStep ==
  ASSUME IInv, NEW a \in Arts, Open(a)
  PROVE  IInv'
<1> DEFINE touched == {a} \cup TouchReferences(a)
<1>1. touched \subseteq Stored(db) /\ a \in Stored(db)
  BY TouchesStored DEF Open
<1>2. Threaded(a) => Range(Refs[a]) \cap Stored(db) \subseteq touched
  BY TouchesThread
<1>3. db' = [b \in Arts |-> IF b \in touched THEN Touched(db[b]) ELSE db[b]]
  BY Zenon DEF Open
<1>4. /\ due' = [b \in Arts |->
                  IF \/ b = a
                     \/ Threaded(a) /\ b \in (Range(Refs[a]) \cap Stored(db))
                    THEN now ELSE due[b]]
      /\ marked' \subseteq marked \cup {a}
      /\ UNCHANGED <<config, over, came, now, tool>>
  BY DEF Open
<1> HIDE DEF touched
<1>5. tool.at = "idle" /\ now \in Times /\ Times \subseteq Nat /\ TypeOK
  BY ExpiryAssumption DEF Open, Idle, IInv, TypeOK, Times
<1>6. ASSUME NEW b \in Arts
      PROVE  /\ db'[b] \in Entries
             /\ b \in touched => /\ db'[b] \in Entry /\ db'[b] # NoEntry
                                 /\ db'[b].interesting /\ db'[b].last = now
             /\ b \notin touched => db'[b] = db[b]
  <2>1. CASE b \in touched
    <3>1. db[b] \in Entry
      BY <1>1, <1>5, <2>1, EntryOf
    <3>2. Touched(db[b]) \in Entry /\ Touched(db[b]).interesting /\ Touched(db[b]).last = now
      BY <1>5, <3>1, TouchedType
    <3>3. db'[b] = Touched(db[b])
      BY <1>3, <2>1
    <3>4. Touched(db[b]) # NoEntry
      BY <1>5, <3>2 DEF NoEntry
    <3> QED BY <2>1, <3>2, <3>3, <3>4 DEF Entries
  <2>2. CASE b \notin touched
    BY <1>3, <1>5, <2>2, EntryOf
  <2> QED BY <2>1, <2>2
<1>7. TypeOK'
  <2>1. db' \in [Arts -> Entries]
    BY <1>3, <1>6
  <2>2. due' \in [Arts -> Times \cup {Never}]
    BY <1>4, <1>5 DEF TypeOK
  <2>3. marked' \subseteq Arts
    BY <1>4, <1>5 DEF TypeOK
  <2> QED BY <1>4, <1>5, <2>1, <2>2, <2>3 DEF TypeOK, Entries
<1>8. DueTold'
  <2> SUFFICES ASSUME NEW b \in Arts, due'[b] # Never
               PROVE  /\ b \in Stored(db') /\ db'[b].interesting
                      /\ due'[b] <= db'[b].last /\ due'[b] <= now'
    BY DEF DueTold
  <2>1. CASE due'[b] = now /\ b \in touched
    BY <1>4, <1>5, <1>6, <2>1 DEF Stored
  <2>2. CASE due'[b] = due[b]
    <3>1. b \in Stored(db) /\ db[b].interesting /\ due[b] <= db[b].last /\ due[b] <= now
      BY <2>2 DEF IInv, DueTold
    <3> QED BY <1>4, <1>6, <2>2, <3>1 DEF Stored
  <2>3. (b \in touched /\ due'[b] = now) \/ due'[b] = due[b]
    BY <1>2, <1>4 DEF touched
  <2> QED BY <2>1, <2>2, <2>3
<1>9. CopyKeeps' /\ CleanKeeps'
  BY <1>4, <1>5 DEF CopyKeeps, CleanKeeps
<1> QED BY <1>7, <1>8, <1>9 DEF IInv

LEMMA GetOverStep ==
  ASSUME IInv, NEW a \in Arts, NEW g \in Groups, GetOver(a, g)
  PROVE  IInv'
<1>1. PICK e \in PrepareEntry(a, g) : db' = [db EXCEPT ![a] = e]
  BY Zenon DEF GetOver
<1>2. /\ over' = [over EXCEPT ![g] = @ \cup {a}] /\ came' = [came EXCEPT ![g] = @ \cup {a}]
      /\ marked' \subseteq marked \cup {a}
      /\ UNCHANGED <<config, now, tool, due>>
  BY DEF GetOver
<1>3. tool.at = "idle" /\ TypeOK
  BY DEF GetOver, Idle, IInv
<1>4. e \in Entry /\ (a \in Stored(db) => e.interesting = db[a].interesting /\ e.last = db[a].last)
  BY <1>3, PrepareType
<1>5. e # NoEntry /\ \A b \in Arts : db[b] \in Entries
  <2>1. e.last \in Nat
    BY <1>4, ExpiryAssumption DEF Entry, Times
  <2> QED BY <1>3, <2>1, EntryOf DEF NoEntry
<1>6. TypeOK'
  <2>1. db' \in [Arts -> Entries]
    BY <1>1, <1>3, <1>4, <1>5 DEF TypeOK, Entries
  <2>2. over' \in [Groups -> SUBSET Arts] /\ came' \in [Groups -> SUBSET Arts]
    BY <1>2, <1>3 DEF TypeOK
  <2> QED BY <1>2, <1>3, <2>1, <2>2 DEF TypeOK, Entries
<1>7. DueTold'
  BY <1>1, <1>2, <1>3, <1>4, <1>5 DEF DueTold, IInv, Stored, TypeOK
<1>8. CopyKeeps' /\ CleanKeeps'
  BY <1>2, <1>3 DEF CopyKeeps, CleanKeeps
<1> QED BY <1>6, <1>7, <1>8 DEF IInv

LEMMA RetrieveStep ==
  ASSUME IInv, NEW a \in Arts, Retrieve(a)
  PROVE  IInv'
<1>1. /\ marked' = marked \ {a}
      /\ UNCHANGED <<config, over, came, now, tool, due>>
      /\ tool.at = "idle" /\ TypeOK /\ now \in Times
  BY DEF Retrieve, Idle, IInv, TypeOK
<1>2. CopyKeeps' /\ CleanKeeps'
  BY <1>1 DEF CopyKeeps, CleanKeeps
<1>3. CASE db' = db
  <2>1. TypeOK'
    BY <1>1, <1>3 DEF TypeOK
  <2>2. DueTold'
    BY <1>1, <1>3 DEF IInv, DueTold
  <2> QED BY <1>2, <2>1, <2>2 DEF IInv
<1>4. CASE a \in Stored(db) /\ db' = [db EXCEPT ![a] = StoreArt(@)]
  <2> DEFINE e == StoreArt(db[a])
  <2>1. e \in Entry /\ e.last = now /\ e.interesting = db[a].interesting
    BY <1>1, <1>4, EntryOf, StoreType
  <2>2. e # NoEntry
    BY <1>1, <2>1, ExpiryAssumption DEF NoEntry, Times
  <2>3. db' = [db EXCEPT ![a] = e]
    BY <1>4
  <2> HIDE DEF e
  <2>4. TypeOK'
    BY <1>1, <2>1, <2>3 DEF TypeOK
  <2>5. DueTold'
    BY <1>1, <2>1, <2>2, <2>3, ExpiryAssumption DEF IInv, DueTold, Stored, TypeOK, Times
  <2> QED BY <1>2, <2>4, <2>5 DEF IInv
<1> QED BY <1>3, <1>4 DEF Retrieve

\* An entry stays as old as it is while the database is copied.
LEMMA OldStands ==
  ASSUME NEW a \in Arts, Old(a), UNCHANGED <<config, db>>, tool'.time = tool.time
  PROVE  Old(a)'
<1>1. CalcExpireDays(a)' = CalcExpireDays(a)
  BY DEF CalcExpireDays, LongerOf
<1> HIDE DEF CalcExpireDays
<1> QED BY <1>1 DEF Old

LEMMA CopyStep ==
  ASSUME IInv, NEW a \in Arts, Copy(a)
  PROVE  IInv'
<1> DEFINE days == CalcExpireDays(a)
           old == days > 0 /\ tool.time - db[a].last > days
           kept == IF old THEN tool.kept ELSE tool.kept \cup {a}
           left == tool.left \ {a}
<1>1. /\ tool.at = "copy" /\ tool' = [tool EXCEPT !.left = left, !.kept = kept]
      /\ UNCHANGED <<config, db, over, came, marked, now, due>>
  BY DEF Copy
<1>2. tool \in [at : {"copy"}, time : Times, left : SUBSET Arts, kept : SUBSET Arts]
  BY <1>1 DEF IInv, TypeOK
<1>3. left \in SUBSET Arts /\ kept \in SUBSET Arts
  BY <1>2
<1>4. old => Old(a)
  BY DEF Old
<1>5. a \in left \cup kept \/ old
  OBVIOUS
<1>6. tool.left \cup tool.kept \subseteq left \cup kept \cup {a}
  OBVIOUS
<1> HIDE DEF left, kept, old
<1>7. /\ tool' \in [at : {"copy"}, time : Times, left : SUBSET Arts, kept : SUBSET Arts]
      /\ tool'.time = tool.time /\ tool'.left = left /\ tool'.kept = kept /\ tool'.at = "copy"
  BY <1>1, <1>2, <1>3
<1>8. TypeOK' /\ DueTold' /\ CleanKeeps'
  <2>1. TypeOK'
    BY <1>1, <1>7 DEF IInv, TypeOK
  <2>2. DueTold'
    BY <1>1 DEF IInv, DueTold, Stored
  <2> QED BY <1>7, <2>1, <2>2 DEF CleanKeeps
<1>9. ASSUME NEW b \in Stored(db') \ (tool'.left \cup tool'.kept)
      PROVE  Old(b)'
  <2>1. b \in Arts /\ b \in Stored(db) /\ b \notin left \cup kept
    BY <1>1, <1>7 DEF Stored
  <2>2. Old(b)
    <3>1. CASE b = a
      BY <1>4, <1>5, <2>1, <3>1
    <3>2. CASE b # a
      <4>1. b \notin tool.left \cup tool.kept
        BY <1>6, <2>1, <3>2
      <4> QED BY <1>1, <2>1, <4>1 DEF IInv, CopyKeeps
    <3> QED BY <3>1, <3>2
  <2> QED BY <1>1, <1>7, <2>1, <2>2, OldStands
<1>10. CopyKeeps'
  <2>1. tool.time <= now
    BY <1>1 DEF IInv, CopyKeeps
  <2> QED BY <1>1, <1>7, <1>9, <2>1 DEF CopyKeeps
<1> QED BY <1>8, <1>10 DEF IInv

LEMMA RenameStep ==
  ASSUME IInv, Rename
  PROVE  IInv'
<1>1. /\ tool.at = "copy" /\ tool.left = {}
      /\ db' = [a \in Arts |-> IF a \in tool.kept THEN db[a] ELSE NoEntry]
      /\ due' = [a \in Arts |-> IF a \in tool.kept THEN due[a] ELSE Never]
      /\ tool' = [at |-> "clean", time |-> tool.time, left |-> Groups, kept |-> {}]
      /\ UNCHANGED <<config, over, came, marked, now>>
  BY DEF Rename
<1>2. tool.time \in Times
  BY <1>1 DEF IInv, TypeOK
<1>3. TypeOK'
  <2>1. db' \in [Arts -> Entry \cup {NoEntry}] /\ due' \in [Arts -> Times \cup {Never}]
    BY <1>1 DEF IInv, TypeOK
  <2> QED BY <1>1, <1>2, <2>1 DEF IInv, TypeOK
<1>4. DueTold'
  BY <1>1 DEF IInv, DueTold, Stored
<1> QED BY <1>1, <1>3, <1>4 DEF IInv, CopyKeeps, CleanKeeps

LEMMA CleanStep ==
  ASSUME IInv, NEW g \in Groups, Clean(g)
  PROVE  IInv'
<1>1. /\ tool.at = "clean" /\ g \in tool.left
      /\ over' = [over EXCEPT ![g] = @ \cap Stored(db)]
      /\ tool' = IF tool.left = {g} THEN [at |-> "idle"] ELSE [tool EXCEPT !.left = @ \ {g}]
      /\ UNCHANGED <<config, db, came, marked, now, due>>
  BY DEF Clean
<1>2. tool \in [at : {"clean"}, time : Times, left : SUBSET Groups, kept : {{}}]
  BY <1>1 DEF IInv, TypeOK
<1>3. \/ tool' = [at |-> "idle"] /\ tool'.at = "idle"
      \/ /\ tool' \in [at : {"clean"}, time : Times, left : SUBSET Groups, kept : {{}}]
         /\ tool'.left = tool.left \ {g} /\ tool'.at = "clean"
  BY <1>1, <1>2
<1>4. TypeOK'
  BY <1>1, <1>3 DEF IInv, TypeOK
<1>5. DueTold'
  BY <1>1 DEF IInv, DueTold, Stored
<1>6. CleanKeeps'
  BY <1>1, <1>3 DEF IInv, CleanKeeps, TypeOK, Stored
<1> QED BY <1>3, <1>4, <1>5, <1>6 DEF IInv, CopyKeeps

LEMMA OtherStep ==
  ASSUME IInv, Expire \/ Killed \/ Tick \/ UNCHANGED vars
  PROVE  IInv'
<1>1. CASE Expire
  <2>1. TypeOK'
    BY <1>1 DEF Expire, IInv, TypeOK, Stored
  <2>2. DueTold' /\ CleanKeeps'
    BY <1>1 DEF Expire, IInv, DueTold, CleanKeeps, Stored
  <2>3. CopyKeeps'
    <3>1. now \in Int
      BY ExpiryAssumption DEF IInv, TypeOK, Times
    <3> QED BY <1>1, <3>1 DEF Expire, CopyKeeps, Stored
  <2> QED BY <2>1, <2>2, <2>3 DEF IInv
<1>2. CASE Killed
  BY <1>2 DEF Killed, IInv, TypeOK, DueTold, CopyKeeps, CleanKeeps, Stored
<1>3. CASE Tick
  <2>1. now \in Nat /\ now' = now + 1 /\ now' \in Times
        /\ UNCHANGED <<config, db, over, came, marked, tool, due>>
    BY <1>3, ExpiryAssumption DEF Tick, IInv, TypeOK, Times
  <2>2. TypeOK' /\ CleanKeeps'
    <3>1. TypeOK'
      BY <2>1 DEF IInv, TypeOK
    <3>2. CleanKeeps'
      BY <2>1 DEF IInv, CleanKeeps, Stored
    <3> QED BY <3>1, <3>2
  <2>3. DueTold'
    <3>1. \A a \in Arts : due[a] \in Int
      BY ExpiryAssumption DEF IInv, TypeOK, Times, Never
    <3> QED BY <2>1, <3>1 DEF IInv, DueTold, Stored
  <2>4. CopyKeeps'
    <3>1. tool.at = "copy" => tool.time \in Int
      BY ExpiryAssumption DEF IInv, TypeOK, Times
    <3>2. \A a \in Arts : Old(a) => Old(a)'
      BY <2>1, OldStands
    <3>3. Stored(db') = Stored(db) /\ Stored(db) \subseteq Arts
      BY <2>1 DEF Stored
    <3> HIDE DEF Old
    <3> QED BY <2>1, <3>1, <3>2, <3>3 DEF IInv, CopyKeeps
  <2> QED BY <2>2, <2>3, <2>4 DEF IInv
<1>4. CASE UNCHANGED vars
  <2>1. UNCHANGED <<config, db, over, came, marked, now, tool, due>>
    BY <1>4 DEF vars
  <2>2. TypeOK'
    BY <2>1 DEF IInv, TypeOK
  <2>3. DueTold' /\ CleanKeeps'
    BY <2>1 DEF IInv, DueTold, CleanKeeps, Stored
  <2>4. CopyKeeps'
    <3>1. \A a \in Arts : Old(a) => Old(a)'
      BY <2>1, OldStands
    <3> QED BY <2>1, <3>1 DEF IInv, CopyKeeps, Stored
  <2> QED BY <2>2, <2>3, <2>4 DEF IInv
<1> QED BY <1>1, <1>2, <1>3, <1>4

LEMMA InitIInv == Init => IInv
<1> SUFFICES ASSUME Init PROVE IInv
  OBVIOUS
<1>1. now \in Times
  BY ExpiryAssumption DEF Init, Times
<1>2. TypeOK
  BY <1>1 DEF Init, TypeOK
<1> QED BY <1>2 DEF Init, IInv, DueTold, CopyKeeps, CleanKeeps

LEMMA NextIInv ==
  ASSUME IInv, [Next]_vars
  PROVE  IInv'
BY OpenStep, GetOverStep, RetrieveStep, CopyStep, RenameStep, CleanStep, OtherStep DEF Next

LEMMA Invariance == Spec => []IInv
<1>1. IInv /\ [Next]_vars => IInv'
  BY NextIInv
<1> QED BY <1>1, InitIInv, PTL DEF Spec

(***************************************************************************)
(* The database, the overview files, the expiry at work and the settings   *)
(* that any noffle.conf leaves keep their types (configfile.c:330-406,     *)
(* database.c:596-696): an entry always has a group, say.                  *)
(***************************************************************************)
THEOREM TypeCorrect == Spec => []TypeOK
<1>1. IInv => TypeOK
  BY DEF IInv
<1> QED BY <1>1, Invariance, PTL
-----------------------------------------------------------------------------
LEMMA FollowStep ==
  ASSUME IInv, [Next]_vars, NEW a \in Arts, NEW g \in Groups,
         Mode[g] = "thread", a \notin came[g], a \in came'[g],
         NEW r \in Range(Refs[a]), due[r] # Never, now - due[r] <= config.follow
  PROVE  a \in marked'
<1>1. ASSUME UNCHANGED came
      PROVE  FALSE
  BY <1>1
<1>2. GetOver(a, g)
  <2>1. PICK b \in Arts, h \in Groups : GetOver(b, h)
    BY <1>1 DEF Next, vars, Open, Retrieve, Copy, Clean, Expire, Rename, Killed, Tick
  <2>2. came' = [came EXCEPT ![h] = @ \cup {b}]
    BY <2>1 DEF GetOver
  <2>3. b = a /\ h = g
    BY <2>2 DEF IInv, TypeOK
  <2> QED BY <2>1, <2>3
<1>3. r \in Arts
  BY RefsType DEF Range
<1>4. /\ r \in Stored(db) /\ db[r].interesting
      /\ due[r] <= db[r].last
  BY <1>3 DEF IInv, DueTold
<1>5. now \in Int /\ due[r] \in Int /\ db[r].last \in Int
  BY <1>3, <1>4, EntryOf, ExpiryAssumption DEF IInv, TypeOK, Times, Entry, Never
<1>6. config.follow \in Int
  BY SettingsType DEF IInv, Settings
<1>7. now - db[r].last <= config.follow
  BY <1>4, <1>5, <1>6
<1>8. NeedsMark(a)
  BY <1>4, <1>7 DEF NeedsMark
<1> QED BY <1>2, <1>8 DEF GetOver, IInv, TypeOK

(***************************************************************************)
(* A follow-up that comes in a group of thread mode is marked if an        *)
(* article of its references has been opened, or one further down their    *)
(* thread, within thread-follow-time (client.c:628-677,                    *)
(* server.c:475-510), for threads of any shape and length.                 *)
(***************************************************************************)
THEOREM FollowUpsMarked == Spec => ThreadFollowed
<1> DEFINE A == \A a \in Arts, g \in Groups :
                   /\ Mode[g] = "thread" /\ a \notin came[g] /\ a \in came'[g]
                   /\ \E r \in Range(Refs[a]) :
                         due[r] # Never /\ now - due[r] <= config.follow
                   => a \in marked'
<1>1. IInv /\ [Next]_vars => [A]_vars
  BY FollowStep
<1> QED BY <1>1, Invariance, PTL DEF Spec, ThreadFollowed
-----------------------------------------------------------------------------
\* Only the rename takes entries away.
LEMMA StoredStays ==
  ASSUME IInv, Next, ~Rename
  PROVE  Stored(db) \subseteq Stored(db')
<1>0. TypeOK /\ now \in Nat
  BY ExpiryAssumption DEF IInv, TypeOK, Times
<1>1. ASSUME NEW a \in Arts, Open(a)
      PROVE  Stored(db) \subseteq Stored(db')
  <2> DEFINE touched == {a} \cup TouchReferences(a)
  <2>1. db' = [b \in Arts |-> IF b \in touched THEN Touched(db[b]) ELSE db[b]]
    BY <1>1, Zenon DEF Open
  <2> HIDE DEF touched
  <2>2. ASSUME NEW b \in Stored(db)
        PROVE  db'[b] # NoEntry
    <3>1. b \in Arts /\ db[b] # NoEntry /\ db[b] \in Entry
      BY <1>0, EntryOf DEF Stored
    <3>2. Touched(db[b]).last = now
      BY <1>0, <3>1, TouchedType DEF TypeOK
    <3>3. Touched(db[b]) # NoEntry
      BY <1>0, <3>2 DEF NoEntry
    <3> QED BY <2>1, <3>1, <3>3
  <2> QED BY <2>2 DEF Stored
<1>2. ASSUME NEW a \in Arts, NEW g \in Groups, GetOver(a, g)
      PROVE  Stored(db) \subseteq Stored(db')
  <2>1. PICK e \in PrepareEntry(a, g) : db' = [db EXCEPT ![a] = e]
    BY <1>2, Zenon DEF GetOver
  <2>2. e.last \in Nat
    BY <1>0, PrepareType, ExpiryAssumption DEF Entry, Times
  <2>3. e # NoEntry
    BY <2>2 DEF NoEntry
  <2> QED BY <1>0, <2>1, <2>3 DEF Stored, TypeOK
<1>3. ASSUME NEW a \in Arts, Retrieve(a)
      PROVE  Stored(db) \subseteq Stored(db')
  <2> DEFINE e == StoreArt(db[a])
  <2>1. db' = db \/ (a \in Stored(db) /\ db' = [db EXCEPT ![a] = e])
    BY <1>3 DEF Retrieve
  <2>2. ASSUME a \in Stored(db)
        PROVE  e # NoEntry
    <3>1. db[a] \in Entry
      BY <1>0, <2>2, EntryOf
    <3>2. e.last = now
      BY <1>0, <3>1, StoreType DEF TypeOK
    <3> HIDE DEF e
    <3> QED BY <1>0, <3>2 DEF NoEntry
  <2> HIDE DEF e
  <2> QED BY <1>0, <2>1, <2>2 DEF Stored, TypeOK
<1>4. CASE UNCHANGED db
  BY <1>4 DEF Stored
<1> QED BY <1>1, <1>2, <1>3, <1>4 DEF Next, Copy, Clean, Expire, Killed, Tick

\* What is taken away has outlived its period.
LEMMA OldGoes ==
  ASSUME IInv, Rename, NEW a \in Stored(db) \ Stored(db')
  PROVE  IF Lined(a) = {} THEN config.expire # 0 /\ now - db[a].last > config.expire
         ELSE \A g \in Lined(a) : Period(g) # 0 /\ now - db[a].last > Period(g)
<1>1. /\ tool.at = "copy" /\ tool.left = {} /\ a \in Arts
      /\ db' = [b \in Arts |-> IF b \in tool.kept THEN db[b] ELSE NoEntry]
  BY DEF Rename, Stored
<1>2. a \notin tool.kept
  BY <1>1 DEF Stored
<1>3. Old(a) /\ tool.time <= now
  BY <1>1, <1>2 DEF IInv, CopyKeeps
<1>4. db[a] \in Entry /\ config \in Settings
  BY <1>1, EntryOf, SettingsType DEF IInv
<1>5. db[a].xref \in Seq(Groups) /\ db[a].last \in Nat /\ now \in Nat /\ tool.time \in Nat
  BY <1>1, <1>4, ExpiryAssumption DEF Entry, IInv, TypeOK, Times
<1> DEFINE days == CalcExpireDays(a)
<1>6. /\ days \in Nat /\ days > 0
      /\ Lined(a) = {} => days = config.expire
      /\ \A g \in Lined(a) : Period(g) # 0 /\ Period(g) <= days
  BY <1>1, <1>3, <1>4, <1>5, PeriodOf DEF Old
<1>7. now - db[a].last > days
  <2> HIDE DEF days
  <2> QED BY <1>3, <1>5, <1>6 DEF Old, days
<1>8. \A g \in Lined(a) : Period(g) \in Int
  <2>1. config.patterns \in Seq(Patterns)
    BY <1>4 DEF Settings
  <2>2. \A k \in DOMAIN config.patterns : config.patterns[k] \in Patterns /\ k \in Nat
    BY <2>1
  <2>3. \A g \in Lined(a) : Min(Matches(g)) \in DOMAIN config.patterns
    BY <2>2, MinOfNats DEF Matches, Lined
  <2> QED BY <2>2, <2>3 DEF Period, Patterns
<1> HIDE DEF days
<1> QED BY <1>5, <1>6, <1>7, <1>8

(***************************************************************************)
(* Nothing leaves the database before the period of each of its groups     *)
(* that a line of noffle.conf matches has passed, for any lines and any    *)
(* groups, also when an expiry is killed (database.c:584-696).             *)
(***************************************************************************)
THEOREM NothingTooEarly == Spec => KeptLongEnough
<1> DEFINE A == \A a \in Stored(db) \ Stored(db') :
                   LET lined == {g \in Range(db[a].xref) : Matches(g) # {}}
                       past(days) == days # 0 /\ now - db[a].last > days
                   IN  IF lined = {} THEN past(config.expire)
                       ELSE \A g \in lined : past(Period(g))
<1>1. ASSUME IInv, [Next]_vars
      PROVE  A \/ UNCHANGED vars
  <2>1. CASE Rename
    BY <1>1, <2>1, OldGoes DEF Lined
  <2>2. CASE Next /\ ~Rename
    <3>1. Stored(db) \ Stored(db') = {}
      BY <1>1, <2>2, StoredStays
    <3> QED BY <3>1
  <2> QED BY <1>1, <2>1, <2>2
<1>2. IInv /\ [Next]_vars => [A]_vars
  <2> HIDE DEF A
  <2> QED BY <1>1
<1> QED BY <1>2, Invariance, PTL DEF Spec, KeptLongEnough

(***************************************************************************)
(* An expiry that comes to its end leaves no overview without an article,  *)
(* whatever expiries were killed before (noffle.c:189-250).                *)
(***************************************************************************)
THEOREM NoOverviewLeft == Spec => CleanedUp
<1> DEFINE A == (\E g \in Groups : Clean(g)) /\ tool'.at = "idle"
                   => \A g \in Groups : over'[g] \subseteq Stored(db')
<1>1. ASSUME IInv, NEW g \in Groups, Clean(g), tool'.at = "idle", NEW h \in Groups
      PROVE  over'[h] \subseteq Stored(db')
  <2>1. /\ tool.at = "clean" /\ over' = [over EXCEPT ![g] = @ \cap Stored(db)] /\ db' = db
        /\ tool' = IF tool.left = {g} THEN [at |-> "idle"] ELSE [tool EXCEPT !.left = @ \ {g}]
    BY <1>1 DEF Clean
  <2>2. tool \in [at : {"clean"}, time : Times, left : SUBSET Groups, kept : {{}}]
    BY <1>1, <2>1 DEF IInv, TypeOK
  <2>3. tool.left = {g}
    BY <1>1, <2>1, <2>2
  <2> QED BY <1>1, <2>1, <2>3 DEF IInv, CleanKeeps, TypeOK, Stored
<1>2. IInv /\ [Next]_vars => [A]_vars
  BY <1>1
<1> QED BY <1>2, Invariance, PTL DEF Spec, CleanedUp
=============================================================================
