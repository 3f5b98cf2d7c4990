---------------------------- MODULE LeaseProofs -----------------------------
(***************************************************************************)
(* For every lifetime, floor, window and skew, however slow calls and late *)
(* timers are, and any number of faults: the grant is kept while it lasts  *)
(* for the calls it takes, the loop does not spin, an outage is bounded.   *)
(***************************************************************************)
EXTENDS Lease, FiniteSets, NaturalsInduction, WellFoundedInduction, TLAPS

\* How far time may have got in a phase: what Tick lets pass, after rounding.
Timely ==
    IF phase = "sleep"
    THEN 2 * (now - since) <= TwiceDelay(known, since + skew) + 2 * latest + 1
    ELSE now <= since + slowest

\* The agent's idea of the grant never outlives the grant itself.
KnownIsGranted ==
    /\ known = {} <=> expiry = {}
    /\ \A k \in known : k <= since + Ttl /\ \A t \in expiry : k <= t
    /\ phase = "granted" => \A t \in expiry : t >= since + Ttl
    /\ Tolerable => phase # "refused"

\* Enough of it is left for as many calls as the whole grant lasts for, less
\* those that failed already.
Needs == Needed(Lateness, Behind)
EnoughIsLeft ==
    Tolerable =>
        \A s \in fails..MaxFaults, k \in known :
            Ttl >= slowest + Needs[s + 1] =>
                IF phase = "sleep" THEN k - since >= Needs[s + 1 - fails]
                ELSE k - since >= Needs[s - fails] + slowest

\* When the sleep or the call began, the outage was within its rounds.
OutageSoFar ==
    Tolerable /\ ~live =>
        CASE phase = "sleep" -> 2 * (since - lostAt) <= fails * TwiceRound + 2 * slowest
          [] phase = "granted" -> lostAt >= since
          [] OTHER -> 2 * (since - lostAt) <= (fails + 1) * TwiceRound

\* The inductive invariant: none of the three properties speaks of the moment
\* the phase began, and all of them follow from what held then.
IInv == /\ TypeOK
        /\ Timely
        /\ KnownIsGranted
        /\ EnoughIsLeft
        /\ OutageSoFar
        /\ calls * Floor <= since

\* The type of a time that may be absent.
LEMMA KnownCases ==
    ASSUME TypeOK
    PROVE  /\ now \in Nat /\ since \in Nat /\ skew \in Int /\ lostAt \in Nat
           /\ slowest \in Nat /\ latest \in Nat
           /\ fails \in Nat /\ calls \in Nat /\ since <= now /\ lostAt <= now
           /\ known = {} \/ \E k \in Int : known = {k}
           /\ expiry = {} \/ \E t \in Int : expiry = {t} /\ t <= now + Ttl
BY DurationAssumption, BoundAssumption DEF TypeOK, Max2

\* The delay of a grant that expires and of one that does not.
LEMMA DelayOf ==
    ASSUME NEW at \in Int
    PROVE  /\ TwiceDelay({}, at) = 2 * NoExpiry
           /\ \A k \in Int : TwiceDelay({k}, at) = Max2(k - at, 2 * Floor)
BY DEF TwiceDelay

\* A sleep that begins, on whatever grant, is not overdue.
LEMMA DelayIsPositive ==
    ASSUME TypeOK, NEW at \in Int
    PROVE  /\ TwiceDelay(known, at) \in Nat
           /\ TwiceDelay(expiry, at) \in Nat
<1>1. ASSUME NEW grant, grant = {} \/ \E k \in Int : grant = {k}
      PROVE  TwiceDelay(grant, at) \in Nat
  <2>1. CASE grant = {}
    BY <2>1, DelayOf, DurationAssumption
  <2>2. CASE \E k \in Int : grant = {k}
    BY <2>2, DelayOf, DurationAssumption DEF Max2
  <2> QED
    BY <1>1, <2>1, <2>2
<1> QED
  BY <1>1, KnownCases

\* The delay is at least Floor and at most what TwiceRound reckons with.
LEMMA DelayBounds ==
    ASSUME TypeOK, KnownIsGranted
    PROVE  /\ TwiceDelay(known, since + skew) \in Int
           /\ TwiceDelay(known, since + skew) >= 2 * Floor
           /\ TwiceDelay(known, since + skew) + 2 * Lateness + 1 <= TwiceRound
           /\ TwiceRound \in Nat
<1>1. CASE known = {}
  BY <1>1, KnownCases, DelayOf, DurationAssumption DEF KnownIsGranted, TwiceRound, Lateness
<1>2. CASE known # {}
  <2>1. PICK k \in Int : known = {k}
    BY <1>2, KnownCases
  <2>2. TwiceDelay(known, since + skew) = Max2(k - (since + skew), 2 * Floor)
    BY <2>1, KnownCases, DelayOf
  <2>3. k <= since + Ttl /\ expiry # {}
    BY <2>1 DEF KnownIsGranted
  <2> QED
    BY <2>2, <2>3, KnownCases, DurationAssumption DEF TwiceRound, Max2, Lateness
<1> QED
  BY <1>1, <1>2

\* A set of naturals that is not empty has a least element.
LEMMA LeastElement ==
    ASSUME NEW S, S \subseteq Nat, S # {}
    PROVE  \E n \in S : \A m \in S : n <= m
<1> DEFINE R == OpToRel(<, Nat)
<1>1. IsWellFoundedOn(R, Nat)
  BY NatLessThanWellFounded
<1>2. \A m, n \in Nat : m < n => <<m, n>> \in R
  BY DEF OpToRel
<1> HIDE DEF R
<1>3. PICK n \in S : \A m \in S : <<m, n>> \notin R
  BY <1>1, WFMin
<1>4. \A m \in S : ~(m < n)
  BY <1>2, <1>3, Zenon
<1> QED
  BY <1>4

\* One more call, and the first n of them.
OneMore(x, lateness, behind) ==
    Max2(2 * (x + lateness) + behind, x + lateness + Floor)
NeededUpTo(n, f, lateness, behind) ==
    /\ f \in [0..n -> Nat]
    /\ f[0] = 1
    /\ \A i \in 1..n : f[i] = OneMore(f[i - 1], lateness, behind)

\* There is such a function for every n: the least n without one would follow
\* one with.
LEMMA NeededExists ==
    ASSUME NEW lateness \in Nat, NEW behind \in Nat, NEW n \in Nat
    PROVE  \E f : NeededUpTo(n, f, lateness, behind)
<1> DEFINE Bad == {i \in Nat : ~\E f : NeededUpTo(i, f, lateness, behind)}
<1>1. CASE Bad = {}
  BY <1>1
<1>2. CASE Bad # {}
  <2>1. PICK b \in Bad : \A i \in Bad : b <= i
    BY <1>2, LeastElement
  <2>2. b \in Nat /\ ~\E f : NeededUpTo(b, f, lateness, behind)
    BY <2>1
  <2>3. CASE b = 0
    <3>1. NeededUpTo(0, [i \in 0..0 |-> 1], lateness, behind)
      BY DEF NeededUpTo
    <3> QED
      BY <2>2, <2>3, <3>1
  <2>4. CASE b # 0
    <3>1. b - 1 \in Nat /\ b - 1 \notin Bad
      BY <2>1, <2>2, <2>4
    <3>2. PICK f : NeededUpTo(b - 1, f, lateness, behind)
      BY <3>1
    <3> DEFINE g == [i \in 0..b |-> IF i = b THEN OneMore(f[b - 1], lateness, behind)
                                    ELSE f[i]]
    <3>3. f \in [0..b - 1 -> Nat] /\ f[0] = 1
      BY <3>2 DEF NeededUpTo
    <3>4. OneMore(f[b - 1], lateness, behind) \in Nat
      BY <3>1, <3>3, DurationAssumption DEF OneMore, Max2
    <3>5. g \in [0..b -> Nat] /\ g[0] = 1
      BY <3>1, <3>3, <3>4
    <3>6. ASSUME NEW i \in 1..b PROVE g[i] = OneMore(g[i - 1], lateness, behind)
      <4>1. CASE i = b
        BY <3>1, <4>1
      <4>2. CASE i # b
        <5>1. i \in 1..b - 1 /\ i - 1 \in 0..b - 1 /\ i \in 0..b /\ i - 1 # b
          BY <2>2, <4>2
        <5>2. f[i] = OneMore(f[i - 1], lateness, behind)
          BY <3>2, <5>1 DEF NeededUpTo
        <5>3. g[i] = f[i] /\ g[i - 1] = f[i - 1]
          BY <4>2, <5>1
        <5> QED
          BY <5>2, <5>3
      <4> QED
        BY <4>1, <4>2
    <3> HIDE DEF g
    <3>7. NeededUpTo(b, g, lateness, behind)
      BY <3>5, <3>6 DEF NeededUpTo
    <3> QED
      BY <2>2, <3>7
  <2> QED
    BY <2>3, <2>4
<1> QED
  BY <1>1, <1>2

\* So the recursion of Needed defines what it says.
LEMMA NeededIs ==
    ASSUME NEW lateness \in Nat, NEW behind \in Nat
    PROVE  NeededUpTo(MaxFaults + 1, Needed(lateness, behind), lateness, behind)
<1> DEFINE N == MaxFaults + 1
           Rec(f) == f = [n \in 0..N |-> IF n = 0 THEN 1
                                         ELSE Max2(2 * (f[n - 1] + lateness) + behind,
                                                   f[n - 1] + lateness + Floor)]
<1>0. N \in Nat
  BY BoundAssumption
<1>1. PICK f : NeededUpTo(N, f, lateness, behind)
  BY <1>0, NeededExists
<1>2. Rec(f)
  <2>1. f \in [0..N -> Nat] /\ f[0] = 1
    BY <1>1 DEF NeededUpTo
  <2>2. \A n \in 0..N : n # 0 => f[n] = Max2(2 * (f[n - 1] + lateness) + behind,
                                             f[n - 1] + lateness + Floor)
    BY <1>0, <1>1 DEF NeededUpTo, OneMore
  <2> QED
    BY <2>1, <2>2
<1>3. Needed(lateness, behind) = CHOOSE g : Rec(g)
  BY DEF Needed
<1>4. Rec(Needed(lateness, behind))
  <2> HIDE DEF Rec
  <2> QED
    BY <1>2, <1>3
<1> DEFINE g == Needed(lateness, behind)
<1> HIDE DEF g
<1>5. /\ \A n \in 0..N : g[n] = IF n = 0 THEN 1
                                ELSE Max2(2 * (g[n - 1] + lateness) + behind,
                                          g[n - 1] + lateness + Floor)
      /\ g = [n \in 0..N |-> g[n]]
  BY <1>4 DEF g
<1>6. g[0] = 1 /\ \A n \in 1..N : g[n] = OneMore(g[n - 1], lateness, behind)
  <2>1. g[0] = 1
    <3>1. 0 \in 0..N
      BY <1>0
    <3> HIDE DEF N
    <3> QED
      BY <1>5, <3>1, Zenon
  <2>2. ASSUME NEW n \in 1..N PROVE g[n] = OneMore(g[n - 1], lateness, behind)
    <3>1. n \in 0..N /\ n # 0
      BY <1>0, <2>2
    <3> QED
      BY <1>5, <3>1 DEF OneMore
  <2> QED
    BY <2>1, <2>2
<1>7. ASSUME NEW n \in 0..N PROVE g[n] = f[n]
  <2> DEFINE Bad == {i \in 0..N : g[i] # f[i]}
  <2>1. CASE Bad = {}
    BY <2>1
  <2>2. CASE Bad # {}
    <3>1. PICK b \in Bad : \A i \in Bad : b <= i
      <4>1. Bad \subseteq Nat
        OBVIOUS
      <4> HIDE DEF Bad
      <4> QED
        BY <2>2, <4>1, LeastElement
    <3>2. f[0] = 1 /\ \A i \in 1..N : f[i] = OneMore(f[i - 1], lateness, behind)
      BY <1>1 DEF NeededUpTo
    <3>3. b \in 1..N /\ b - 1 \in 0..N /\ b - 1 \notin Bad
      BY <1>0, <1>6, <3>1, <3>2
    <3>4. g[b - 1] = f[b - 1]
      BY <3>3
    <3> QED
      BY <1>6, <3>1, <3>2, <3>3, <3>4
  <2> QED
    BY <2>1, <2>2
<1>8. g \in [0..N -> Nat]
  <2>1. f \in [0..N -> Nat]
    BY <1>1 DEF NeededUpTo
  <2> QED
    BY <1>5, <1>7, <2>1
<1> QED
  BY <1>6, <1>8 DEF NeededUpTo, g

\* What it amounts to in the terms of the loop.
LEMMA NeedsAre ==
    ASSUME TypeOK
    PROVE  /\ Needs[0] = 1
           /\ \A n \in 0..MaxFaults + 1 : Needs[n] \in Nat /\ Needs[n] > 0
           /\ \A n \in 0..MaxFaults :
                  /\ Needs[n + 1] >= 2 * (Needs[n] + slowest + latest) + Behind
                  /\ Needs[n + 1] >= Needs[n] + slowest + latest + Floor
           /\ Behind \in Nat /\ Behind >= -skew
<1>1. Behind \in Nat /\ Behind >= -skew
  BY KnownCases DEF Behind, Max2
<1>2. Lateness \in Nat /\ Lateness = slowest + latest
  BY KnownCases DEF Lateness
<1>3. NeededUpTo(MaxFaults + 1, Needs, Lateness, Behind)
  BY <1>1, <1>2, NeededIs DEF Needs
<1>4. /\ Needs \in [0..MaxFaults + 1 -> Nat] /\ Needs[0] = 1
      /\ \A i \in 1..MaxFaults + 1 : Needs[i] = OneMore(Needs[i - 1], Lateness, Behind)
  BY <1>3 DEF NeededUpTo
<1>5. ASSUME NEW n \in 0..MaxFaults
      PROVE  /\ Needs[n + 1] >= 2 * (Needs[n] + slowest + latest) + Behind
             /\ Needs[n + 1] >= Needs[n] + slowest + latest + Floor
  <2>1. n + 1 \in 1..MaxFaults + 1 /\ (n + 1) - 1 = n /\ n \in 0..MaxFaults + 1
    BY BoundAssumption
  <2>2. Needs[n + 1] = OneMore(Needs[n], Lateness, Behind) /\ Needs[n] \in Nat
    BY <1>4, <2>1
  <2> QED
    BY <1>1, <1>2, <2>2, KnownCases, DurationAssumption DEF OneMore, Max2
<1>6. ASSUME NEW n \in 0..MaxFaults + 1 PROVE Needs[n] \in Nat /\ Needs[n] > 0
  <2>1. CASE n = 0
    BY <1>4, <2>1
  <2>2. CASE n # 0
    <3>1. n - 1 \in 0..MaxFaults /\ (n - 1) + 1 = n /\ n - 1 \in 0..MaxFaults + 1
      BY <2>2, BoundAssumption
    <3>2. Needs[n] >= Needs[n - 1] + slowest + latest + Floor
      BY <1>5, <3>1
    <3>3. Needs[n - 1] \in Nat /\ Needs[n] \in Nat
      BY <1>4, <3>1
    <3> QED
      BY <3>2, <3>3, KnownCases, DurationAssumption
  <2> QED
    BY <2>1, <2>2
<1> QED
  BY <1>1, <1>4, <1>5, <1>6

\* A sleep leaves what the next call needs.
LEMMA SleepLeavesEnough ==
    ASSUME TypeOK, Timely, KnownIsGranted, EnoughIsLeft,
           Tolerable, phase = "sleep", NEW k \in known, NEW s \in fails..MaxFaults,
           Ttl >= slowest + Needs[s + 1]
    PROVE  k - now >= Needs[s - fails] + slowest
<1>1. k \in Int /\ known = {k}
  BY KnownCases
<1> DEFINE n == s - fails
<1>4. n \in 0..MaxFaults /\ n + 1 = s + 1 - fails /\ n \in 0..MaxFaults + 1
  BY KnownCases, BoundAssumption
<1>2. /\ 2 * (now - since) <= TwiceDelay(known, since + skew) + 2 * latest + 1
      /\ k - since >= Needs[n + 1]
  BY <1>4 DEF Timely, EnoughIsLeft
<1>3. TwiceDelay(known, since + skew) = Max2(k - (since + skew), 2 * Floor)
  BY <1>1, KnownCases, DelayOf
<1>5. /\ Needs[n] \in Nat /\ Needs[n + 1] \in Nat
      /\ Needs[n + 1] >= 2 * (Needs[n] + slowest + latest) + Behind
      /\ Needs[n + 1] >= Needs[n] + slowest + latest + Floor
      /\ Behind \in Nat /\ Behind >= -skew
  <2>1. n + 1 \in 0..MaxFaults + 1
    BY <1>4, BoundAssumption
  <2> HIDE DEF n
  <2> QED
    BY <1>4, <2>1, NeedsAre
<1> HIDE DEF n
<1>8. k - now >= Needs[n] + slowest
  BY <1>1, <1>2, <1>3, <1>5, KnownCases, DurationAssumption DEF Max2
<1> QED
  BY <1>8 DEF n

\* The first grant, just given.
LEMMA InitIInv == Init => IInv
<1> SUFFICES ASSUME Init PROVE IInv
  OBVIOUS
<1>1. TypeOK
  BY DurationAssumption, BoundAssumption DEF Init, TypeOK, Max2
<1>3. KnownIsGranted
  BY <1>1, KnownCases, DurationAssumption DEF Init, KnownIsGranted
<1>2. Timely
  BY <1>1, <1>3, DelayBounds, KnownCases, DurationAssumption DEF Init, Timely
<1>4. EnoughIsLeft
  <2> SUFFICES ASSUME NEW s \in fails..MaxFaults, NEW k \in known,
                      Ttl >= slowest + Needs[s + 1]
               PROVE  k - since >= Needs[s + 1 - fails]
    BY DEF Init, EnoughIsLeft
  <2>1. fails = 0 /\ s \in Nat /\ s + 1 - fails = s + 1 /\ s + 1 \in 0..MaxFaults + 1
    BY BoundAssumption DEF Init
  <2>2. PICK given \in 0..now : k = given + Ttl
    BY DEF Init
  <2>3. now \in 0..slowest /\ since = now
    BY DEF Init
  <2>4. Needs[s + 1] \in Nat
    BY <1>1, <2>1, NeedsAre
  <2> QED
    BY <1>1, <2>1, <2>2, <2>3, <2>4, KnownCases, DurationAssumption
<1>5. OutageSoFar
  BY DEF Init, OutageSoFar
<1>6. calls * Floor <= since
  BY DurationAssumption DEF Init
<1> QED
  BY <1>1, <1>2, <1>3, <1>4, <1>5, <1>6 DEF IInv

\* While the policy and the clocks' difference stay, so does a round.
LEMMA RoundStays ==
    ASSUME UNCHANGED <<skew, slowest, latest>>, expiry' = {} <=> expiry = {}
    PROVE  TwiceRound' = TwiceRound
BY DEF TwiceRound, Lateness

\* And so does what a grant has to last for.
LEMMA NeedsStay ==
    ASSUME UNCHANGED <<skew, slowest, latest>>
    PROVE  Needs' = Needs /\ Tolerable' = Tolerable
BY DEF Needs, Lateness, Behind, Tolerable

\* Time moves only within the timers and the latencies.
LEMMA TickKeepsIInv == IInv /\ Tick => IInv'
<1> SUFFICES ASSUME IInv, Tick PROVE IInv'
  OBVIOUS
<1> USE DEF IInv
<1>0. /\ now' = now + 1 /\ now < MaxTime
      /\ UNCHANGED <<skew, slowest, latest, phase, since, known, live, expiry, lostAt,
                    fails, calls, faults>>
  BY DEF Tick, server
<1>1. TypeOK'
  <2>1. now' \in 0..Max2(slowest, MaxTime)'
    BY <1>0, KnownCases, BoundAssumption DEF Max2
  <2>2. since' \in 0..now' /\ lostAt' \in 0..now'
    BY <1>0, KnownCases
  <2>3. 0..now + Ttl \subseteq 0..now' + Ttl
    BY <1>0, KnownCases, DurationAssumption
  <2> QED
    BY <1>0, <2>1, <2>2, <2>3 DEF TypeOK
<1>2. Timely'
  BY KnownCases, DelayBounds, DurationAssumption DEF Tick, Timely, Asleep, server, TypeOK
<1>3. KnownIsGranted'
  BY DEF Tick, KnownIsGranted, Tolerable, server
<1>4. EnoughIsLeft'
  BY <1>0, NeedsStay DEF EnoughIsLeft
<1>5. OutageSoFar'
  BY RoundStays DEF Tick, OutageSoFar, Tolerable, server
<1>6. (calls * Floor <= since)'
  BY DEF Tick
<1> QED
  BY <1>1, <1>2, <1>3, <1>4, <1>5, <1>6

\* A timer fires: a call has as much left as its margin says.
LEMMA BeginKeepsIInv == IInv /\ RefreshBegins => IInv'
<1> SUFFICES ASSUME IInv, RefreshBegins PROVE IInv'
  OBVIOUS
<1> USE DEF IInv
<1>0. /\ phase = "sleep" /\ phase' = "sent" /\ since' = now /\ calls' = calls + 1
      /\ skew' = skew /\ slowest' = slowest /\ latest' = latest
      /\ now' = now /\ known' = known /\ live' = live
      /\ expiry' = expiry /\ lostAt' = lostAt /\ fails' = fails
      /\ faults' = faults
  BY DEF RefreshBegins, clocks, server
<1>a. 2 * (now - since) >= TwiceDelay(known, since + skew)
  BY KnownCases, DelayBounds DEF RefreshBegins, Asleep
<1>b. 2 * (now - since) <= TwiceDelay(known, since + skew) + 2 * latest + 1
  BY <1>0 DEF Timely
<1>1. TypeOK'
  BY <1>0, KnownCases DEF TypeOK
<1>2. Timely'
  BY <1>0, KnownCases, DurationAssumption DEF Timely
<1>3. KnownIsGranted'
  BY <1>0, KnownCases, DurationAssumption DEF KnownIsGranted, Tolerable
<1>4. EnoughIsLeft'
  BY <1>0, NeedsStay, SleepLeavesEnough DEF EnoughIsLeft
<1>5. OutageSoFar'
  <2> SUFFICES ASSUME Tolerable, ~live
               PROVE  2 * (now - lostAt) <= (fails + 1) * TwiceRound
    BY <1>0, RoundStays DEF OutageSoFar, Tolerable
  <2>1. 2 * (since - lostAt) <= fails * TwiceRound + 2 * slowest
    BY <1>0 DEF OutageSoFar
  <2>2. 2 * (now - since) + 2 * slowest <= TwiceRound
    BY <1>b, KnownCases, DelayBounds, DurationAssumption DEF Lateness
  <2>3. (fails + 1) * TwiceRound = fails * TwiceRound + TwiceRound
    BY KnownCases, DelayBounds
  <2>4. fails * TwiceRound \in Int
    BY KnownCases, DelayBounds
  <2> QED
    BY <2>1, <2>2, <2>3, <2>4, KnownCases, DelayBounds, DurationAssumption
<1>6. (calls * Floor <= since)'
  <2>1. now - since >= Floor
    BY <1>a, KnownCases, DelayBounds, DurationAssumption
  <2>2. (calls + 1) * Floor = calls * Floor + Floor /\ calls * Floor \in Int
    BY KnownCases, DurationAssumption
  <2> QED
    BY <1>0, <2>1, <2>2, KnownCases, DurationAssumption
<1> QED
  BY <1>1, <1>2, <1>3, <1>4, <1>5, <1>6

\* The server grants a lifetime from its now, if the agent answers the challenge.
LEMMA SubscribeKeepsIInv == IInv /\ Subscribes => IInv'
<1> SUFFICES ASSUME IInv, Subscribes PROVE IInv'
  OBVIOUS
<1> USE DEF IInv
<1>0. /\ phase = "sent" /\ since' = since /\ calls' = calls
      /\ skew' = skew /\ slowest' = slowest /\ latest' = latest
      /\ now' = now /\ known' = known
      /\ lostAt' = lostAt /\ fails' = fails /\ faults' = faults
  BY DEF Subscribes, clocks
<1>a. \/ phase' = "granted" /\ live' = TRUE /\ expiry' = {now + Ttl : t \in expiry}
      \/ ~Tolerable /\ phase' = "refused" /\ live' = live /\ expiry' = expiry
  <2>1. PICK ts \in since..now :
           IF TimestampFresh(ts, now + skew)
           THEN phase' = "granted" /\ live' = TRUE /\ expiry' = {now + Ttl : t \in expiry}
           ELSE phase' = "refused" /\ UNCHANGED <<live, expiry>>
    BY DEF Subscribes
  <2>2. Tolerable => TimestampFresh(ts, now + skew)
    BY <1>0, KnownCases, DurationAssumption DEF Tolerable, TimestampFresh, Timely
  <2> QED
    BY <2>1, <2>2
<1>b. expiry' = {} <=> expiry = {}
  BY <1>a
<1>1. TypeOK'
  <2>1. expiry' \in {{}} \cup {{t} : t \in 0..now' + Ttl}
    <3>1. {now + Ttl : t \in expiry} = {} \/ {now + Ttl : t \in expiry} = {now + Ttl}
      BY KnownCases
    <3>2. now + Ttl \in 0..now + Ttl
      BY KnownCases, DurationAssumption
    <3> QED
      BY <1>0, <1>a, <3>1, <3>2 DEF TypeOK
  <2>2. live' \in BOOLEAN /\ phase' \in {"sleep", "sent", "granted", "refused"}
    BY <1>a DEF TypeOK
  <2> QED
    BY <1>0, <2>1, <2>2 DEF TypeOK
<1>2. Timely'
  BY <1>0, <1>a DEF Timely
<1>3. KnownIsGranted'
  BY <1>0, <1>a, <1>b, KnownCases, DurationAssumption DEF KnownIsGranted, Tolerable
<1>4. EnoughIsLeft'
  BY <1>0, <1>a, NeedsStay DEF EnoughIsLeft
<1>5. OutageSoFar'
  BY <1>0, <1>a, <1>b DEF OutageSoFar, Tolerable
<1>6. (calls * Floor <= since)'
  BY <1>0
<1> QED
  BY <1>1, <1>2, <1>3, <1>4, <1>5, <1>6

\* The agent learns of the grant, later than it was given.
LEMMA ReturnKeepsIInv == IInv /\ RefreshReturns => IInv'
<1> SUFFICES ASSUME IInv, RefreshReturns PROVE IInv'
  OBVIOUS
<1> USE DEF IInv
<1>0. /\ phase = "granted" /\ phase' = "sleep" /\ since' = now /\ calls' = calls
      /\ skew' = skew /\ slowest' = slowest /\ latest' = latest
      /\ now' = now /\ known' = expiry /\ live' = live
      /\ expiry' = expiry /\ lostAt' = lostAt /\ fails' = 0
      /\ faults' = faults
  BY DEF RefreshReturns, clocks, server
<1>1. TypeOK'
  BY <1>0, KnownCases DEF TypeOK
<1>3. KnownIsGranted'
  BY <1>0, KnownCases, DurationAssumption DEF KnownIsGranted, Tolerable
<1>2. Timely'
  <2>1. TwiceDelay(known, since + skew)' = TwiceDelay(expiry, now + skew)
    BY <1>0 DEF TwiceDelay
  <2> QED
    BY <1>0, <2>1, DelayIsPositive, KnownCases, DurationAssumption DEF Timely
<1>4. EnoughIsLeft'
  <2> SUFFICES ASSUME NEW s \in 0..MaxFaults, NEW k \in expiry,
                      Ttl >= slowest + Needs[s + 1]
               PROVE  k - now >= Needs[s + 1 - 0]
    BY <1>0, NeedsStay DEF EnoughIsLeft
  <2>1. k \in Int /\ k >= since + Ttl
    BY <1>0, KnownCases DEF KnownIsGranted
  <2>2. now <= since + slowest
    BY <1>0 DEF Timely
  <2>3. s + 1 \in 0..MaxFaults + 1 /\ s + 1 - 0 = s + 1
    BY BoundAssumption
  <2>4. Needs[s + 1] \in Nat
    BY <2>3, NeedsAre
  <2> QED
    BY <2>1, <2>2, <2>3, <2>4, KnownCases, DurationAssumption
<1>5. OutageSoFar'
  <2> SUFFICES ASSUME Tolerable, ~live
               PROVE  2 * (now - lostAt) <= 0 * TwiceRound + 2 * slowest
    BY <1>0, RoundStays DEF OutageSoFar, Tolerable
  <2>1. lostAt >= since /\ now <= since + slowest
    BY <1>0 DEF OutageSoFar, Timely
  <2>2. 0 * TwiceRound = 0
    BY DelayBounds
  <2> QED
    BY <2>1, <2>2, KnownCases, DurationAssumption
<1>6. (calls * Floor <= since)'
  BY <1>0, KnownCases, DurationAssumption
<1> QED
  BY <1>1, <1>2, <1>3, <1>4, <1>5, <1>6

\* The challenge failed: the next call comes after the floor.
LEMMA RefusalKeepsIInv == IInv /\ RefreshRefused => IInv'
<1> SUFFICES ASSUME IInv, RefreshRefused PROVE IInv'
  OBVIOUS
<1> USE DEF IInv
<1>0. /\ phase' = "sleep" /\ since' = now /\ calls' = calls
      /\ skew' = skew /\ slowest' = slowest /\ latest' = latest
      /\ now' = now /\ known' = known /\ live' = live
      /\ expiry' = expiry /\ lostAt' = lostAt /\ fails' = fails
      /\ faults' = faults
  BY DEF RefreshRefused, clocks, server
<1>a. ~Tolerable /\ ~Tolerable'
  BY <1>0 DEF RefreshRefused, KnownIsGranted, Tolerable
<1>1. TypeOK'
  BY <1>0, KnownCases DEF TypeOK
<1>3. KnownIsGranted'
  BY <1>0, KnownCases, DurationAssumption DEF KnownIsGranted
<1>2. Timely'
  <2>1. TwiceDelay(known, since + skew)' = TwiceDelay(known, now + skew)
    BY <1>0 DEF TwiceDelay
  <2> QED
    BY <1>0, <2>1, DelayIsPositive, KnownCases, DurationAssumption DEF Timely
<1>4. EnoughIsLeft'
  BY <1>a DEF EnoughIsLeft
<1>5. OutageSoFar'
  BY <1>a DEF OutageSoFar
<1>6. (calls * Floor <= since)'
  BY <1>0, KnownCases, DurationAssumption
<1> QED
  BY <1>1, <1>2, <1>3, <1>4, <1>5, <1>6

\* A failed call spends one margin.
LEMMA FailureKeepsIInv == IInv /\ RefreshFails => IInv'
<1> SUFFICES ASSUME IInv, RefreshFails PROVE IInv'
  OBVIOUS
<1> USE DEF IInv
<1>0. /\ phase \in {"sent", "granted"} /\ phase' = "sleep" /\ since' = now
      /\ calls' = calls /\ skew' = skew /\ slowest' = slowest /\ latest' = latest
      /\ now' = now /\ known' = known
      /\ live' = live /\ expiry' = expiry /\ lostAt' = lostAt
      /\ fails' = fails + 1
      /\ faults < MaxFaults /\ faults' = faults + 1
  BY DEF RefreshFails, clocks, server
<1>a. now <= since + slowest
  BY <1>0 DEF Timely
<1>1. TypeOK'
  BY <1>0, KnownCases, BoundAssumption DEF TypeOK
<1>3. KnownIsGranted'
  BY <1>0, KnownCases, DurationAssumption DEF KnownIsGranted, Tolerable
<1>2. Timely'
  <2>1. TwiceDelay(known, since + skew)' = TwiceDelay(known, now + skew)
    BY <1>0 DEF TwiceDelay
  <2> QED
    BY <1>0, <2>1, DelayIsPositive, KnownCases, DurationAssumption DEF Timely
<1>4. EnoughIsLeft'
  <2> SUFFICES ASSUME Tolerable, NEW s \in fails + 1..MaxFaults, NEW k \in known,
                      Ttl >= slowest + Needs[s + 1]
               PROVE  k - now >= Needs[s + 1 - (fails + 1)]
    BY <1>0, NeedsStay DEF EnoughIsLeft
  <2>1. s \in fails..MaxFaults /\ s + 1 - (fails + 1) = s - fails
        /\ s - fails \in 0..MaxFaults + 1
    BY KnownCases, BoundAssumption
  <2>2. k - since >= Needs[s - fails] + slowest
    BY <1>0, <2>1 DEF EnoughIsLeft
  <2>3. Needs[s - fails] \in Nat /\ k \in Int
    BY <2>1, NeedsAre, KnownCases
  <2> QED
    BY <1>a, <2>1, <2>2, <2>3, KnownCases, DurationAssumption
<1>5. OutageSoFar'
  <2> SUFFICES ASSUME Tolerable, ~live
               PROVE  2 * (now - lostAt) <= (fails + 1) * TwiceRound + 2 * slowest
    BY <1>0, RoundStays DEF OutageSoFar, Tolerable
  <2>1. (fails + 1) * TwiceRound \in Nat
    BY KnownCases, DelayBounds
  <2>2. lostAt >= since \/ 2 * (since - lostAt) <= (fails + 1) * TwiceRound
    BY <1>0 DEF OutageSoFar
  <2> QED
    BY <1>a, <2>1, <2>2, KnownCases, DurationAssumption
<1>6. (calls * Floor <= since)'
  BY <1>0, KnownCases, DurationAssumption
<1> QED
  BY <1>1, <1>2, <1>3, <1>4, <1>5, <1>6

\* A drop begins an outage.
LEMMA DropKeepsIInv == IInv /\ ServerDrops => IInv'
<1> SUFFICES ASSUME IInv, ServerDrops PROVE IInv'
  OBVIOUS
<1> USE DEF IInv
<1>0. /\ phase' = phase /\ since' = since /\ calls' = calls
      /\ skew' = skew /\ slowest' = slowest /\ latest' = latest
      /\ now' = now /\ known' = known /\ live' = FALSE
      /\ expiry' = expiry /\ lostAt' = now /\ fails' = fails
      /\ faults < MaxFaults /\ faults' = faults + 1
  BY DEF ServerDrops, clocks
<1>1. TypeOK'
  <2>1. lostAt' \in 0..now' /\ fails' \in 0..faults' /\ faults' \in 0..MaxFaults
    BY <1>0, KnownCases, BoundAssumption DEF TypeOK
  <2> QED
    BY <1>0, <2>1 DEF TypeOK
<1>2. Timely'
  BY <1>0 DEF Timely
<1>3. KnownIsGranted'
  BY <1>0 DEF KnownIsGranted, Tolerable
<1>4. EnoughIsLeft'
  BY <1>0, NeedsStay DEF EnoughIsLeft
<1>5. OutageSoFar'
  <2>1. TwiceRound' = TwiceRound /\ lostAt' >= since'
    BY <1>0, RoundStays, KnownCases
  <2>2. fails * TwiceRound \in Nat /\ (fails + 1) * TwiceRound \in Nat
    BY KnownCases, DelayBounds
  <2> QED
    BY <1>0, <2>1, <2>2, KnownCases, DurationAssumption DEF OutageSoFar
<1>6. (calls * Floor <= since)'
  BY <1>0
<1> QED
  BY <1>1, <1>2, <1>3, <1>4, <1>5, <1>6

\* One lemma per action.
LEMMA NextKeepsIInv == IInv /\ [Next]_vars => IInv'
<1> SUFFICES ASSUME IInv, [Next]_vars PROVE IInv'
  OBVIOUS
<1>1. CASE UNCHANGED vars
  BY <1>1 DEF vars, IInv, TypeOK, Timely, KnownIsGranted, EnoughIsLeft, OutageSoFar,
              Tolerable, TwiceRound, Lateness, Needs, Behind, Max2
<1>2. CASE Next
  BY <1>1, <1>2, TickKeepsIInv, BeginKeepsIInv, SubscribeKeepsIInv, ReturnKeepsIInv,
     RefusalKeepsIInv, FailureKeepsIInv, DropKeepsIInv DEF Next, Finished
<1> QED
  BY <1>1, <1>2
-----------------------------------------------------------------------------
\* The inductive invariant holds.
LEMMA InductiveInvariant == Spec => []IInv
BY InitIInv, NextKeepsIInv, PTL DEF Spec

\* Type correctness; in particular no grant is taken to last longer than Ttl.
THEOREM LeaseTypeOK == Spec => []TypeOK
<1>1. IInv => TypeOK
  BY DEF IInv
<1> QED
  BY <1>1, InductiveInvariant, PTL

\* A subscription the server does not drop does not lapse before a grant is too
\* short for the calls that failed in a row and one more, for every lifetime and
\* floor, and however slow, late and skewed (subscription.py:95-118, 257-274).
THEOREM GrantNeverLapses == Spec => []GrantIsKept
<1>1. IInv => GrantIsKept
  <2> SUFFICES ASSUME IInv, Tolerable, live, NEW t \in expiry,
                      Ttl >= slowest + Needs[fails + 1]
               PROVE  now < t
    BY DEF GrantIsKept, Granted, Needs
  <2> USE DEF IInv
  <2>1. PICK k \in known : k <= t /\ k \in Int /\ t \in Int
    BY KnownCases DEF KnownIsGranted
  <2>2. fails \in fails..MaxFaults /\ fails - fails = 0
    BY KnownCases, BoundAssumption DEF TypeOK
  <2>3. Needs[fails - fails] = 1
    BY <2>2, NeedsAre
  <2>4. CASE phase = "sleep"
    <3>1. k - now >= Needs[fails - fails] + slowest
      BY <2>2, <2>4, SleepLeavesEnough
    <3> QED
      BY <2>1, <2>3, <3>1, KnownCases
  <2>5. CASE phase # "sleep"
    <3>1. k - since >= Needs[fails - fails] + slowest
      BY <2>2, <2>5 DEF EnoughIsLeft
    <3> QED
      BY <2>1, <2>3, <2>5, <3>1, KnownCases DEF Timely
  <2> QED
    BY <2>4, <2>5
<1> QED
  BY <1>1, InductiveInvariant, PTL

\* The case without failures, in plain figures: a grant that outlasts three of
\* the longest calls, two of the latest timers, what the agent's clock is behind
\* by, and MIN_REFRESH_SECONDS, is refreshed before it lapses as long as calls
\* succeed.  With the shipped TTL of 60 s, floor of 3 s and clocks alike, calls
\* may take up to 18 s.
PromptCallsAreEnough ==
    /\ Tolerable /\ live /\ fails = 0
    /\ Ttl >= 3 * slowest + 2 * latest + Behind + Floor + 2
    => Granted
THEOREM PromptCallsKeepTheGrant == Spec => []PromptCallsAreEnough
<1>1. IInv /\ GrantIsKept => PromptCallsAreEnough
  <2> SUFFICES ASSUME IInv, GrantIsKept, fails = 0, Tolerable, live,
                      Ttl >= 3 * slowest + 2 * latest + Behind + Floor + 2
               PROVE  Granted
    BY DEF PromptCallsAreEnough
  <2> USE DEF IInv
  <2>1. Behind \in Nat /\ Lateness = slowest + latest
    BY NeedsAre DEF Lateness
  <2>2. NeededUpTo(MaxFaults + 1, Needs, Lateness, Behind)
    BY <2>1, KnownCases, NeededIs DEF Needs
  <2>3. 1 \in 1..MaxFaults + 1
    BY BoundAssumption
  <2>4. Needs[1] = OneMore(1, Lateness, Behind)
    BY <2>2, <2>3 DEF NeededUpTo
  <2>5. Ttl >= slowest + Needs[fails + 1]
    BY <2>1, <2>4, KnownCases, DurationAssumption DEF OneMore, Max2
  <2> QED
    BY <2>5 DEF GrantIsKept, Needs
<1> QED
  BY <1>1, InductiveInvariant, GrantNeverLapses, PTL

\* The loop never spins (subscription.py:118).
THEOREM LoopNeverSpins == Spec => []NeverSpins
<1>1. IInv => NeverSpins
  BY KnownCases, DurationAssumption DEF IInv, NeverSpins
<1> QED
  BY <1>1, InductiveInvariant, PTL

\* A dropped subscription is back within the rounds it takes.
THEOREM OutagesAreBounded == Spec => []OutageIsBounded
<1>1. IInv => OutageIsBounded
  <2> SUFFICES ASSUME IInv, Tolerable, ~live
               PROVE  2 * (now - lostAt) <= (fails + 1) * TwiceRound + 2 * slowest
    BY DEF OutageIsBounded
  <2> USE DEF IInv
  <2>1. /\ (fails + 1) * TwiceRound = fails * TwiceRound + TwiceRound
        /\ fails * TwiceRound \in Nat
    BY KnownCases, DelayBounds
  <2>2. CASE phase = "sleep"
    BY <2>1, <2>2, KnownCases, DelayBounds, DurationAssumption DEF OutageSoFar, Timely, Lateness
  <2>3. CASE phase # "sleep"
    BY <2>1, <2>3, KnownCases, DelayBounds, DurationAssumption DEF OutageSoFar, Timely, Lateness
  <2> QED
    BY <2>2, <2>3
<1> QED
  BY <1>1, InductiveInvariant, PTL
=============================================================================
