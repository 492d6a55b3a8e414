----------------------- MODULE AccelerantModesProofs -----------------------
(***************************************************************************)
(* What AccelerantModes tells and takes, for any displays, any requests    *)
(* and any list of modes, however often displays are plugged: the mode     *)
(* told is the mode shown, a proposal fits and is the nearest there is,    *)
(* and it can be set as long as the display is the one that was listed.    *)
(***************************************************************************)
EXTENDS AccelerantModes, SequenceTheorems, FiniteSetTheorems, TLAPS

Modes == [timings : NvModeTimings, valid : BOOLEAN, preferred : BOOLEAN]

\* Where the constructor is in the list of the display, once it lists it.
Seen == 1 .. (IF pc = "list" THEN n ELSE Len(display))

\* The list has a mode for each valid one that was seen, unless the display
\* went away meanwhile.
Listed ==
  /\ pc \in {"none", "find", "list", "up"}
  /\ display \in Displays \cup {None} /\ replugged \in BOOLEAN
  /\ n \in Nat /\ modeList \in Seq(NvModeTimings)
  /\ pc = "find" => modeList = <<>> /\ ~replugged
  /\ pc \in {"list", "up"} /\ ~replugged =>
       /\ display # None
       /\ pc = "list" => n <= Len(display)
       /\ \A k \in 1 .. Len(modeList) : \E i \in Seen : display[i].valid /\ display[i].timings = modeList[k]
       /\ Len(modeList) = Cardinality({i \in Seen : display[i].valid})

\* What NVKMS has was set by the instance there is.
Shown ==
  /\ pc # "up" => shown = None /\ power = "on"
  /\ pc \in {"find", "list"} => currentMode = None /\ dpmsState = "on" /\ answer = None
  /\ pc = "up" => currentMode = shown /\ dpmsState = power /\ power \in {"on", "off"}

\* The last answer still holds.
Answered ==
  /\ Answers("set") /\ answer.told = "ok" =>
       answer.asked \in Requests /\ shown = ToNvKmsModeTimings(answer.asked.timing)
  /\ Answers("dpms") /\ answer.told = "refused" => answer.asked \notin DpmsCapabilities
  /\ Answers("propose") =>
       answer.asked \in Requests /\ answer.told = Proposal(answer.asked, answer.low, answer.high)
  /\ Answers("edid") /\ answer.told # None =>
       answer.told.bytes <= answer.asked /\ (~replugged => answer.told.of = display)

LEMMA ProposalStays ==
  ASSUME modeList' = modeList, NEW target, NEW low, NEW high
  PROVE  Proposal(target, low, high)' = Proposal(target, low, high)
<1>1. BestCandidate(target.timing)' = BestCandidate(target.timing)
  BY DEF BestCandidate
<1> QED
  BY <1>1 DEF Proposal

-----------------------------------------------------------------------------
(* The conversions.                                                        *)

Kept == {"interlaced", "hSyncPos", "vSyncPos"}

LEMMA Product ==
  ASSUME NEW a \in Nat, NEW b \in Nat
  PROVE  a * b \in Nat /\ (a # 0 /\ b # 0 => a * b # 0)
OBVIOUS

LEMMA Quotient ==
  ASSUME NEW a \in Nat, NEW k \in Nat \ {0}
  PROVE  a \div k \in Nat /\ (a \div k) * k <= a /\ (a * k) \div k = a
OBVIOUS

LEMMA RateIsNat ==
  ASSUME NEW t \in display_timing
  PROVE  CalcRefreshRate(t) \in Nat
<1> DEFINE c == (IF "interlaced" \in t.flags THEN 2 ELSE 1) * Kilo * Kilo * t.clock
           d == t.hTotal * t.vTotal
<1>1. t.clock \in Nat /\ t.hTotal \in Nat \ {0} /\ t.vTotal \in Nat \ {0} /\ Kilo \in Nat
  BY KiloAssumption DEF display_timing
<1>2. c \in Nat
  BY <1>1, Product
<1>3. d \in Nat \ {0}
  BY <1>1, Product
<1> HIDE DEF c, d
<1>4. c \div d \in Nat
  BY <1>2, <1>3, Quotient
<1> QED
  BY <1>4, Zenon DEF c, d, CalcRefreshRate

\* A listed mode as the app_server sees it.
LEMMA ToldTimings ==
  ASSUME NEW m \in NvModeTimings
  PROVE  LET t == ToHaikuModeTimings(m) IN
         /\ t \in display_timing /\ t.flags \subseteq Kept
         /\ t.h = m.h /\ t.hTotal = m.hTotal /\ t.v = m.v /\ t.vTotal = m.vTotal
         /\ "interlaced" \in t.flags <=> m.interlaced
         /\ t.clock * Kilo <= m.pixelClockHz
<1>1. /\ m.pixelClockHz \in Nat /\ m.h \in Nat /\ m.hTotal \in Nat \ {0} /\ m.v \in Nat
      /\ m.vTotal \in Nat \ {0} /\ m["interlaced"] = m.interlaced
  BY DEF NvModeTimings
<1>2. m.pixelClockHz \div Kilo \in Nat /\ (m.pixelClockHz \div Kilo) * Kilo <= m.pixelClockHz
  BY <1>1, KiloAssumption, Quotient
<1> DEFINE c == m.pixelClockHz \div Kilo
           flags == {f \in Kept : m[f]}
           t == [clock |-> c, h |-> m.h, hTotal |-> m.hTotal, v |-> m.v, vTotal |-> m.vTotal, flags |-> flags]
<1>3. ToHaikuModeTimings(m) = t
  BY DEF ToHaikuModeTimings, Kept
<1>4. flags \subseteq Kept /\ flags \in SUBSET TimingFlags /\ ("interlaced" \in flags <=> m.interlaced)
  <2>1. Kept \subseteq TimingFlags
    BY DEF Kept, TimingFlags
  <2>2. flags \subseteq Kept /\ ("interlaced" \in flags <=> m["interlaced"])
    BY DEF Kept
  <2>3. "interlaced" \in flags <=> m.interlaced
    BY <1>1, <2>2
  <2> HIDE DEF flags
  <2> QED
    BY <2>1, <2>2, <2>3
<1> HIDE DEF c, flags
<1>5. /\ t \in display_timing /\ t.flags = flags /\ t.clock = c
      /\ t.h = m.h /\ t.hTotal = m.hTotal /\ t.v = m.v /\ t.vTotal = m.vTotal
  BY <1>1, <1>2, <1>4 DEF display_timing, c
<1> QED
  BY <1>2, <1>3, <1>4, <1>5 DEF c

\* NVKMS's timings for a mode the app_server asks for.
LEMMA AskedTimings ==
  ASSUME NEW t \in display_timing
  PROVE  LET m == ToNvKmsModeTimings(t) IN
         /\ m.pixelClockHz = t.clock * Kilo /\ m.h = t.h /\ m.hTotal = t.hTotal
         /\ m.v = t.v /\ m.vTotal = t.vTotal /\ m.interlaced = ("interlaced" \in t.flags)
         /\ ToHaikuModeTimings(m) = [t EXCEPT !.flags = @ \cap Kept]
<1> DEFINE m == ToNvKmsModeTimings(t)
<1>1. /\ m.pixelClockHz = t.clock * Kilo /\ m.h = t.h /\ m.hTotal = t.hTotal
      /\ m.v = t.v /\ m.vTotal = t.vTotal /\ m.interlaced = ("interlaced" \in t.flags)
      /\ \A f \in Kept : m[f] = (f \in t.flags)
  BY DEF ToNvKmsModeTimings, Kept
<1> HIDE DEF m
<1>2. (t.clock * Kilo) \div Kilo = t.clock
  <2>1. t.clock \in Nat
    BY DEF display_timing
  <2> QED
    BY <2>1, KiloAssumption, Quotient
<1>3. {f \in Kept : m[f]} = t.flags \cap Kept
  BY <1>1
<1>4. ToHaikuModeTimings(m) =
        [clock |-> t.clock, h |-> t.h, hTotal |-> t.hTotal, v |-> t.v, vTotal |-> t.vTotal,
         flags |-> t.flags \cap Kept]
  BY <1>1, <1>2, <1>3 DEF ToHaikuModeTimings, Kept
<1>5. [t EXCEPT !.flags = @ \cap Kept] =
        [clock |-> t.clock, h |-> t.h, hTotal |-> t.hTotal, v |-> t.v, vTotal |-> t.vTotal,
         flags |-> t.flags \cap Kept]
  BY DEF display_timing
<1> QED
  BY <1>1, <1>4, <1>5 DEF m

-----------------------------------------------------------------------------
(* Least elements and induction over the numbers, with sets for predicates. *)

LEMMA Least ==
  ASSUME NEW S \in SUBSET Nat, S # {}
  PROVE  \E m \in S : \A k \in S : m <= k
<1> DEFINE R == {ss \in Nat \X Nat : ss[1] < ss[2]}
<1>1. IsWellFoundedOn(R, Nat)
  BY NatLessThanWellFounded, Zenon DEF OpToRel
<1> HIDE DEF R
<1>2. PICK m \in S : \A k \in S : <<k, m>> \notin R
  BY <1>1, WFMin
<1>3. ASSUME NEW k \in S, k < m PROVE FALSE
  <2>1. <<k, m>> \in Nat \X Nat
    OBVIOUS
  <2>2. <<k, m>> \in R
    BY <1>3, <2>1 DEF R
  <2> QED
    BY <1>2, <2>2
<1> QED
  BY <1>3, \A k \in S : k \in Nat /\ (k < m \/ m <= k)

LEMMA Induct ==
  ASSUME NEW S \in SUBSET Nat, 0 \in S, \A k \in S : k + 1 \in S
  PROVE  S = Nat
<1> SUFFICES ASSUME Nat \ S # {} PROVE FALSE
  OBVIOUS
<1>1. PICK m \in Nat \ S : \A k \in Nat \ S : m <= k
  BY Least
<1>2. m - 1 \in S
  BY <1>1
<1> QED
  BY <1>1, <1>2

-----------------------------------------------------------------------------
(* The search for the nearest candidate.                                   *)

\* One round of the loop: the mode at i, or what was found before.
Round(t, i, b) ==
  IF /\ SameSize(modeList[i], t)
     /\ b = 0 \/ Distance(modeList[i], CalcRefreshRate(t)) < Distance(modeList[b], CalcRefreshRate(t))
  THEN i ELSE b

\* b is the nearest candidate of the first k modes.
Nearest(t, b, k) ==
  /\ b = 0 => \A j \in 1 .. k : ~SameSize(modeList[j], t)
  /\ b # 0 =>
       /\ b \in 1 .. k /\ SameSize(modeList[b], t)
       /\ \A j \in 1 .. k : SameSize(modeList[j], t) =>
            Distance(modeList[b], CalcRefreshRate(t)) <= Distance(modeList[j], CalcRefreshRate(t))

LEMMA DistanceIsNat ==
  ASSUME modeList \in Seq(NvModeTimings), NEW rate \in Nat, NEW i \in 1 .. Len(modeList)
  PROVE  Distance(modeList[i], rate) \in Nat
<1>1. modeList[i].RRx1k \in Nat
  <2>1. modeList[i] \in NvModeTimings
    OBVIOUS
  <2> QED
    BY <2>1 DEF NvModeTimings
<1> QED
  BY <1>1 DEF Distance

LEMMA RoundIsNearest ==
  ASSUME modeList \in Seq(NvModeTimings), NEW t \in display_timing,
         NEW k \in Nat, k + 1 <= Len(modeList), NEW b \in Nat, Nearest(t, b, k)
  PROVE  Round(t, k + 1, b) \in Nat /\ Nearest(t, Round(t, k + 1, b), k + 1)
<1> DEFINE D(i) == Distance(modeList[i], CalcRefreshRate(t))
           Fits(i) == SameSize(modeList[i], t)
<1>1. \A i \in 1 .. k + 1 : D(i) \in Nat
  <2>1. \A i \in 1 .. k + 1 : i \in 1 .. Len(modeList)
    OBVIOUS
  <2> QED
    BY <2>1, RateIsNat, DistanceIsNat
<1>2. Round(t, k + 1, b) = IF Fits(k + 1) /\ (b = 0 \/ D(k + 1) < D(b)) THEN k + 1 ELSE b
  BY DEF Round
<1>3. /\ b = 0 => \A j \in 1 .. k : ~Fits(j)
      /\ b # 0 => b \in 1 .. k /\ Fits(b) /\ \A j \in 1 .. k : Fits(j) => D(b) <= D(j)
  BY DEF Nearest
<1> DEFINE c == Round(t, k + 1, b)
<1> HIDE DEF D, Fits, c
<1>4. c = k + 1 \/ c = b
  BY <1>2 DEF c
<1>5. c = 0 => \A j \in 1 .. k + 1 : ~Fits(j)
  BY <1>2, <1>3 DEF c
<1>6. ASSUME c # 0
      PROVE  c \in 1 .. k + 1 /\ Fits(c) /\ \A j \in 1 .. k + 1 : Fits(j) => D(c) <= D(j)
  <2>1. CASE Fits(k + 1) /\ (b = 0 \/ D(k + 1) < D(b))
    <3>1. c = k + 1
      BY <1>2, <2>1 DEF c
    <3>2. ASSUME NEW j \in 1 .. k + 1, Fits(j) PROVE D(k + 1) <= D(j)
      <4>1. CASE j = k + 1
        BY <1>1, <4>1
      <4>2. CASE j \in 1 .. k
        <5>1. b # 0 /\ b \in 1 .. k + 1 /\ D(b) <= D(j) /\ D(k + 1) < D(b)
          BY <1>3, <2>1, <3>2, <4>2
        <5>2. D(b) \in Nat /\ D(j) \in Nat /\ D(k + 1) \in Nat
          BY <1>1, <5>1
        <5> QED
          BY <5>1, <5>2
      <4> QED
        BY <4>1, <4>2
    <3> QED
      BY <2>1, <3>1, <3>2
  <2>2. CASE ~(Fits(k + 1) /\ (b = 0 \/ D(k + 1) < D(b)))
    <3>1. c = b
      BY <1>2, <2>2 DEF c
    <3>2. b \in 1 .. k /\ Fits(b) /\ \A j \in 1 .. k : Fits(j) => D(b) <= D(j)
      BY <1>3, <1>6, <3>1
    <3>3. Fits(k + 1) => D(b) <= D(k + 1)
      <4>1. D(b) \in Nat /\ D(k + 1) \in Nat
        BY <1>1, <3>2
      <4> QED
        BY <1>6, <2>2, <3>1, <4>1
    <3>4. \A j \in 1 .. k + 1 : j \in 1 .. k \/ j = k + 1
      OBVIOUS
    <3> QED
      BY <3>1, <3>2, <3>3, <3>4
  <2> QED
    BY <2>1, <2>2
<1>7. Nearest(t, c, k + 1)
  BY <1>5, <1>6, Zenon DEF Nearest, D, Fits
<1> QED
  BY <1>4, <1>7 DEF c

\* What the loop ends with is the nearest candidate, or 0 when there is none.
LEMMA BestIsNearest ==
  ASSUME modeList \in Seq(NvModeTimings), NEW t \in display_timing
  PROVE  BestCandidate(t) \in Nat /\ Nearest(t, BestCandidate(t), Len(modeList))
<1> DEFINE N == Len(modeList)
           F(g) == [i \in 0 .. N |-> IF i = 0 THEN 0 ELSE Round(t, i, g[i - 1])]
           Rounds(g, k) == /\ g[0] = 0 /\ \A i \in 1 .. k : g[i] = Round(t, i, g[i - 1])
           S == {k \in Nat : \E g : DOMAIN g = 0 .. k /\ Rounds(g, k)}
<1>0. N \in Nat
  OBVIOUS
<1> HIDE DEF N
<1>1. 0 \in S
  <2>1. DOMAIN [i \in 0 .. 0 |-> 0] = 0 .. 0 /\ Rounds([i \in 0 .. 0 |-> 0], 0)
    OBVIOUS
  <2> QED
    BY <2>1
<1>2. ASSUME NEW k \in S PROVE k + 1 \in S
  <2>0. k \in Nat
    OBVIOUS
  <2>1. PICK g : DOMAIN g = 0 .. k /\ Rounds(g, k)
    OBVIOUS
  <2> HIDE DEF S
  <2> DEFINE h == [i \in 0 .. k + 1 |-> IF i = k + 1 THEN Round(t, i, g[i - 1]) ELSE g[i]]
  <2>2. h[0] = 0
    BY <2>0, <2>1
  <2>3. ASSUME NEW i \in 1 .. k + 1 PROVE h[i] = Round(t, i, h[i - 1])
    <3>1. i - 1 \in 0 .. k + 1 /\ i - 1 # k + 1 /\ i \in 0 .. k + 1
      BY <2>0
    <3>2. h[i - 1] = g[i - 1]
      BY <3>1
    <3>3. h[i] = IF i = k + 1 THEN Round(t, i, g[i - 1]) ELSE g[i]
      BY <3>1
    <3> HIDE DEF h
    <3>4. CASE i = k + 1
      BY <3>2, <3>3, <3>4
    <3>5. CASE i # k + 1
      <4>1. i \in 1 .. k
        BY <2>0, <3>5
      <4> QED
        BY <2>1, <3>2, <3>3, <3>5, <4>1
    <3> QED
      BY <3>4, <3>5
  <2>4. DOMAIN h = 0 .. k + 1
    OBVIOUS
  <2> HIDE DEF h
  <2> QED
    BY <2>0, <2>2, <2>3, <2>4 DEF S
<1>3. \E g : DOMAIN g = 0 .. N /\ Rounds(g, N)
  <2>1. S \in SUBSET Nat
    OBVIOUS
  <2> HIDE DEF S
  <2>2. N \in S
    BY <1>0, <1>1, <1>2, <2>1, Induct
  <2> QED
    BY <2>2 DEF S
<1>4. \E g : g = F(g)
  <2>1. PICK g : DOMAIN g = 0 .. N /\ Rounds(g, N)
    BY <1>3
  <2> DEFINE h == [i \in 0 .. N |-> g[i]]
  <2>2. ASSUME NEW i \in 0 .. N PROVE h[i] = IF i = 0 THEN 0 ELSE Round(t, i, h[i - 1])
    <3>1. CASE i = 0
      BY <2>1, <3>1
    <3>2. CASE i # 0
      <4>1. i \in 1 .. N /\ i - 1 \in 0 .. N
        BY <1>0, <3>2
      <4>2. h[i] = g[i] /\ h[i - 1] = g[i - 1]
        BY <4>1
      <4> HIDE DEF h
      <4> QED
        BY <2>1, <3>2, <4>1, <4>2
    <3> QED
      BY <3>1, <3>2
  <2>3. h = [i \in 0 .. N |-> h[i]]
    OBVIOUS
  <2> HIDE DEF h
  <2>4. h = F(h)
    BY <2>2, <2>3
  <2> QED
    BY <2>4
<1> DEFINE best == CHOOSE g : g = F(g)
<1> HIDE DEF F
<1>5. best = F(best)
  BY <1>4
<1>6. BestCandidate(t) = best[N]
  BY Zenon DEF BestCandidate, best, F, N, Round
<1> HIDE DEF best
<1>7. \A i \in 0 .. N : best[i] = IF i = 0 THEN 0 ELSE Round(t, i, best[i - 1])
  BY <1>5 DEF F
<1> DEFINE P == {k \in Nat : k <= N => best[k] \in Nat /\ Nearest(t, best[k], k)}
<1>8. 0 \in P
  <2>1. best[0] = 0
    BY <1>0, <1>7
  <2> QED
    BY <2>1 DEF Nearest
<1>9. ASSUME NEW k \in P PROVE k + 1 \in P
  <2>1. k \in Nat /\ (k <= N => best[k] \in Nat /\ Nearest(t, best[k], k))
    OBVIOUS
  <2> HIDE DEF P
  <2>2. ASSUME k + 1 <= N PROVE best[k + 1] \in Nat /\ Nearest(t, best[k + 1], k + 1)
    <3>1. best[k] \in Nat /\ Nearest(t, best[k], k) /\ k + 1 \in 0 .. N /\ k + 1 # 0 /\ (k + 1) - 1 = k
      BY <1>0, <2>1, <2>2
    <3>2. best[k + 1] = Round(t, k + 1, best[k])
      BY <1>7, <3>1
    <3>3. k + 1 <= Len(modeList)
      BY <2>2 DEF N
    <3> QED
      BY <2>1, <3>1, <3>2, <3>3, RoundIsNearest
  <2> QED
    BY <2>1, <2>2 DEF P
<1>10. N \in P
  <2>1. P \in SUBSET Nat
    OBVIOUS
  <2> HIDE DEF P
  <2> QED
    BY <1>0, <1>8, <1>9, <2>1, Induct
<1>11. best[N] \in Nat /\ Nearest(t, best[N], N)
  BY <1>0, <1>10
<1> QED
  BY <1>6, <1>11 DEF N

-----------------------------------------------------------------------------
(* The invariant.                                                          *)

\* What a step may do besides a hook: build an instance, end it, plug a display.
Others == Construct \/ FindDisplay \/ ListMode \/ ListDone \/ ConstructFails \/ Uninit

\* A hook, whatever it sets.
SomeHook ==
  \E mode \in Requests :
    \/ \E high \in Highs : ProposeMode(mode, Lowest, high)
    \/ SetDisplayModeRefused(mode) \/ SetDisplayModeFails(mode) \/ SetDisplayMode(mode)

Setting ==
  \/ GetDisplayMode \/ GetPreferredDisplayMode
  \/ \E size \in {0, EdidSize + 1} : GetEdidInfo(size)
  \/ \E s \in {"on", "suspend", "off"} : SetDpmsModeRefused(s) \/ SetDpmsModeFails(s) \/ SetDpmsMode(s)

LEMMA NextIs == Next <=> (\E d \in Displays \cup {None} : Plug(d)) \/ Others \/ SomeHook \/ Setting
BY Zenon DEF Next, Others, SomeHook, Setting

LEMMA HooksHook == SomeHook \/ Setting => Hook
BY DEF SomeHook, Setting, ProposeMode, SetDisplayModeRefused, SetDisplayModeFails, SetDisplayMode,
       GetDisplayMode, GetPreferredDisplayMode, GetEdidInfo, SetDpmsModeRefused, SetDpmsModeFails,
       SetDpmsMode

LEMMA OfDisplay ==
  ASSUME NEW d \in Displays
  PROVE  /\ Len(d) \in Nat /\ DOMAIN d = 1 .. Len(d)
         /\ \A i \in 1 .. Len(d) : d[i].timings \in NvModeTimings /\ d[i].valid \in BOOLEAN
<1>1. d \in Seq(Modes)
  BY DisplaysAssumption DEF Modes
<1>2. ASSUME NEW i \in 1 .. Len(d) PROVE d[i].timings \in NvModeTimings /\ d[i].valid \in BOOLEAN
  <2>1. d[i] \in Modes
    BY <1>1
  <2> QED
    BY <2>1 DEF Modes
<1> QED
  BY <1>1, <1>2

\* Listing one more mode.
LEMMA ListModeStep ==
  ASSUME Listed, ListMode
  PROVE  Listed'
<1> DEFINE d == display
           good == {i \in 1 .. n : d[i].valid}
           more == {i \in 1 .. n + 1 : d[i].valid}
<1>1. /\ pc = "list" /\ d \in Displays /\ n \in Nat /\ n < Len(d) /\ n' = n + 1
      /\ UNCHANGED <<display, pc, replugged>>
      /\ modeList' = IF d[n + 1].valid THEN Append(modeList, d[n + 1].timings) ELSE modeList
      /\ modeList \in Seq(NvModeTimings)
  BY DEF Listed, ListMode, external
<1>2. n + 1 \in 1 .. Len(d) /\ d[n + 1].timings \in NvModeTimings /\ d[n + 1].valid \in BOOLEAN
  <2>1. Len(d) \in Nat
    BY <1>1, OfDisplay
  <2>2. n + 1 \in 1 .. Len(d)
    BY <1>1, <2>1
  <2> QED
    BY <1>1, <2>2, OfDisplay
<1>3. modeList' \in Seq(NvModeTimings)
  BY <1>1, <1>2
<1>4. ASSUME ~replugged
      PROVE  /\ \A k \in 1 .. Len(modeList') : \E i \in 1 .. n + 1 : d[i].valid /\ d[i].timings = modeList'[k]
             /\ Len(modeList') = Cardinality(more)
  <2>1. /\ \A k \in 1 .. Len(modeList) : \E i \in 1 .. n : d[i].valid /\ d[i].timings = modeList[k]
        /\ Len(modeList) = Cardinality(good)
    BY <1>1, <1>4 DEF Listed, Seen
  <2>2. IsFiniteSet(good)
    <3>1. IsFiniteSet(1 .. n)
      BY <1>1, FS_Interval
    <3> QED
      BY <3>1, FS_Subset
  <2>3. CASE d[n + 1].valid
    <3>1. modeList' = Append(modeList, d[n + 1].timings)
      BY <1>1, <2>3
    <3>2. /\ Len(modeList') = Len(modeList) + 1 /\ modeList'[Len(modeList) + 1] = d[n + 1].timings
          /\ \A k \in 1 .. Len(modeList) : modeList'[k] = modeList[k]
      BY <1>1, <1>2, <3>1
    <3>3. more = good \cup {n + 1} /\ n + 1 \notin good
      BY <1>1, <2>3
    <3>4. Cardinality(more) = Cardinality(good) + 1
      BY <2>2, <3>3, FS_AddElement
    <3>5. ASSUME NEW k \in 1 .. Len(modeList')
          PROVE  \E i \in 1 .. n + 1 : d[i].valid /\ d[i].timings = modeList'[k]
      <4>1. CASE k = Len(modeList) + 1
        BY <1>1, <2>3, <3>2, <4>1
      <4>2. CASE k \in 1 .. Len(modeList)
        <5>1. PICK i \in 1 .. n : d[i].valid /\ d[i].timings = modeList[k]
          BY <2>1, <4>2
        <5>2. i \in 1 .. n + 1 /\ modeList'[k] = modeList[k]
          BY <1>1, <3>2, <4>2
        <5> QED
          BY <5>1, <5>2
      <4> QED
        BY <1>1, <3>2, <4>1, <4>2
    <3> QED
      BY <2>1, <3>2, <3>4, <3>5
  <2>4. CASE ~d[n + 1].valid
    <3>1. modeList' = modeList
      BY <1>1, <2>4
    <3>2. more = good
      BY <1>1, <2>4
    <3> QED
      BY <1>1, <2>1, <3>1, <3>2
  <2> QED
    BY <2>3, <2>4
<1>5. n + 1 <= Len(d)
  BY <1>1, <1>2
<1> QED
  BY <1>1, <1>3, <1>4, <1>5 DEF Listed, Seen

LEMMA ListedStep ==
  ASSUME Listed, [Next]_vars
  PROVE  Listed'
<1>1. CASE UNCHANGED <<display, pc, n, modeList, replugged>>
  BY <1>1 DEF Listed, Seen
<1>2. CASE UNCHANGED vars \/ SomeHook \/ Setting
  BY <1>1, <1>2, HooksHook DEF vars, external, Hook
<1>3. ASSUME NEW d \in Displays \cup {None}, Plug(d) PROVE Listed'
  <2>1. /\ display' = d /\ UNCHANGED <<pc, n, modeList>>
        /\ replugged' = (replugged \/ pc \in {"list", "up"})
    BY <1>3 DEF Plug
  <2>2. replugged' \in BOOLEAN /\ (pc \in {"list", "up"} => replugged') /\ (pc = "find" => ~replugged')
    BY <2>1 DEF Listed
  <2> QED
    BY <2>1, <2>2 DEF Listed
<1>4. CASE Construct
  <2>1. pc' = "find" /\ n' = 0 /\ modeList' = <<>> /\ replugged' = FALSE /\ display' = display
    BY <1>4 DEF Construct, external
  <2>2. replugged' \in BOOLEAN /\ ~replugged'
    BY <2>1, Zenon
  <2>3. <<>> \in Seq(NvModeTimings)
    OBVIOUS
  <2> QED
    BY <2>1, <2>2, <2>3 DEF Listed
<1>5. CASE FindDisplay
  <2>1. pc = "find" /\ modeList = <<>> /\ ~replugged /\ UNCHANGED <<display, modeList, replugged>>
    BY <1>5 DEF FindDisplay, external, Quiet, Listed
  <2>2. CASE display # None
    <3>1. pc' = "list" /\ n' = 0
      BY <1>5, <2>2 DEF FindDisplay
    <3>2. display \in Displays
      BY <2>2 DEF Listed
    <3>3. Len(display) \in Nat /\ Len(modeList) = 0
      BY <2>1, <3>2, OfDisplay
    <3>4. {i \in 1 .. 0 : display[i].valid} = {} /\ Cardinality({}) = 0
      BY FS_EmptySet
    <3> QED
      BY <2>1, <2>2, <3>1, <3>3, <3>4 DEF Listed, Seen
  <2>3. CASE display = None
    BY <1>5, <2>1, <2>3 DEF FindDisplay, Listed
  <2> QED
    BY <2>2, <2>3
<1>6. CASE ListMode
  BY <1>6, ListModeStep
<1>7. CASE ListDone
  <2>1. /\ pc = "list" /\ pc' = "up" /\ n' = 0 /\ UNCHANGED <<display, modeList, replugged>>
        /\ display # None => n >= Len(display)
    BY <1>7 DEF ListDone, external, Quiet
  <2>2. ASSUME ~replugged PROVE display # None /\ n = Len(display)
    <3>1. display # None /\ n <= Len(display) /\ n \in Nat /\ display \in Displays
      BY <2>1, <2>2 DEF Listed
    <3>2. Len(display) \in Nat
      BY <3>1, OfDisplay
    <3> QED
      BY <2>1, <3>1, <3>2
  <2> QED
    BY <2>1, <2>2 DEF Listed, Seen
<1>8. CASE ConstructFails
  BY <1>8 DEF ConstructFails, external, Quiet, Listed
<1>9. CASE Uninit
  BY <1>9 DEF Uninit, Quiet, Listed
<1> QED
  BY <1>2, <1>3, <1>4, <1>5, <1>6, <1>7, <1>8, <1>9, NextIs DEF Others

LEMMA ShownStep ==
  ASSUME Listed, Shown, [Next]_vars
  PROVE  Shown'
<1>1. CASE UNCHANGED <<shown, power, pc, currentMode, dpmsState, answer>>
  BY <1>1 DEF Shown
<1>2. CASE UNCHANGED vars \/ \E d \in Displays \cup {None} : Plug(d)
  BY <1>1, <1>2 DEF vars, external, Plug
<1>3. CASE Others
  BY <1>3 DEF Others, Construct, FindDisplay, ListMode, ListDone, ConstructFails, Uninit, external, Quiet,
              Shown, Listed
<1>4. CASE SomeHook
  <2>1. pc = "up" /\ pc' = "up" /\ UNCHANGED <<power, dpmsState>>
        /\ (UNCHANGED <<shown, currentMode>> \/ shown' = currentMode')
    BY <1>4 DEF SomeHook, ProposeMode, SetDisplayModeRefused, SetDisplayModeFails, SetDisplayMode, Hook
  <2> QED
    BY <2>1 DEF Shown
<1>5. CASE Setting
  <2>1. /\ pc = "up" /\ pc' = "up" /\ UNCHANGED <<shown, currentMode>>
        /\ \/ UNCHANGED <<power, dpmsState>>
           \/ power' \in {"on", "off"} /\ dpmsState' = power'
    BY <1>5 DEF Setting, GetDisplayMode, GetPreferredDisplayMode, GetEdidInfo, SetDpmsModeRefused,
                SetDpmsModeFails, SetDpmsMode, Hook
  <2> QED
    BY <2>1 DEF Shown
<1> QED
  BY <1>2, <1>3, <1>4, <1>5, NextIs

\* A hook's answer holds when it is given, and until the next.
LEMMA AnsweredStep ==
  ASSUME Listed, Shown, Answered, [Next]_vars
  PROVE  Answered'
<1>1. ASSUME UNCHANGED <<shown, display, modeList, answer, replugged>>, pc' = pc \/ pc' # "up" \/ answer = None
      PROVE  Answered'
  <2>1. \A h : Answers(h)' => Answers(h) \/ answer = None
    BY <1>1 DEF Answers
  <2>2. \A a, l, h : Proposal(a, l, h)' = Proposal(a, l, h)
    BY <1>1, ProposalStays
  <2> QED
    BY <1>1, <2>1, <2>2 DEF Answered, Answers, ToNvKmsModeTimings, CalcRefreshRate, DpmsCapabilities
<1>2. CASE UNCHANGED vars
  BY <1>1, <1>2 DEF vars, external
<1>3. ASSUME NEW d \in Displays \cup {None}, Plug(d) PROVE Answered'
  <2>1. UNCHANGED <<shown, modeList, answer, pc>> /\ replugged' = (replugged \/ pc \in {"list", "up"})
    BY <1>3 DEF Plug
  <2>2. pc = "up" => replugged'
    BY <2>1
  <2>3. \A a, l, h : Proposal(a, l, h)' = Proposal(a, l, h)
    BY <2>1, ProposalStays
  <2> QED
    BY <2>1, <2>2, <2>3 DEF Answered, Answers, ToNvKmsModeTimings, CalcRefreshRate, DpmsCapabilities
<1>4. CASE Others
  <2>1. CASE Construct \/ FindDisplay \/ ListMode \/ ConstructFails \/ Uninit
    <3>1. pc' # "up"
      BY <2>1 DEF Construct, FindDisplay, ListMode, ConstructFails, Uninit
    <3> QED
      BY <3>1 DEF Answered, Answers
  <2>2. CASE ListDone
    BY <2>2 DEF ListDone, Quiet, Shown, Answered, Answers
  <2> QED
    BY <1>4, <2>1, <2>2 DEF Others
<1>5. CASE SomeHook
  <2>1. PICK mode \in Requests :
          \/ \E high \in Highs : ProposeMode(mode, Lowest, high)
          \/ SetDisplayModeRefused(mode) \/ SetDisplayModeFails(mode) \/ SetDisplayMode(mode)
    BY <1>5 DEF SomeHook
  <2>2. ASSUME NEW high \in Highs, ProposeMode(mode, Lowest, high) PROVE Answered'
    <3>1. /\ answer' = [hook |-> "propose", asked |-> mode, low |-> Lowest, high |-> high,
                        told |-> Proposal(mode, Lowest, high)]
          /\ modeList' = modeList
      BY <2>2 DEF ProposeMode, Hook
    <3>2. /\ answer'.hook = "propose" /\ answer'.asked = mode /\ answer'.low = Lowest /\ answer'.high = high
          /\ answer'.told = Proposal(mode, Lowest, high)
      BY <3>1
    <3>3. Proposal(mode, Lowest, high)' = Proposal(mode, Lowest, high)
      BY <3>1, ProposalStays
    <3>4. Proposal(answer.asked, answer.low, answer.high)' = answer'.told
      BY <3>2, <3>3
    <3> QED
      BY <3>2, <3>4 DEF Answered, Answers
  <2>3. CASE SetDisplayModeRefused(mode) \/ SetDisplayModeFails(mode)
    <3>1. answer'.hook = "set" /\ answer'.told # "ok"
      BY <2>3 DEF SetDisplayModeRefused, SetDisplayModeFails, Tell
    <3> QED
      BY <3>1 DEF Answered, Answers
  <2>4. CASE SetDisplayMode(mode)
    <3>1. answer'.hook = "set" /\ answer'.asked = mode /\ shown' = ToNvKmsModeTimings(mode.timing)
      BY <2>4 DEF SetDisplayMode, Tell
    <3> QED
      BY <3>1 DEF Answered, Answers, ToNvKmsModeTimings, CalcRefreshRate
  <2> QED
    BY <2>1, <2>2, <2>3, <2>4
<1>6. CASE Setting
  <2>1. CASE GetDisplayMode \/ GetPreferredDisplayMode
    <3>1. answer'.hook \in {"get", "preferred"}
      BY <2>1 DEF GetDisplayMode, GetPreferredDisplayMode, Tell
    <3> QED
      BY <3>1 DEF Answered, Answers
  <2>2. ASSUME NEW size \in {0, EdidSize + 1}, GetEdidInfo(size) PROVE Answered'
    <3> DEFINE some == IF size < EdidSize THEN size ELSE EdidSize
    <3>0. display' = display /\ some <= size
      BY <2>2, EdidAssumption DEF GetEdidInfo, Hook
    <3> HIDE DEF some
    <3>1. CASE Tell("edid", size, None)
      <4>1. answer'.hook = "edid" /\ answer'.told = None
        BY <3>1 DEF Tell
      <4> QED
        BY <4>1 DEF Answered, Answers
    <3>2. CASE Tell("edid", size, [of |-> display, bytes |-> some])
      <4>1. answer'.hook = "edid" /\ answer'.asked = size /\ answer'.told.of = display /\ answer'.told.bytes = some
        BY <3>2 DEF Tell
      <4> QED
        BY <3>0, <4>1 DEF Answered, Answers
    <3> QED
      BY <2>2, <3>1, <3>2 DEF GetEdidInfo, some
  <2>3. ASSUME NEW s \in {"on", "suspend", "off"},
               SetDpmsModeRefused(s) \/ SetDpmsModeFails(s) \/ SetDpmsMode(s)
        PROVE  Answered'
    <3>1. /\ answer'.hook = "dpms" /\ answer'.asked = s
          /\ answer'.told = "refused" => s \notin {"on", "off"}
      BY <2>3 DEF SetDpmsModeRefused, SetDpmsModeFails, SetDpmsMode, Tell
    <3> QED
      BY <3>1 DEF Answered, Answers, DpmsCapabilities
  <2> QED
    BY <1>6, <2>1, <2>2, <2>3 DEF Setting
<1> QED
  BY <1>2, <1>3, <1>4, <1>5, <1>6, NextIs

ModesInv == Listed /\ Shown /\ Answered

\* The inductive invariant of the list, the mode shown and the last answer.
THEOREM ModesInvariance == Spec => []ModesInv
<1>1. Init => Listed /\ Shown /\ Answered
  <2> SUFFICES ASSUME Init PROVE Listed /\ Shown /\ Answered
    OBVIOUS
  <2>1. replugged \in BOOLEAN /\ ~replugged
    BY Zenon DEF Init
  <2>2. modeList \in Seq(NvModeTimings)
    BY DEF Init
  <2> QED
    BY <2>1, <2>2 DEF Init, Listed, Shown, Answered, Answers
<1>2. Listed /\ Shown /\ Answered /\ [Next]_vars => Listed' /\ Shown' /\ Answered'
  BY ListedStep, ShownStep, AnsweredStep
<1> QED
  BY <1>1, <1>2, PTL DEF Spec, ModesInv

-----------------------------------------------------------------------------
(* The mode told.                                                          *)

\* GetDisplayMode tells the mode that is shown, as it was asked for.
THEOREM ModeToldCorrect == Spec => []ModeToldIsModeSet
<1>1. ModesInv => ModeToldIsModeSet
  <2> SUFFICES ASSUME Listed, Shown, Answered, pc = "up" PROVE ModeToldIsModeSet
    BY DEF ModesInv, ModeToldIsModeSet
  <2>1. currentMode = shown /\ dpmsState = power /\ power \in {"on", "off"}
    BY DEF Shown
  <2>2. DpmsMode = power
    BY <2>1 DEF DpmsMode
  <2>3. ASSUME Answers("set"), answer.told = "ok"
        PROVE  ToHaikuMode(shown).timing = [answer.asked.timing EXCEPT
                 !.flags = @ \cap {"interlaced", "hSyncPos", "vSyncPos"}]
    <3> DEFINE t == answer.asked.timing
    <3>1. answer.asked \in Requests /\ shown = ToNvKmsModeTimings(t)
      BY <2>3 DEF Answered
    <3>2. t \in display_timing
      BY <3>1, RequestsAssumption
    <3> HIDE DEF t
    <3>3. ToHaikuModeTimings(shown) = [t EXCEPT !.flags = @ \cap Kept]
      BY <3>1, <3>2, AskedTimings
    <3>4. ToHaikuMode(shown).timing = ToHaikuModeTimings(shown)
      BY DEF ToHaikuMode
    <3> QED
      BY <3>3, <3>4 DEF t, Kept
  <2>4. Answers("dpms") /\ answer.told = "refused" => answer.asked \notin DpmsCapabilities
    BY DEF Answered
  <2> QED
    BY <2>1, <2>2, <2>3, <2>4 DEF ModeToldIsModeSet
<1> QED
  BY <1>1, ModesInvariance, PTL

-----------------------------------------------------------------------------
(* Proposals.                                                              *)

LEMMA ListedTimings ==
  ASSUME modeList \in Seq(NvModeTimings), NEW i \in DOMAIN modeList
  PROVE  i \in 1 .. Len(modeList) /\ modeList[i] \in NvModeTimings
OBVIOUS

\* A mode is in bounds that fit it alone.
LEMMA WithinItself ==
  ASSUME NEW m \in NvModeTimings
  PROVE  IsDisplayModeWithinBounds(ToHaikuMode(m), ToHaikuMode(m), ToHaikuMode(m))
<1> DEFINE t == ToHaikuModeTimings(m)
           mode == [timing |-> t, width |-> m.h, height |-> m.v]
<1>1. ToHaikuMode(m) = mode
  BY DEF ToHaikuMode
<1>2. t \in display_timing
  BY ToldTimings
<1>3. m.h \in Nat /\ m.v \in Nat
  BY DEF NvModeTimings
<1> HIDE DEF t
<1>4. /\ t["clock"] \in Nat /\ t["h"] \in Nat /\ t["hTotal"] \in Nat /\ t["v"] \in Nat /\ t["vTotal"] \in Nat
  BY <1>2 DEF display_timing
<1>5. mode.timing = t /\ mode.width = m.h /\ mode.height = m.v
  OBVIOUS
<1> HIDE DEF mode
<1>6. \A x \in Nat : x \in x .. x
  OBVIOUS
<1>7. \A f \in {"clock", "h", "hTotal", "v", "vTotal"} : t[f] \in t[f] .. t[f]
  BY <1>4, <1>6
<1> QED
  BY <1>1, <1>3, <1>5, <1>6, <1>7, Zenon DEF IsDisplayModeWithinBounds

\* What Proposal() tells of a target, and that it tells it again.
LEMMA ProposalOf ==
  ASSUME modeList \in Seq(NvModeTimings), NEW target, target.timing \in display_timing,
         target = [timing |-> target.timing, width |-> target.width, height |-> target.height],
         NEW low, NEW high
  PROVE  LET p == Proposal(target, low, high)
             rate == CalcRefreshRate(target.timing)
             fitting == {i \in DOMAIN modeList : SameSize(modeList[i], target.timing)}
         IN p.status # "error" =>
              /\ p.status = "ok" => IsDisplayModeWithinBounds(p.target, low, high)
              /\ p.target = target \/ \E i \in fitting :
                   /\ p.target.timing = ToHaikuModeTimings(modeList[i])
                   /\ \A j \in fitting : Distance(modeList[i], rate) <= Distance(modeList[j], rate)
              /\ \E i \in DOMAIN modeList : p.target.timing = ToHaikuModeTimings(modeList[i])
              /\ Proposal(p.target, low, high) = p
<1> DEFINE t == target.timing
           Told(mode) == [status |-> IF IsDisplayModeWithinBounds(mode, low, high) THEN "ok" ELSE "bad value",
                          target |-> mode]
           Known(mode) == \E i \in DOMAIN modeList : ToHaikuModeTimings(modeList[i]) = mode.timing
           best == BestCandidate(t)
           p == Proposal(target, low, high)
           near == [target EXCEPT !.timing = ToHaikuModeTimings(modeList[best])]
<1>1. \A mode : Known(mode) => Proposal(mode, low, high) = Told(mode)
  BY Zenon DEF Proposal, ModeTimingsEqual
<1>2. ~Known(target) => p = IF best = 0 THEN [status |-> "error", target |-> target] ELSE Told(near)
  BY Zenon DEF Proposal, ModeTimingsEqual
<1>3. \A mode : Told(mode).target = mode
                /\ (Told(mode).status = "ok" => IsDisplayModeWithinBounds(mode, low, high))
  OBVIOUS
<1>4. best \in Nat /\ Nearest(t, best, Len(modeList))
  BY BestIsNearest
<1>5. DOMAIN modeList = 1 .. Len(modeList)
  OBVIOUS
<1> HIDE DEF best, p, Told
<1>6. SUFFICES ASSUME p.status # "error"
      PROVE  LET rate == CalcRefreshRate(t)
                 fitting == {i \in DOMAIN modeList : SameSize(modeList[i], t)}
             IN /\ p.status = "ok" => IsDisplayModeWithinBounds(p.target, low, high)
                /\ p.target = target \/ \E i \in fitting :
                     /\ p.target.timing = ToHaikuModeTimings(modeList[i])
                     /\ \A j \in fitting : Distance(modeList[i], rate) <= Distance(modeList[j], rate)
                /\ \E i \in DOMAIN modeList : p.target.timing = ToHaikuModeTimings(modeList[i])
                /\ Proposal(p.target, low, high) = p
  BY Zenon DEF p
<1>7. CASE Known(target)
  <2>1. p = Told(target)
    BY <1>1, <1>7 DEF p
  <2>2. p.target = target /\ (p.status = "ok" => IsDisplayModeWithinBounds(p.target, low, high))
    BY <1>3, <2>1
  <2>3. Proposal(p.target, low, high) = p
    BY <1>1, <1>7, <2>1, <2>2
  <2> QED
    BY <1>7, <2>2, <2>3
<1>8. CASE ~Known(target)
  <2>1. best # 0
    BY <1>2, <1>6, <1>8
  <2>2. p = Told(near)
    BY <1>2, <1>8, <2>1
  <2>3. best \in DOMAIN modeList /\ SameSize(modeList[best], t)
        /\ \A j \in DOMAIN modeList : SameSize(modeList[j], t) =>
             Distance(modeList[best], CalcRefreshRate(t)) <= Distance(modeList[j], CalcRefreshRate(t))
    BY <1>4, <1>5, <2>1 DEF Nearest
  <2>4. near.timing = ToHaikuModeTimings(modeList[best])
    OBVIOUS
  <2> HIDE DEF near
  <2>5. p.target = near /\ (p.status = "ok" => IsDisplayModeWithinBounds(p.target, low, high))
    BY <1>3, <2>2
  <2>6. Known(near)
    BY <2>3, <2>4
  <2>7. Proposal(p.target, low, high) = p
    BY <1>1, <2>2, <2>5, <2>6
  <2> QED
    BY <2>3, <2>4, <2>5, <2>7
<1> QED
  BY <1>7, <1>8

\* A proposal that is accepted is in its bounds, of the size asked for, and the
\* nearest in refresh rate; it is accepted again, as is every mode of the list.
THEOREM ProposalCorrect == Spec => []ProposalFits
<1>1. ModesInv => ProposalFits
  <2> SUFFICES ASSUME Listed, Shown, Answered, Answers("propose") PROVE ProposalFits
    BY DEF ModesInv, ProposalFits
  <2>0. modeList \in Seq(NvModeTimings)
    BY DEF Listed
  <2>1. ASSUME NEW i \in DOMAIN GetModeList
        PROVE  Proposal(GetModeList[i], GetModeList[i], GetModeList[i]) = [status |-> "ok", target |-> GetModeList[i]]
    <3> DEFINE m == modeList[i]
               mode == ToHaikuMode(m)
    <3>1. i \in DOMAIN modeList /\ GetModeList[i] = mode
      BY DEF GetModeList
    <3>2. m \in NvModeTimings
      BY <2>0, <3>1, ListedTimings
    <3>3. IsDisplayModeWithinBounds(mode, mode, mode)
      BY <3>2, WithinItself
    <3>4. ToHaikuModeTimings(m) = mode.timing
      BY DEF ToHaikuMode
    <3> HIDE DEF mode
    <3>5. Proposal(mode, mode, mode) = [status |-> "ok", target |-> mode]
      BY <3>1, <3>3, <3>4, Zenon DEF Proposal, ModeTimingsEqual
    <3> QED
      BY <3>1, <3>5
  <2>2. /\ answer.asked \in Requests /\ answer.told = Proposal(answer.asked, answer.low, answer.high)
    BY DEF Answered
  <2>3. /\ answer.asked.timing \in display_timing
        /\ answer.asked = [timing |-> answer.asked.timing, width |-> answer.asked.width, height |-> answer.asked.height]
    BY <2>2, RequestsAssumption
  <2> DEFINE p == Proposal(answer.asked, answer.low, answer.high)
             rate == CalcRefreshRate(answer.asked.timing)
             fitting == {i \in DOMAIN modeList : SameSize(modeList[i], answer.asked.timing)}
  <2>4. p.status # "error" =>
          /\ p.status = "ok" => IsDisplayModeWithinBounds(p.target, answer.low, answer.high)
          /\ p.target = answer.asked \/ \E i \in fitting :
               /\ p.target.timing = ToHaikuModeTimings(modeList[i])
               /\ \A j \in fitting : Distance(modeList[i], rate) <= Distance(modeList[j], rate)
          /\ Proposal(p.target, answer.low, answer.high) = p
    BY <2>0, <2>3, ProposalOf
  <2> HIDE DEF p, rate, fitting
  <2>5. answer.told = p
    BY <2>2 DEF p
  <2> QED
    BY <2>1, <2>4, <2>5, Zenon DEF ProposalFits, rate, fitting
<1> QED
  BY <1>1, ModesInvariance, PTL

LEMMA SameTruth ==
  ASSUME NEW x, NEW S, NEW b \in BOOLEAN, NEW c, b <=> x \in S, c = (x \in S)
  PROVE  c = b
OBVIOUS

\* A listed mode, told and asked for again, is one that the listed display takes.
LEMMA ListedValidates ==
  ASSUME Listed, pc = "up", ~replugged, NEW i \in DOMAIN modeList
  PROVE  Validates(ToNvKmsModeTimings(ToHaikuModeTimings(modeList[i])))
<1> DEFINE m == modeList[i]
           t == ToHaikuModeTimings(m)
           k == ToNvKmsModeTimings(t)
<1>1. i \in 1 .. Len(modeList) /\ m \in NvModeTimings
  BY ListedTimings DEF Listed
<1>2. PICK j \in 1 .. Len(display) : display[j].valid /\ display[j].timings = m
  BY <1>1 DEF Listed, Seen
<1>3. display # None /\ display \in Displays
  BY DEF Listed
<1>4. j \in DOMAIN display
  BY <1>2, <1>3, OfDisplay
<1>5. /\ t \in display_timing
      /\ t.h = m.h /\ t.hTotal = m.hTotal /\ t.v = m.v /\ t.vTotal = m.vTotal
      /\ "interlaced" \in t.flags <=> m.interlaced
      /\ t.clock * Kilo <= m.pixelClockHz
  BY <1>1, ToldTimings
<1> HIDE DEF t
<1>6. /\ k.pixelClockHz = t.clock * Kilo /\ k.h = t.h /\ k.hTotal = t.hTotal
      /\ k.v = t.v /\ k.vTotal = t.vTotal /\ k.interlaced = ("interlaced" \in t.flags)
  BY <1>5, AskedTimings
<1> HIDE DEF k
<1>7. m.interlaced \in BOOLEAN
  BY <1>1 DEF NvModeTimings
<1> HIDE DEF m
<1>8. k.interlaced = m.interlaced
  BY <1>5, <1>6, <1>7, SameTruth
<1>9. /\ m["h"] = k["h"] /\ m["hTotal"] = k["hTotal"] /\ m["v"] = k["v"] /\ m["vTotal"] = k["vTotal"]
      /\ m["interlaced"] = k["interlaced"]
  BY <1>5, <1>6, <1>8, Zenon
<1>10. \A f \in {"h", "hTotal", "v", "vTotal", "interlaced"} : m[f] = k[f]
  BY <1>9, Zenon
<1>11. k.pixelClockHz <= m.pixelClockHz
  BY <1>5, <1>6
<1>12. Validates(k)
  BY <1>2, <1>3, <1>4, <1>10, <1>11, Zenon DEF Validates
<1> QED
  BY <1>12 DEF k, t, m

\* A progressive mode of the list is between its own clock limits.
LEMMA ListedInLimits ==
  ASSUME modeList \in Seq(NvModeTimings), NEW i \in DOMAIN modeList, NEW t,
         t = ToHaikuModeTimings(modeList[i]), "interlaced" \notin t.flags
  PROVE  \E low, high \in LimitClocks(t) : t.clock \in low .. high
<1> DEFINE m == modeList[i]
<1>1. m \in NvModeTimings
  BY ListedTimings
<1>2. m.h = t.h /\ m.v = t.v /\ ~m.interlaced /\ t \in display_timing
  BY <1>1, ToldTimings
<1>3. t.clock \in LimitClocks(t)
  BY <1>2 DEF LimitClocks
<1>4. t.clock \in t.clock .. t.clock
  <2>1. t.clock \in Nat
    BY <1>2 DEF display_timing
  <2> QED
    BY <2>1
<1> QED
  BY <1>3, <1>4

\* An accepted proposal can be set, and the EDID told is of the display listed.
THEOREM UsableCorrect == Spec => []ProposalUsable
<1>1. ModesInv => ProposalUsable
  <2> SUFFICES ASSUME Listed, Shown, Answered PROVE ProposalUsable
    BY DEF ModesInv
  <2>1. ASSUME Answers("propose"), answer.told.status = "ok"
        PROVE  LET told == answer.told.target IN
               /\ "interlaced" \notin told.timing.flags =>
                    \E low, high \in LimitClocks(told.timing) : told.timing.clock \in low .. high
               /\ ~replugged => Validates(ToNvKmsModeTimings(told.timing))
    <3>1. /\ answer.asked \in Requests /\ answer.told = Proposal(answer.asked, answer.low, answer.high)
      BY <2>1 DEF Answered
    <3>2. /\ answer.asked.timing \in display_timing
          /\ answer.asked = [timing |-> answer.asked.timing, width |-> answer.asked.width, height |-> answer.asked.height]
      BY <3>1, RequestsAssumption
    <3>3. modeList \in Seq(NvModeTimings) /\ pc = "up"
      BY <2>1 DEF Listed, Answers
    <3>4. PICK i \in DOMAIN modeList : answer.told.target.timing = ToHaikuModeTimings(modeList[i])
      <4>1. Proposal(answer.asked, answer.low, answer.high).status # "error"
        BY <2>1, <3>1
      <4>2. \E i \in DOMAIN modeList :
              Proposal(answer.asked, answer.low, answer.high).target.timing = ToHaikuModeTimings(modeList[i])
        BY <3>2, <3>3, <4>1, ProposalOf
      <4> QED
        BY <3>1, <4>2
    <3> QED
      BY <3>3, <3>4, ListedValidates, ListedInLimits
  <2>2. ASSUME Answers("edid"), answer.told # None
        PROVE  LET edid == answer.told IN
               /\ edid.bytes <= answer.asked
               /\ ~replugged => Len(modeList) = Cardinality({i \in DOMAIN edid.of : edid.of[i].valid})
    <3>1. answer.told.bytes <= answer.asked /\ (~replugged => answer.told.of = display)
      BY <2>2 DEF Answered
    <3>2. ASSUME ~replugged PROVE Len(modeList) = Cardinality({i \in DOMAIN display : display[i].valid})
      <4>1. /\ display \in Displays /\ Len(modeList) = Cardinality({i \in 1 .. Len(display) : display[i].valid})
        BY <2>2, <3>2 DEF Listed, Seen, Answers
      <4>2. DOMAIN display = 1 .. Len(display)
        BY <4>1, OfDisplay
      <4> QED
        BY <4>1, <4>2
    <3> QED
      BY <3>1, <3>2
  <2> QED
    BY <2>1, <2>2 DEF ProposalUsable
<1> QED
  BY <1>1, ModesInvariance, PTL

=============================================================================
