-------------------------- MODULE EmmcBusProofs --------------------------
(***************************************************************************)
(* What EmmcBus promises, for every length of a scan and every set of      *)
(* faults the theorems allow.                                              *)
(*                                                                         *)
(* The text of a call gets an outline: what holds before each of its steps *)
(* and behind the last.  A thread is always somewhere in a call that has   *)
(* one, and outside the calls of main that open, run and close a session,  *)
(* power down or boot, which are written out step by step, nothing else    *)
(* has to be known of it.  The same outlines serve main's calls in a       *)
(* session, which hold the bus once more than the session does.            *)
(***************************************************************************)
EXTENDS EmmcBus, SequenceTheorems, TLAPS

(***************************************************************************)
(* Outlines.                                                               *)
(***************************************************************************)
\* Between two steps: how often the thread holds the bus, whether the call
\* has tested g_initialized, whether s_cat_buf holds a block the thread read.
State ==
  {s \in [held : Nat, tested : BOOLEAN, filled : BOOLEAN] :
     s.filled => s.held >= 1}

Point(n, tested, filled) ==
  [held |-> n, tested |-> tested, filled |-> filled]

Holding(n) == Point(n, FALSE, FALSE)
Start == Holding(0)

Commands == {"read", "readN", "load", "write", "store"}
Uses == {"copy", "merge", "store"}
Filling == {"load", "zero"}

\* The step may be made in a and leaves b.
Leads(step, a, b) ==
  /\ step = "lock" => b.held = a.held + 1
  /\ step = "unlock" => a.held = b.held + 1
  /\ step \notin {"lock", "unlock"} => b.held = a.held
  /\ b.tested => a.tested \/ step = "test"
  /\ b.filled => a.filled \/ step \in Filling
  /\ step \in Commands \cup Filling => a.held >= 1
  /\ step \in Commands => a.tested
  /\ step \in Uses => a.filled
  /\ step \in Filling => ~a.filled
  /\ step = "scan" => ~b.filled
  /\ step = "look" => b = Start

\* Text c leads from a to b by the outline s.
Takes(c, a, b) ==
  \E s \in Seq(State) :
    /\ Len(s) = Len(c) + 1 /\ s[1] = a /\ s[Len(s)] = b
    /\ \A i \in 1 .. Len(c) : Leads(c[i], s[i], s[i + 1])

\* Behind the running call the thread holds nothing, and the calls behind it
\* begin with nothing.
Lined(calls, a) ==
  IF calls = <<>> THEN a.held = 0
  ELSE /\ \E b \in State : b.held = 0 /\ Takes(calls[1], a, b)
       /\ \A k \in 2 .. Len(calls) : \E b \in State :
            b.held = 0 /\ Takes(calls[k], Start, b)

LEMMA Points ==
  ASSUME NEW n \in Nat, NEW tested \in BOOLEAN, NEW filled \in BOOLEAN,
         filled => n >= 1
  PROVE  /\ Point(n, tested, filled) \in State
         /\ Point(n, tested, filled).held = n
         /\ Point(n, tested, filled).tested = tested
         /\ Point(n, tested, filled).filled = filled
BY DEF Point, State

LEMMA Holdings ==
  ASSUME NEW n \in Nat
  PROVE  /\ Holding(n) \in State /\ Holding(n).held = n
         /\ ~Holding(n).tested /\ ~Holding(n).filled
BY DEF Holding, Point, State

LEMMA StartState ==
  Start \in State /\ Start.held = 0 /\ ~Start.tested /\ ~Start.filled
BY Holdings DEF Start

LEMMA StateParts ==
  ASSUME NEW a \in State
  PROVE  /\ a.held \in Nat /\ a.tested \in BOOLEAN /\ a.filled \in BOOLEAN
         /\ a.filled => a.held >= 1
         /\ a = Point(a.held, a.tested, a.filled)
BY DEF State, Point

\* An outline shown.
LEMMA TakesBy ==
  ASSUME NEW c, NEW s \in Seq(State), NEW a, NEW b,
         Len(s) = Len(c) + 1, s[1] = a, s[Len(c) + 1] = b,
         \A i \in 1 .. Len(c) : Leads(c[i], s[i], s[i + 1])
  PROVE  Takes(c, a, b)
BY DEF Takes

\* One step.
LEMMA TakesStep ==
  ASSUME NEW x, NEW a \in State, NEW b \in State, Leads(x, a, b)
  PROVE  Takes(<<x>>, a, b)
<1> DEFINE c == <<x>>
           s == <<a, b>>
<1>1. s \in Seq(State) /\ Len(s) = 2 /\ s[1] = a /\ s[2] = b
  OBVIOUS
<1>2. Len(c) = 1 /\ c[1] = x
  OBVIOUS
<1> HIDE DEF s, c
<1>3. \A i \in 1 .. Len(c) : Leads(c[i], s[i], s[i + 1])
  BY <1>1, <1>2
<1>4. Len(s) = Len(c) + 1 /\ s[Len(c) + 1] = b
  BY <1>1, <1>2
<1>5. Takes(c, a, b)
  BY <1>1, <1>3, <1>4, TakesBy
<1> QED
  BY <1>5 DEF c

\* Two steps.
LEMMA TakesTwo ==
  ASSUME NEW x, NEW y, NEW a \in State, NEW b \in State, NEW e \in State,
         Leads(x, a, b), Leads(y, b, e)
  PROVE  Takes(<<x, y>>, a, e)
<1> DEFINE c == <<x, y>>
           s == <<a, b, e>>
<1>1. s \in Seq(State) /\ Len(s) = 3 /\ s[1] = a /\ s[2] = b /\ s[3] = e
  OBVIOUS
<1>2. Len(c) = 2 /\ c[1] = x /\ c[2] = y
  OBVIOUS
<1> HIDE DEF s, c
<1>3. \A i \in 1 .. Len(c) : Leads(c[i], s[i], s[i + 1])
  <2> SUFFICES ASSUME NEW i \in 1 .. 2 PROVE Leads(c[i], s[i], s[i + 1])
    BY <1>2
  <2>1. i = 1 \/ i = 2
    OBVIOUS
  <2> QED
    BY <2>1, <1>1, <1>2
<1>4. Len(s) = Len(c) + 1 /\ s[Len(c) + 1] = e
  BY <1>1, <1>2
<1>5. Takes(c, a, e)
  BY <1>1, <1>3, <1>4, TakesBy
<1> QED
  BY <1>5 DEF c

\* Two texts, one behind the other.
LEMMA TakesBoth ==
  ASSUME NEW c \in Seq(Steps), NEW d \in Seq(Steps),
         NEW a \in State, NEW b \in State, NEW e \in State,
         Takes(c, a, b), Takes(d, b, e)
  PROVE  Takes(c \o d, a, e)
<1>1. PICK s \in Seq(State) :
        /\ Len(s) = Len(c) + 1 /\ s[1] = a /\ s[Len(s)] = b
        /\ \A i \in 1 .. Len(c) : Leads(c[i], s[i], s[i + 1])
  BY DEF Takes
<1>2. PICK r \in Seq(State) :
        /\ Len(r) = Len(d) + 1 /\ r[1] = b /\ r[Len(r)] = e
        /\ \A i \in 1 .. Len(d) : Leads(d[i], r[i], r[i + 1])
  BY DEF Takes
<1> DEFINE u == Tail(r)
           w == s \o u
           cd == c \o d
<1>3. /\ u \in Seq(State) /\ Len(u) = Len(d)
      /\ \A i \in 1 .. Len(d) : u[i] = r[i + 1]
  BY <1>2
<1> HIDE DEF u
<1>4. /\ w \in Seq(State) /\ Len(w) = Len(c) + Len(d) + 1
      /\ \A i \in 1 .. Len(w) :
           w[i] = IF i <= Len(c) + 1 THEN s[i] ELSE r[i - Len(c)]
  <2>1. /\ w \in Seq(State) /\ Len(w) = Len(s) + Len(d)
        /\ \A i \in 1 .. Len(s) + Len(d) :
             w[i] = IF i <= Len(s) THEN s[i] ELSE u[i - Len(s)]
    <3>1. \A x, y \in Seq(State) :
            /\ x \o y \in Seq(State) /\ Len(x \o y) = Len(x) + Len(y)
            /\ \A i \in 1 .. Len(x) + Len(y) :
                 (x \o y)[i] = IF i <= Len(x) THEN x[i] ELSE y[i - Len(x)]
      BY ConcatProperties
    <3>2. /\ w \in Seq(State) /\ Len(w) = Len(s) + Len(u)
          /\ \A i \in 1 .. Len(s) + Len(u) :
               w[i] = IF i <= Len(s) THEN s[i] ELSE u[i - Len(s)]
      BY <1>1, <1>3, <3>1, Zenon
    <3> QED
      BY <3>2, <1>3
  <2> HIDE DEF w
  <2>2. ASSUME NEW i \in 1 .. Len(w)
        PROVE  w[i] = IF i <= Len(c) + 1 THEN s[i] ELSE r[i - Len(c)]
    <3>1. CASE i <= Len(s)
      BY <3>1, <1>1, <1>3, <2>1
    <3>2. CASE i > Len(s)
      <4>1. w[i] = u[i - Len(s)] /\ i - Len(s) \in 1 .. Len(d)
        BY <3>2, <1>1, <1>3, <2>1
      <4> QED
        BY <3>2, <4>1, <1>1, <1>3
    <3> QED
      BY <3>1, <3>2
  <2> QED
    BY <1>1, <2>1, <2>2
<1>5. /\ Len(cd) = Len(c) + Len(d)
      /\ \A i \in 1 .. Len(c) + Len(d) :
           cd[i] = IF i <= Len(c) THEN c[i] ELSE d[i - Len(c)]
  OBVIOUS
<1> HIDE DEF w, cd
<1>0. Len(c) \in Nat /\ Len(d) \in Nat
  OBVIOUS
<1>6. w[1] = a /\ w[Len(w)] = e
  <2>1. w[1] = a
    BY <1>1, <1>4
  <2>2. CASE Len(d) = 0
    <3>1. w[Len(w)] = s[Len(c) + 1]
      BY <2>2, <1>4
    <3>2. r[Len(r)] = r[1]
      BY <2>2, <1>2
    <3> QED
      BY <2>1, <3>1, <3>2, <1>1, <1>2
  <2>3. CASE Len(d) # 0
    <3>1. Len(d) >= 1 /\ ~(Len(w) <= Len(c) + 1) /\ Len(w) \in 1 .. Len(w)
      BY <2>3, <1>4
    <3>2. w[Len(w)] = r[Len(w) - Len(c)]
      BY <3>1, <1>4
    <3>3. Len(w) - Len(c) = Len(r)
      BY <1>2, <1>4
    <3> QED
      BY <2>1, <3>2, <3>3, <1>2
  <2> QED
    BY <2>2, <2>3
<1>7. ASSUME NEW i \in 1 .. Len(c) + Len(d)
      PROVE  Leads(cd[i], w[i], w[i + 1])
  <2>1. CASE i <= Len(c)
    <3>1. i \in 1 .. Len(c) /\ i \in 1 .. Len(w) /\ i + 1 \in 1 .. Len(w)
      BY <1>0, <2>1, <1>4
    <3>2. w[i] = s[i]
      BY <1>0, <2>1, <3>1, <1>4
    <3>3. w[i + 1] = s[i + 1]
      <4>1. i + 1 <= Len(c) + 1
        BY <1>0, <2>1
      <4> QED
        BY <4>1, <3>1, <1>4
    <3>4. cd[i] = c[i]
      BY <1>0, <2>1, <1>5
    <3> QED
      BY <3>1, <3>2, <3>3, <3>4, <1>1
  <2>2. CASE i > Len(c)
    <3>1. i - Len(c) \in 1 .. Len(d) /\ cd[i] = d[i - Len(c)]
      BY <2>2, <1>5
    <3>2. w[i] = r[i - Len(c)]
      BY <2>2, <1>1, <1>2, <1>4
    <3>3. w[i + 1] = r[i - Len(c) + 1]
      <4>1. /\ i + 1 \in 1 .. Len(w) /\ ~(i + 1 <= Len(c) + 1)
            /\ (i + 1) - Len(c) = i - Len(c) + 1
        BY <1>0, <2>2, <1>4
      <4> QED
        BY <4>1, <1>4, SMTT(30)
    <3> QED
      BY <3>1, <3>2, <3>3, <1>2
  <2> QED
    BY <2>1, <2>2
<1>8. Takes(cd, a, e)
  BY <1>4, <1>5, <1>6, <1>7, TakesBy
<1> QED
  BY <1>8 DEF cd

\* A step that leads back to where it was made, n times over.
LEMMA TakesTimes ==
  ASSUME NEW x, NEW n \in Nat, NEW a \in State, Leads(x, a, a)
  PROVE  Takes(Times(n, x), a, a)
<1> DEFINE s == [i \in 1 .. n + 1 |-> a]
<1>1. s \in Seq(State) /\ Len(s) = n + 1 /\ s[1] = a /\ s[n + 1] = a
  OBVIOUS
<1>2. Len(Times(n, x)) = n
  BY DEF Times
<1>3. \A i \in 1 .. n : Times(n, x)[i] = x
  BY DEF Times
<1>4. \A i \in 1 .. n : Leads(Times(n, x)[i], s[i], s[i + 1])
  BY <1>3
<1> HIDE DEF s
<1> QED
  BY <1>1, <1>2, <1>4, TakesBy

\* As many releases as the thread holds the bus.
LEMMA TakesUnlocks ==
  ASSUME NEW n \in Nat
  PROVE  Takes(Times(n, "unlock"), Holding(n), Start)
<1> DEFINE s == [i \in 1 .. n + 1 |-> Holding(n + 1 - i)]
<1>1. \A i \in 1 .. n + 1 : n + 1 - i \in Nat
  OBVIOUS
<1>2. s \in [1 .. n + 1 -> State]
  BY <1>1, Holdings
<1>3. s[1] = Holding(n) /\ s[n + 1] = Start
  BY DEF Start
<1>4. \A i \in 1 .. n + 1 : s[i] = Holding(n + 1 - i)
  OBVIOUS
<1> HIDE DEF s
<1>5. s \in Seq(State) /\ Len(s) = n + 1
  BY <1>2
<1>6. Len(Times(n, "unlock")) = n
  BY DEF Times
<1>7. ASSUME NEW i \in 1 .. n
      PROVE  Leads(Times(n, "unlock")[i], s[i], s[i + 1])
  <2>1. Times(n, "unlock")[i] = "unlock"
    BY DEF Times
  <2>2. s[i].held = n + 1 - i /\ s[i + 1].held = n - i
    BY <1>1, <1>4, Holdings
  <2>3. ~s[i + 1].tested /\ ~s[i + 1].filled
    BY <1>1, <1>4, Holdings
  <2> QED
    BY <2>1, <2>2, <2>3 DEF Leads, Filling, Commands, Uses
<1> QED
  BY <1>3, <1>5, <1>6, <1>7, TakesBy

\* The first step of a text, and the rest.
LEMMA TakesTail ==
  ASSUME NEW c \in Seq(Steps), c # <<>>, NEW a \in State, NEW e \in State,
         Takes(c, a, e)
  PROVE  \E b \in State : Leads(Head(c), a, b) /\ Takes(Tail(c), b, e)
<1>1. PICK s \in Seq(State) :
        /\ Len(s) = Len(c) + 1 /\ s[1] = a /\ s[Len(s)] = e
        /\ \A i \in 1 .. Len(c) : Leads(c[i], s[i], s[i + 1])
  BY DEF Takes
<1>2. Len(c) >= 1 /\ Head(c) = c[1]
  OBVIOUS
<1> DEFINE d == Tail(c)
           r == Tail(s)
<1>3. /\ Len(d) = Len(c) - 1
      /\ \A i \in 1 .. Len(c) - 1 : d[i] = c[i + 1]
  OBVIOUS
<1>4. /\ r \in Seq(State) /\ Len(r) = Len(c)
      /\ \A i \in 1 .. Len(c) : r[i] = s[i + 1]
  BY <1>1, <1>2
<1> HIDE DEF d, r
<1>5. s[2] \in State /\ Leads(Head(c), a, s[2])
  BY <1>1, <1>2
<1>6. r[1] = s[2] /\ r[Len(c)] = e
  BY <1>1, <1>2, <1>4
<1>7. ASSUME NEW i \in 1 .. Len(d)
      PROVE  Leads(d[i], r[i], r[i + 1])
  <2>1. i + 1 \in 1 .. Len(c) /\ i \in 1 .. Len(c)
    BY <1>2, <1>3
  <2> QED
    BY <2>1, <1>1, <1>3, <1>4
<1>9. Len(r) = Len(d) + 1 /\ r[Len(d) + 1] = e
  BY <1>2, <1>3, <1>4, <1>6
<1>8. Takes(d, s[2], e)
  BY <1>4, <1>5, <1>6, <1>7, <1>9, TakesBy
<1> QED
  BY <1>5, <1>8 DEF d

(***************************************************************************)
(* The outlines of the calls.                                              *)
(***************************************************************************)
\* Test, lock, one use of the bus, unlock.
LEMMA TakesAccess ==
  ASSUME NEW x \in {"read", "readN", "write", "load", "store"},
         NEW a \in State, NEW b \in State, b.held = a.held,
         b.tested => a.tested,
         x # "load" => (b.filled => a.filled),
         x = "load" => ~a.filled,
         x = "store" => a.filled
  PROVE  Takes(<<"test", "lock", x, "unlock">>, a, b)
<1> DEFINE n == a.held + 1
           a1 == Point(a.held, TRUE, a.filled)
           a2 == Point(n, TRUE, a.filled)
           b1 == Point(n, TRUE, b.filled)
           c == <<"test", "lock", x, "unlock">>
           s == <<a, a1, a2, b1, b>>
<1>0. /\ a.held \in Nat /\ n \in Nat /\ n >= 1 /\ b.filled \in BOOLEAN
      /\ a.filled \in BOOLEAN /\ (a.filled => a.held >= 1)
  BY StateParts
<1>1. /\ a1 \in State /\ a1.held = a.held /\ a1.tested /\ a1.filled = a.filled
      /\ a2 \in State /\ a2.held = n /\ a2.tested /\ a2.filled = a.filled
      /\ b1 \in State /\ b1.held = n /\ b1.tested /\ b1.filled = b.filled
  <2>1. /\ a1 \in State /\ a1.held = a.held /\ a1.tested /\ a1.filled = a.filled
    BY <1>0, Points, ZenonT(30)
  <2>2. /\ a2 \in State /\ a2.held = n /\ a2.tested /\ a2.filled = a.filled
    BY <1>0, Points
  <2>3. /\ b1 \in State /\ b1.held = n /\ b1.tested /\ b1.filled = b.filled
    BY <1>0, Points
  <2> QED
    BY <2>1, <2>2, <2>3
<1> HIDE DEF a1, a2, b1
<1>2. Leads("test", a, a1) /\ Leads("lock", a1, a2)
  BY <1>0, <1>1, StateParts DEF Leads, Commands, Uses, Filling
<1>3. Leads(x, a2, b1) /\ Leads("unlock", b1, b)
  BY <1>0, <1>1, StateParts DEF Leads, Commands, Uses, Filling
<1>4. /\ s \in Seq(State) /\ Len(s) = 5 /\ s[1] = a /\ s[2] = a1 /\ s[3] = a2
      /\ s[4] = b1 /\ s[5] = b
  BY <1>1
<1>5. /\ Len(c) = 4 /\ c[1] = "test" /\ c[2] = "lock" /\ c[3] = x
      /\ c[4] = "unlock"
  OBVIOUS
<1> HIDE DEF s, c
<1>6. \A i \in 1 .. Len(c) : Leads(c[i], s[i], s[i + 1])
  <2> SUFFICES ASSUME NEW i \in 1 .. 4 PROVE Leads(c[i], s[i], s[i + 1])
    BY <1>5
  <2>1. CASE i = 1
    BY <2>1, <1>2, <1>4, <1>5
  <2>2. CASE i = 2
    BY <2>2, <1>2, <1>4, <1>5
  <2>3. CASE i = 3
    BY <2>3, <1>3, <1>4, <1>5
  <2>4. CASE i = 4
    BY <2>4, <1>3, <1>4, <1>5
  <2> QED
    BY <2>1, <2>2, <2>3, <2>4
<1>7. Len(s) = Len(c) + 1 /\ s[Len(c) + 1] = b
  BY <1>4, <1>5
<1>8. Takes(c, a, b)
  BY <1>4, <1>6, <1>7, TakesBy
<1> QED
  BY <1>8 DEF c

\* The texts consist of steps of the calls they belong to.
FeedSteps ==
  {"unlessActive", "look", "test", "lock", "unlock", "read", "readN", "load",
   "copy"}
PlainSteps ==
  {"test", "lock", "unlock", "scan", "read", "load", "write", "store", "copy",
   "merge", "zero"}

LEMMA StepSets == FeedSteps \subseteq Steps /\ PlainSteps \subseteq Steps
BY DEF FeedSteps, PlainSteps, Steps, Tests

LEMMA TextsOfSteps ==
  /\ ReadBlock \in Seq(PlainSteps) \ {<<>>} /\ WriteBlock \in Seq(PlainSteps) \ {<<>>}
  /\ Load \in Seq(PlainSteps) /\ Store \in Seq(PlainSteps)
  /\ ReadBlock \in Seq(FeedSteps) \ {<<>>} /\ ReadBlocks \in Seq(FeedSteps) \ {<<>>}
  /\ Load \in Seq(FeedSteps)
BY DEF ReadBlock, WriteBlock, Load, Store, ReadBlocks, PlainSteps, FeedSteps

LEMMA JoinOfSteps ==
  ASSUME NEW S, NEW c \in Seq(S), NEW d \in Seq(S)
  PROVE  /\ c \o d \in Seq(S)
         /\ c # <<>> \/ d # <<>> => c \o d # <<>>
BY ConcatProperties, EmptySeq, ConcatEqualIffEmpty

LEMMA TimesOfSteps ==
  ASSUME NEW S, NEW x \in S, NEW n \in Nat
  PROVE  Times(n, x) \in Seq(S)
BY DEF Times

\* A read of a song leads back to where it was made, but for the scratch
\* block.
LEMMA ReadSongText ==
  ASSUME NEW a \in State, NEW b \in State, b.held = a.held,
         b.tested => a.tested, ~b.filled
  PROVE  /\ Takes(ReadSong, a, b)
         /\ ReadSong \in Seq(PlainSteps) \ {<<>>}
         /\ ReadSong \in Seq(FeedSteps) \ {<<>>}
<1> DEFINE n == a.held + 1
           e == Point(n, b.tested, FALSE)
           f == Point(n, b.tested, TRUE)
<1>0. /\ a.held \in Nat /\ n \in Nat /\ n >= 1 /\ b.tested \in BOOLEAN
  BY StateParts
<1>1. /\ e \in State /\ e.held = n /\ e.tested = b.tested /\ ~e.filled
      /\ f \in State /\ f.held = n /\ f.tested = b.tested /\ f.filled
  BY <1>0, Points
<1> HIDE DEF e, f
<1>2. Takes(<<"lock">>, a, e)
  BY <1>1, TakesStep DEF Leads, Commands, Uses, Filling
<1>3. Takes(Load, e, f)
  BY <1>1, TakesAccess DEF Load
<1>4. Takes(<<"copy", "unlock">>, f, b)
  BY <1>1, TakesTwo DEF Leads, Commands, Uses, Filling
<1>5. ASSUME NEW S, Load \in Seq(S), {"lock", "copy", "unlock"} \subseteq S
      PROVE  /\ <<"lock">> \in Seq(S) /\ <<"copy", "unlock">> \in Seq(S)
             /\ <<"lock">> \o Load \in Seq(S) /\ ReadSong \in Seq(S) \ {<<>>}
  <2>1. <<"lock">> \in Seq(S) /\ <<"copy", "unlock">> \in Seq(S)
    BY <1>5
  <2>2. <<"lock">> # <<>>
    OBVIOUS
  <2> QED
    BY <1>5, <2>1, <2>2, JoinOfSteps DEF ReadSong
<1>6. ReadSong \in Seq(FeedSteps) \ {<<>>}
  BY <1>5, TextsOfSteps DEF FeedSteps
<1>7. ReadSong \in Seq(PlainSteps) \ {<<>>}
  BY <1>5, TextsOfSteps DEF PlainSteps
<1>8. Load \in Seq(Steps)
  BY TextsOfSteps, StepSets, SeqMonotonic
<1>9. Takes(<<"lock">> \o Load, a, f)
  BY <1>1, <1>2, <1>3, <1>5, <1>8, TakesBoth DEF Steps
<1>10. Takes(ReadSong, a, b)
  BY <1>1, <1>4, <1>5, <1>8, <1>9, TakesBoth DEF ReadSong, Steps
<1> QED
  BY <1>6, <1>7, <1>10

\* Texts over the steps S, one behind the other.
LEMMA JoinTexts ==
  ASSUME NEW S \in SUBSET Steps, NEW c \in Seq(S), NEW d \in Seq(S),
         NEW a \in State, NEW b \in State, NEW e \in State,
         Takes(c, a, b), Takes(d, b, e)
  PROVE  c \o d \in Seq(S) /\ Takes(c \o d, a, e)
<1>1. c \in Seq(Steps) /\ d \in Seq(Steps)
  BY SeqMonotonic
<1> QED
  BY <1>1, TakesBoth, JoinOfSteps

LEMMA PlainSubset == PlainSteps \in SUBSET Steps /\ FeedSteps \in SUBSET Steps
BY StepSets

\* The read, the merge and the write of disk_write_song, by one who has not
\* filled the scratch block before.
LEMMA WriteSongText ==
  ASSUME NEW a \in State, ~a.filled
  PROVE  /\ Takes(WriteSong, a, a)
         /\ WriteSong \in Seq(PlainSteps) \ {<<>>}
<1> DEFINE n == a.held + 1
           e == Point(n, a.tested, FALSE)
           f == Point(n, a.tested, TRUE)
           S == PlainSteps
<1>0. /\ a.held \in Nat /\ n \in Nat /\ n >= 1 /\ a.tested \in BOOLEAN
  BY StateParts
<1>1. /\ e \in State /\ e.held = n /\ e.tested = a.tested /\ ~e.filled
      /\ f \in State /\ f.held = n /\ f.tested = a.tested /\ f.filled
  BY <1>0, Points
<1> HIDE DEF e, f
<1>2. Takes(<<"lock">>, a, e)
  BY <1>1, TakesStep DEF Leads, Commands, Uses, Filling
<1>3. Takes(Load, e, f)
  BY <1>1, TakesAccess DEF Load
<1>4. Takes(<<"merge">>, f, f)
  BY <1>1, TakesStep DEF Leads, Commands, Uses, Filling
<1>5. Takes(Store, f, f)
  BY <1>1, TakesAccess DEF Store
<1>6. Takes(<<"unlock">>, f, a)
  BY <1>1, TakesStep DEF Leads, Commands, Uses, Filling
<1>7. <<"lock">> \in Seq(S) /\ <<"merge">> \in Seq(S) /\ <<"unlock">> \in Seq(S)
  BY DEF PlainSteps
<1>8. Load \in Seq(S) /\ Store \in Seq(S)
  BY TextsOfSteps
<1>9. <<"lock">> \o Load \in Seq(S) /\ Takes(<<"lock">> \o Load, a, f)
  BY <1>1, <1>2, <1>3, <1>7, <1>8, PlainSubset, JoinTexts
<1>10. /\ <<"lock">> \o Load \o <<"merge">> \in Seq(S)
       /\ Takes(<<"lock">> \o Load \o <<"merge">>, a, f)
  BY <1>1, <1>4, <1>7, <1>9, PlainSubset, JoinTexts
<1>11. /\ <<"lock">> \o Load \o <<"merge">> \o Store \in Seq(S)
       /\ Takes(<<"lock">> \o Load \o <<"merge">> \o Store, a, f)
  BY <1>1, <1>5, <1>8, <1>10, PlainSubset, JoinTexts
<1>12. WriteSong \in Seq(S) /\ Takes(WriteSong, a, a)
  BY <1>1, <1>6, <1>7, <1>11, PlainSubset, JoinTexts DEF WriteSong
<1>13. WriteSong # <<>>
  BY <1>7, <1>11, JoinOfSteps DEF WriteSong
<1> QED
  BY <1>12, <1>13

\* A call that begins and ends without the bus.
Whole(c, S) == c \in Seq(S) \ {<<>>} /\ Takes(c, Start, Start)

LEMMA AddSongText ==
  ASSUME NEW n \in Nat
  PROVE  Whole(AddSong(n), PlainSteps)
<1> DEFINE e == Holding(1)
           S == PlainSteps
<1>1. e \in State /\ e.held = 1 /\ ~e.tested /\ ~e.filled
  BY Holdings
<1> HIDE DEF e
<1>2. Takes(<<"lock">>, Start, e)
  BY <1>1, StartState, TakesStep DEF Leads, Commands, Uses, Filling
<1>3. Takes(Times(n, "scan"), e, e)
  BY <1>1, TakesTimes DEF Leads, Commands, Uses, Filling
<1>4. Takes(WriteSong, e, e)
  BY <1>1, WriteSongText
<1>5. Takes(<<"unlock">>, e, Start)
  BY <1>1, StartState, TakesStep DEF Leads, Commands, Uses, Filling
<1>6. <<"lock">> \in Seq(S) /\ <<"unlock">> \in Seq(S) /\ <<"lock">> # <<>>
  BY DEF PlainSteps
<1>7. Times(n, "scan") \in Seq(S)
  BY TimesOfSteps DEF PlainSteps
<1>8. WriteSong \in Seq(S)
  BY <1>1, WriteSongText
<1>9. /\ <<"lock">> \o Times(n, "scan") \in Seq(S)
      /\ Takes(<<"lock">> \o Times(n, "scan"), Start, e)
  BY <1>1, <1>2, <1>3, <1>6, <1>7, PlainSubset, StartState, JoinTexts
<1>10. /\ <<"lock">> \o Times(n, "scan") \o WriteSong \in Seq(S)
       /\ Takes(<<"lock">> \o Times(n, "scan") \o WriteSong, Start, e)
  BY <1>1, <1>4, <1>8, <1>9, PlainSubset, StartState, JoinTexts
<1>11. AddSong(n) \in Seq(S) /\ Takes(AddSong(n), Start, Start)
  BY <1>1, <1>5, <1>6, <1>10, PlainSubset, StartState, JoinTexts DEF AddSong
<1>12. AddSong(n) # <<>>
  BY <1>6, <1>7, <1>8, <1>9, <1>10, JoinOfSteps DEF AddSong
<1> QED
  BY <1>11, <1>12 DEF Whole

LEMMA FormatText == Whole(Format, PlainSteps)
<1> DEFINE e == Holding(1)
           f == Point(1, FALSE, TRUE)
           S == PlainSteps
<1>1. /\ e \in State /\ e.held = 1 /\ ~e.tested /\ ~e.filled
      /\ f \in State /\ f.held = 1 /\ ~f.tested /\ f.filled
  <2>1. /\ e \in State /\ e.held = 1 /\ ~e.tested /\ ~e.filled
    BY Holdings
  <2>2. /\ f \in State /\ f.held = 1 /\ ~f.tested /\ f.filled
    BY DEF Point, State
  <2> QED
    BY <2>1, <2>2
<1> HIDE DEF e, f
<1>2. Takes(WriteBlock, Start, Start)
  BY StartState, TakesAccess DEF WriteBlock
<1>3. Takes(<<"lock", "zero">>, Start, f)
  <2>1. Leads("lock", Start, e) /\ Leads("zero", e, f)
    BY <1>1, StartState DEF Leads, Commands, Uses, Filling
  <2> QED
    BY <2>1, <1>1, StartState, TakesTwo
<1>4. Takes(Store, f, f)
  BY <1>1, TakesAccess DEF Store
<1>5. Takes(<<"unlock">>, f, Start)
  BY <1>1, StartState, TakesStep DEF Leads, Commands, Uses, Filling
<1>6. <<"lock", "zero">> \in Seq(S) /\ <<"unlock">> \in Seq(S)
  BY DEF PlainSteps
<1>7. WriteBlock \in Seq(S) /\ Store \in Seq(S) /\ WriteBlock # <<>>
  BY TextsOfSteps
<1>8. /\ WriteBlock \o <<"lock", "zero">> \in Seq(S)
      /\ Takes(WriteBlock \o <<"lock", "zero">>, Start, f)
  BY <1>1, <1>2, <1>3, <1>6, <1>7, PlainSubset, StartState, JoinTexts
<1>9. /\ WriteBlock \o <<"lock", "zero">> \o Store \in Seq(S)
      /\ Takes(WriteBlock \o <<"lock", "zero">> \o Store, Start, f)
  BY <1>1, <1>4, <1>7, <1>8, PlainSubset, StartState, JoinTexts
<1>10. /\ WriteBlock \o <<"lock", "zero">> \o Store \o Store \in Seq(S)
       /\ Takes(WriteBlock \o <<"lock", "zero">> \o Store \o Store, Start, f)
  BY <1>1, <1>4, <1>7, <1>9, PlainSubset, StartState, JoinTexts
<1>11. Format \in Seq(S) /\ Takes(Format, Start, Start)
  BY <1>1, <1>5, <1>6, <1>10, PlainSubset, StartState, JoinTexts DEF Format
<1>12. Format # <<>>
  BY <1>6, <1>7, <1>8, <1>9, <1>10, JoinOfSteps DEF Format
<1> QED
  BY <1>11, <1>12 DEF Whole

\* Every call main makes outside a session but begin and power down.
LEMMA BlockCallTexts ==
  ASSUME NEW c \in BlockCalls
  PROVE  Whole(c, PlainSteps)
<1>1. CASE c = ReadBlock
  BY <1>1, StartState, TakesAccess, TextsOfSteps DEF Whole, ReadBlock
<1>2. CASE c = WriteBlock
  BY <1>2, StartState, TakesAccess, TextsOfSteps DEF Whole, WriteBlock
<1>3. CASE c = ReadSong
  BY <1>3, StartState, ReadSongText DEF Whole
<1>4. CASE c = WriteSong
  BY <1>4, StartState, WriteSongText DEF Whole
<1>5. CASE c = Format
  BY <1>5, FormatText
<1>6. CASE c \in {AddSong(n) : n \in 0 .. MaxScan}
  BY <1>6, BusAssumption, AddSongText
<1> QED
  BY <1>1, <1>2, <1>3, <1>4, <1>5, <1>6 DEF BlockCalls

\* Every fill of the feed thread.
LEMMA FillTexts ==
  ASSUME NEW c \in Fills
  PROVE  Whole(c, FeedSteps)
<1> DEFINE S == FeedSteps
<1>1. PICK n \in 0 .. MaxScan, r \in {ReadBlocks, ReadBlock, ReadBlocks \o ReadBlocks} :
        c = <<"unlessActive">> \o Times(n, "look") \o r
  BY DEF Fills
<1>2. Takes(ReadBlock, Start, Start)
  BY StartState, TakesAccess DEF ReadBlock
<1>3. Takes(ReadBlocks, Start, Start)
  BY StartState, TakesAccess DEF ReadBlocks
<1>4. r \in Seq(S) /\ Takes(r, Start, Start)
  <2>1. ReadBlocks \in Seq(S) /\ ReadBlock \in Seq(S)
    BY TextsOfSteps
  <2>2. /\ ReadBlocks \o ReadBlocks \in Seq(S)
        /\ Takes(ReadBlocks \o ReadBlocks, Start, Start)
    BY <2>1, <1>3, PlainSubset, StartState, JoinTexts
  <2> QED
    BY <1>1, <1>2, <1>3, <2>1, <2>2
<1>5. Takes(<<"unlessActive">>, Start, Start)
  BY StartState, TakesStep DEF Leads, Commands, Uses, Filling
<1>6. n \in Nat /\ Takes(Times(n, "look"), Start, Start)
  BY <1>1, BusAssumption, StartState, TakesTimes DEF Leads, Commands, Uses, Filling
<1>7. /\ <<"unlessActive">> \in Seq(S) /\ <<"unlessActive">> # <<>>
      /\ Times(n, "look") \in Seq(S)
  <2>1. "unlessActive" \in S /\ "look" \in S
    BY DEF FeedSteps
  <2>2. Times(n, "look") \in Seq(S)
    BY <2>1, <1>6, TimesOfSteps
  <2> QED
    BY <2>1, <2>2
<1>8. /\ <<"unlessActive">> \o Times(n, "look") \in Seq(S)
      /\ Takes(<<"unlessActive">> \o Times(n, "look"), Start, Start)
  BY <1>5, <1>6, <1>7, PlainSubset, StartState, JoinTexts
<1>9. c \in Seq(S) /\ Takes(c, Start, Start)
  BY <1>1, <1>4, <1>8, PlainSubset, StartState, JoinTexts
<1>10. c # <<>>
  BY <1>1, <1>4, <1>7, <1>8, JoinOfSteps
<1> QED
  BY <1>9, <1>10 DEF Whole

(***************************************************************************)
(* The calls of a thread.                                                  *)
(***************************************************************************)
Calls(S) == Seq(Seq(S) \ {<<>>})

\* A call that is at its end leaves nothing to the calls behind it.
Follows(calls, a) == Lined(calls, a) \/ (a.held = 0 /\ Lined(calls, Start))

LEMMA CallsParts ==
  ASSUME NEW S \in SUBSET Steps, NEW calls \in Calls(S), calls # <<>>
  PROVE  /\ calls[1] = Head(calls) /\ calls[1] \in Seq(S) /\ calls[1] # <<>>
         /\ Head(Head(calls)) \in S /\ Tail(Head(calls)) \in Seq(S)
         /\ calls[1] \in Seq(Steps) /\ Len(calls) >= 1
         /\ Tail(calls) \in Calls(S) /\ Len(Tail(calls)) = Len(calls) - 1
         /\ \A k \in 1 .. Len(calls) - 1 : Tail(calls)[k] = calls[k + 1]
<1> DEFINE T == Seq(S) \ {<<>>}
<1>1. calls \in Seq(T)
  BY DEF Calls
<1> HIDE DEF T
<1>2. /\ Len(calls) >= 1 /\ Head(calls) = calls[1] /\ calls[1] \in T
      /\ Tail(calls) \in Seq(T) /\ Len(Tail(calls)) = Len(calls) - 1
      /\ \A k \in 1 .. Len(calls) - 1 : Tail(calls)[k] = calls[k + 1]
  BY <1>1
<1>3. calls[1] \in Seq(S) /\ calls[1] # <<>>
  BY <1>2 DEF T
<1>4. Head(calls[1]) \in S /\ Tail(calls[1]) \in Seq(S)
  BY <1>3
<1>5. calls[1] \in Seq(Steps)
  BY <1>3, SeqMonotonic
<1> QED
  BY <1>2, <1>3, <1>4, <1>5 DEF Calls, T

\* A thread that has done its calls.
LEMMA LinedTail ==
  ASSUME NEW S \in SUBSET Steps, NEW calls \in Calls(S), calls # <<>>,
         NEW a, Lined(calls, a)
  PROVE  Lined(Tail(calls), Start)
<1> DEFINE rest == Tail(calls)
<1>1. /\ rest \in Calls(S) /\ Len(rest) = Len(calls) - 1 /\ Len(calls) >= 1
      /\ \A k \in 1 .. Len(calls) - 1 : rest[k] = calls[k + 1]
  BY CallsParts
<1>2. \A k \in 2 .. Len(calls) : \E b \in State :
        b.held = 0 /\ Takes(calls[k], Start, b)
  BY DEF Lined
<1> HIDE DEF rest
<1>3. ASSUME rest = <<>> PROVE Lined(rest, Start)
  BY <1>3, StartState DEF Lined
<1>4. ASSUME rest # <<>> PROVE Lined(rest, Start)
  <2>1. Len(rest) >= 1
    BY <1>1, <1>4 DEF Calls
  <2>2. ASSUME NEW k \in 1 .. Len(rest)
        PROVE  \E b \in State : b.held = 0 /\ Takes(rest[k], Start, b)
    <3>1. k + 1 \in 2 .. Len(calls) /\ rest[k] = calls[k + 1]
      BY <1>1, <2>2
    <3> QED
      BY <3>1, <1>2
  <2>3. \E b \in State : b.held = 0 /\ Takes(rest[1], Start, b)
    BY <2>1, <2>2
  <2>4. \A k \in 2 .. Len(rest) : \E b \in State :
          b.held = 0 /\ Takes(rest[k], Start, b)
    BY <2>1, <2>2
  <2> QED
    BY <1>4, <2>3, <2>4 DEF Lined
<1> QED
  BY <1>3, <1>4 DEF rest

\* The running call goes on with the text x.
LEMMA PutLined ==
  ASSUME NEW S \in SUBSET Steps, NEW calls \in Calls(S), calls # <<>>,
         NEW a, Lined(calls, a), NEW x \in Seq(S),
         NEW b \in State, NEW e \in State, e.held = 0, Takes(x, b, e)
  PROVE  /\ Put(x, calls) \in Calls(S) /\ Len(Put(x, calls)) <= Len(calls)
         /\ Follows(Put(x, calls), b)
<1>1. CASE x = <<>>
  <2>1. Put(x, calls) = Tail(calls)
    BY <1>1 DEF Put
  <2>2. b.held = 0
    <3>1. PICK s \in Seq(State) : Len(s) = Len(x) + 1 /\ s[1] = b /\ s[Len(s)] = e
      BY DEF Takes
    <3>2. Len(x) = 0
      BY <1>1
    <3> QED
      BY <3>1, <3>2
  <2> QED
    BY <2>1, <2>2, CallsParts, LinedTail DEF Follows, Calls
<1>2. CASE x # <<>>
  <2> DEFINE T == Seq(S) \ {<<>>}
             rest == [calls EXCEPT ![1] = x]
  <2>1. Put(x, calls) = rest
    BY <1>2 DEF Put
  <2>2. calls \in Seq(T) /\ x \in T /\ Len(calls) >= 1
    BY <1>2, CallsParts DEF Calls
  <2> HIDE DEF T
  <2>3. rest \in Seq(T) /\ Len(rest) = Len(calls) /\ rest[1] = x
    BY <2>2, ExceptSeq
  <2>4. \A k \in 2 .. Len(calls) : rest[k] = calls[k]
    BY <2>2, ExceptSeq
  <2> HIDE DEF rest
  <2>5. \A k \in 2 .. Len(rest) : \E f \in State :
          f.held = 0 /\ Takes(rest[k], Start, f)
    BY <2>3, <2>4 DEF Lined
  <2>6. rest # <<>>
    BY <2>2, <2>3
  <2>7. Lined(rest, b)
    BY <2>3, <2>5, <2>6 DEF Lined
  <2> QED
    BY <2>1, <2>2, <2>3, <2>7 DEF Follows, Calls, T
<1> QED
  BY <1>1, <1>2

\* One step of the running call.
LEMMA AdvanceLined ==
  ASSUME NEW S \in SUBSET Steps, NEW calls \in Calls(S), calls # <<>>,
         NEW a \in State, Lined(calls, a)
  PROVE  /\ Advance(calls) \in Calls(S) /\ Len(Advance(calls)) <= Len(calls)
         /\ \E b \in State : /\ Leads(Head(Head(calls)), a, b)
                             /\ Follows(Advance(calls), b)
<1>1. PICK e \in State : e.held = 0 /\ Takes(calls[1], a, e)
  BY DEF Lined
<1>2. PICK b \in State :
        Leads(Head(Head(calls)), a, b) /\ Takes(Tail(Head(calls)), b, e)
  BY <1>1, CallsParts, TakesTail
<1>3. /\ Advance(calls) \in Calls(S) /\ Len(Advance(calls)) <= Len(calls)
      /\ Follows(Advance(calls), b)
  BY <1>1, <1>2, CallsParts, PutLined DEF Advance
<1> QED
  BY <1>2, <1>3

\* A step that fails: the releases that are left.
LEMMA UnwindLined ==
  ASSUME NEW S \in SUBSET Steps, "unlock" \in S, NEW calls \in Calls(S),
         calls # <<>>, NEW a, Lined(calls, a), NEW n \in Nat
  PROVE  LET c == Put(Times(n, "unlock"), calls)
         IN  c \in Calls(S) /\ Len(c) <= Len(calls) /\ Follows(c, Holding(n))
BY TimesOfSteps, TakesUnlocks, Holdings, StartState, PutLined

\* An entry the scan of disk_add_song reads.
LEMMA ScanLined ==
  ASSUME NEW S \in SUBSET Steps, ReadSong \in Seq(S), NEW calls \in Calls(S),
         calls # <<>>, NEW a \in State, Lined(calls, a),
         Head(Head(calls)) = "scan"
  PROVE  LET c == Put(ReadSong \o Tail(Head(calls)), calls)
         IN  c \in Calls(S) /\ Len(c) <= Len(calls) /\ Follows(c, a)
<1>1. PICK e \in State : e.held = 0 /\ Takes(calls[1], a, e)
  BY DEF Lined
<1>2. PICK b \in State : Leads("scan", a, b) /\ Takes(Tail(Head(calls)), b, e)
  BY <1>1, CallsParts, TakesTail
<1>3. b.held = a.held /\ (b.tested => a.tested) /\ ~b.filled
  BY <1>2 DEF Leads
<1>4. Takes(ReadSong, a, b)
  BY <1>3, ReadSongText
<1>5. /\ ReadSong \o Tail(Head(calls)) \in Seq(S)
      /\ Takes(ReadSong \o Tail(Head(calls)), a, e)
  BY <1>2, <1>4, CallsParts, JoinTexts
<1> QED
  BY <1>1, <1>5, PutLined

\* An entry change_song has a look at.
LEMMA LookLined ==
  ASSUME NEW S \in SUBSET Steps, ReadSong \in Seq(S), NEW calls \in Calls(S),
         calls # <<>>, NEW a \in State, Lined(calls, a),
         Head(Head(calls)) = "look"
  PROVE  LET c == <<ReadSong>> \o Advance(calls)
         IN  c \in Calls(S) /\ Lined(c, Start) /\ a.held = 0
<1> DEFINE rest == Advance(calls)
           T == Seq(S) \ {<<>>}
           c == <<ReadSong>> \o rest
<1>1. PICK b \in State : Leads("look", a, b) /\ Follows(rest, b)
  BY AdvanceLined
<1>2. b = Start /\ a.held = 0
  BY <1>1, StartState DEF Leads
<1>3. Lined(rest, Start) /\ rest \in Seq(T)
  BY <1>1, <1>2, AdvanceLined DEF Follows, Calls
<1>4. ReadSong \in T
  BY StartState, ReadSongText
<1> HIDE DEF rest, T
<1>5. /\ c \in Seq(T) /\ Len(c) = 1 + Len(rest) /\ c[1] = ReadSong /\ c # <<>>
      /\ \A k \in 2 .. 1 + Len(rest) : c[k] = rest[k - 1]
  BY <1>3, <1>4
<1> HIDE DEF c
<1>6. Takes(c[1], Start, Start)
  BY <1>5, StartState, ReadSongText
<1>7. ASSUME NEW k \in 2 .. Len(c)
      PROVE  \E f \in State : f.held = 0 /\ Takes(c[k], Start, f)
  <2>1. rest # <<>> /\ k - 1 \in 1 .. Len(rest) /\ c[k] = rest[k - 1]
    BY <1>3, <1>5
  <2>2. CASE k - 1 = 1
    BY <2>1, <2>2, <1>3 DEF Lined
  <2>3. CASE k - 1 # 1
    <3>1. k - 1 \in 2 .. Len(rest)
      BY <2>1, <2>3
    <3> QED
      BY <2>1, <3>1, <1>3 DEF Lined
  <2> QED
    BY <2>2, <2>3
<1>8. Lined(c, Start)
  BY <1>5, <1>6, <1>7, StartState DEF Lined
<1> QED
  BY <1>2, <1>5, <1>8 DEF c, rest, Calls, T

\* A call of its own.
LEMMA WholeLined ==
  ASSUME NEW S \in SUBSET Steps, NEW c, Whole(c, S)
  PROVE  <<c>> \in Calls(S) /\ Lined(<<c>>, Start) /\ Len(<<c>>) = 1
<1> DEFINE calls == <<c>>
           T == Seq(S) \ {<<>>}
<1>1. c \in T /\ Takes(c, Start, Start)
  BY DEF Whole
<1> HIDE DEF T
<1>2. calls \in Seq(T) /\ Len(calls) = 1 /\ calls[1] = c /\ calls # <<>>
  BY <1>1
<1> HIDE DEF calls
<1>3. Lined(calls, Start)
  BY <1>1, <1>2, StartState DEF Lined
<1> QED
  BY <1>2, <1>3 DEF calls, Calls, T

(***************************************************************************)
(* A thread and the outline of its calls.                                  *)
(***************************************************************************)
Mine(t) == owner = t /\ scratch = [of |-> t, good |-> TRUE]

\* What the outline says of the running step is so.
Fits(t, a) ==
  /\ a.held = Taken(t)
  /\ a.tested => inited
  /\ a.filled => Mine(t)

Working(t, S) ==
  /\ code[t] \in Calls(S)
  /\ \E a \in State : Fits(t, a) /\ Lined(code[t], a)

Function == code = [t \in Threads |-> code[t]]

\* The lock; main never waits, because it does not run while the feed thread
\* holds the bus.
BusInv ==
  /\ owner \in Threads \cup {"none"} /\ depth \in Nat
  /\ (owner = "none") = (depth = 0)
  /\ waiting \subseteq {"feed"}

LEMMA WorkingFrom ==
  ASSUME NEW t \in Threads, NEW S, code'[t] \in Calls(S),
         NEW b \in State, Fits(t, b)', Follows(code'[t], b)
  PROVE  Working(t, S)'
<1>1. CASE Lined(code'[t], b)
  BY <1>1 DEF Working
<1>2. CASE b.held = 0 /\ Lined(code'[t], Start)
  <2>1. Fits(t, Start)'
    BY <1>2, StartState DEF Fits
  <2> QED
    BY <1>2, <2>1, StartState DEF Working
<1> QED
  BY <1>1, <1>2 DEF Follows

\* A step done.
LEMMA GoesWorking ==
  ASSUME NEW t \in Threads, NEW S \in SUBSET Steps, Working(t, S),
         code[t] # <<>>, code'[t] = Advance(code[t]),
         \A a, b \in State : Fits(t, a) /\ Leads(Step(t), a, b) => Fits(t, b)'
  PROVE  Working(t, S)' /\ Len(code'[t]) <= Len(code[t])
<1>1. PICK a \in State : Fits(t, a) /\ Lined(code[t], a)
  BY DEF Working
<1>2. PICK b \in State : Leads(Step(t), a, b) /\ Follows(code'[t], b)
  BY <1>1, AdvanceLined DEF Working, Step
<1>3. Fits(t, b)'
  BY <1>1, <1>2
<1> QED
  BY <1>1, <1>2, <1>3, AdvanceLined, WorkingFrom DEF Working

LEMMA HeldTypes ==
  ASSUME BusInv, NEW t \in Threads
  PROVE  /\ Held(t) \in Nat /\ (Held(t) >= 1 <=> owner = t)
         /\ Taken(t) \in Int /\ Taken(t) <= Held(t)
<1>1. Held(t) \in Nat /\ (Held(t) >= 1 <=> owner = t)
  BY DEF BusInv, Held, Threads
<1> QED BY <1>1 DEF Taken

\* A step failed.
LEMMA FailsWorking ==
  ASSUME BusInv, NEW t \in Threads, NEW S \in SUBSET Steps, "unlock" \in S,
         Working(t, S), code[t] # <<>>,
         code'[t] = Put(Unwind(t), code[t]), Taken(t)' = Taken(t)
  PROVE  Working(t, S)' /\ Len(code'[t]) <= Len(code[t])
<1>1. PICK a \in State : Fits(t, a) /\ Lined(code[t], a)
  BY DEF Working
<1>2. PICK n \in Nat : n = Taken(t)
  BY <1>1, StateParts DEF Fits
<1>3. code'[t] = Put(Times(n, "unlock"), code[t])
  BY <1>2 DEF Unwind
<1>4. Fits(t, Holding(n))'
  BY <1>2, Holdings DEF Fits
<1>5. /\ code'[t] \in Calls(S) /\ Len(code'[t]) <= Len(code[t])
      /\ Follows(code'[t], Holding(n))
  BY <1>1, <1>2, <1>3, UnwindLined DEF Working
<1> QED
  BY <1>2, <1>4, <1>5, Holdings, WorkingFrom

\* The other thread made a step.
LEMMA StaysWorking ==
  ASSUME NEW t \in Threads, NEW S, Working(t, S), code'[t] = code[t],
         Taken(t)' = Taken(t), inited => inited',
         Held(t) = 0 \/ (Mine(t) => Mine(t)')
  PROVE  Working(t, S)'
<1>1. PICK a \in State : Fits(t, a) /\ Lined(code[t], a)
  BY DEF Working
<1>2. Fits(t, a)'
  BY <1>1, StateParts DEF Fits, Taken
<1> QED
  BY <1>1, <1>2 DEF Working

\* What a thread that may make a step x is sure of.
LEMMA Runs ==
  ASSUME NEW t \in Threads, NEW S \in SUBSET Steps, Working(t, S),
         NEW X, At(t, X), BusInv
  PROVE  /\ code[t] # <<>> /\ t \notin waiting /\ Step(t) \in X /\ Step(t) \in S
         /\ Step(t) \in {"unlock"} \cup Commands \cup Filling => owner = t /\ depth >= 1
         /\ Step(t) \in Commands => inited
         /\ Step(t) \in Uses => Mine(t)
<1>1. code[t] # <<>> /\ t \notin waiting /\ Step(t) \in X
  BY DEF At, MayRun, Runnable
<1>2. PICK a \in State : Fits(t, a) /\ Lined(code[t], a)
  BY DEF Working
<1>3. PICK b \in State : Leads(Step(t), a, b)
  BY <1>1, <1>2, AdvanceLined DEF Working, Step
<1>4. Step(t) \in S
  BY <1>1, CallsParts DEF Working, Step
<1>5. Step(t) \in {"unlock"} \cup Commands \cup Filling => a.held >= 1
  BY <1>3, StateParts DEF Leads
<1> QED
  BY <1>1, <1>2, <1>3, <1>4, <1>5, StateParts, HeldTypes DEF Leads, Fits, Held, BusInv

(***************************************************************************)
(* The steps of the thread itself.                                         *)
(***************************************************************************)
StepSet(t) == IF t = "feed" THEN FeedSteps ELSE PlainSteps

LEMMA StepSetParts ==
  ASSUME NEW t \in Threads
  PROVE  /\ StepSet(t) \in SUBSET Steps /\ "unlock" \in StepSet(t)
         /\ ReadSong \in Seq(StepSet(t))
         /\ "cmd23" \notin StepSet(t) /\ "cmd25" \notin StepSet(t)
         /\ t = "main" => "look" \notin StepSet(t)
<1>1. ReadSong \in Seq(FeedSteps) /\ ReadSong \in Seq(PlainSteps)
  BY StartState, ReadSongText
<1> QED
  BY <1>1, PlainSubset DEF StepSet, FeedSteps, PlainSteps, Threads

\* Its calls have an outline still, and there are not more of them.
Keeps(t) ==
  /\ Working(t, StepSet(t))'
  /\ t = "main" => Len(code'[t]) <= Len(code[t])

\* Whoever is between two steps.
Ready(t) == Function /\ BusInv /\ t \in Threads /\ Working(t, StepSet(t))

LEMMA GoesKeeps ==
  ASSUME NEW t, Ready(t), code[t] # <<>>, Goes(t),
         \A a, b \in State : Fits(t, a) /\ Leads(Step(t), a, b) => Fits(t, b)'
  PROVE  Keeps(t)
<1>1. code'[t] = Advance(code[t])
  BY DEF Goes, Ready, Function
<1> QED
  BY <1>1, GoesWorking, StepSetParts DEF Ready, Keeps

LEMMA FailsKeeps ==
  ASSUME NEW t, Ready(t), code[t] # <<>>, Fails(t), Step(t) \in StepSet(t),
         UNCHANGED <<owner, depth, active>>
  PROVE  Keeps(t)
<1>1. code'[t] = Put(Unwind(t), code[t])
  BY StepSetParts DEF Fails, AfterFailure, Ready, Function
<1> QED
  BY <1>1, FailsWorking, StepSetParts DEF Ready, Keeps, Taken, Held

LEMMA LockKeeps ==
  ASSUME NEW t, Ready(t), Lock(t)
  PROVE  Keeps(t)
<1>1. code[t] # <<>> /\ Step(t) = "lock"
  BY Runs, StepSetParts DEF Ready, Lock
<1>2. CASE owner \in {"none", t}
  <2>1. ASSUME NEW a \in State, NEW b \in State, Fits(t, a), Leads(Step(t), a, b)
        PROVE  Fits(t, b)'
    BY <1>1, <1>2, <2>1, StateParts
    DEF Lock, lock, Ready, BusInv, Fits, Leads, Taken, Held, Mine, Filling, Threads
  <2> QED
    BY <1>1, <1>2, <2>1, GoesKeeps DEF Lock
<1>3. CASE owner \notin {"none", t}
  BY <1>3, StaysWorking DEF Lock, Ready, Keeps, Taken, Held, Mine
<1> QED
  BY <1>2, <1>3

LEMMA UnlockKeeps ==
  ASSUME NEW t, Ready(t), Unlock(t)
  PROVE  Keeps(t)
<1>1. /\ code[t] # <<>> /\ Step(t) = "unlock" /\ owner = t /\ depth >= 1
      /\ t \notin waiting
  BY Runs, StepSetParts DEF Ready, Unlock
<1>2. code'[t] = Advance(code[t])
  BY <1>1 DEF Unlock, Goes, Ready, Function, Threads, BusInv
<1>3. IF depth > 1 THEN owner' = t /\ depth' = depth - 1 ELSE owner' # t
  BY <1>1 DEF Unlock, Ready, BusInv, Threads
<1>4. ASSUME NEW a \in State, NEW b \in State, Fits(t, a), Leads(Step(t), a, b)
      PROVE  Fits(t, b)'
  <2>1. /\ a.held = b.held + 1 /\ b.held \in Nat /\ depth \in Nat
        /\ a.held = IF t = "main" /\ active THEN depth - 1 ELSE depth
    BY <1>1, <1>4, StateParts DEF Leads, Fits, Taken, Held, Ready, BusInv
  <2>2. b.held = Taken(t)'
    <3>1. active' = active
      BY DEF Unlock
    <3> QED BY <1>1, <1>3, <2>1, <3>1 DEF Taken, Held
  <2>3. b.tested => inited'
    BY <1>1, <1>4 DEF Leads, Fits, Unlock
  <2>4. b.filled => Mine(t)'
    <3>1. b.filled => b.held >= 1 /\ a.filled
      BY <1>1, <1>4, StateParts DEF Leads, Filling
    <3>2. b.held >= 1 => owner' = t
      BY <1>3, <2>1
    <3> QED
      BY <1>4, <3>1, <3>2 DEF Fits, Mine, Unlock
  <2> QED
    BY <2>2, <2>3, <2>4 DEF Fits
<1> QED
  BY <1>1, <1>2, <1>4, GoesWorking, StepSetParts DEF Ready, Keeps

LEMMA TestKeeps ==
  ASSUME NEW t, Ready(t), Test(t)
  PROVE  Keeps(t)
<1>1. code[t] # <<>> /\ Step(t) \in Tests /\ Step(t) \in StepSet(t)
  BY Runs, StepSetParts DEF Ready, Test
<1>2. CASE Passes(Step(t))
  <2>1. ASSUME NEW a \in State, NEW b \in State, Fits(t, a), Leads(Step(t), a, b)
        PROVE  Fits(t, b)'
    BY <1>1, <1>2, <2>1 DEF Test, Tests, lock, Passes, Fits, Leads, Taken, Held, Mine, Filling
  <2> QED
    BY <1>1, <1>2, <2>1, GoesKeeps DEF Test, GoesOrFails
<1>3. CASE ~Passes(Step(t))
  BY <1>1, <1>3, FailsKeeps DEF Test, GoesOrFails, lock
<1> QED
  BY <1>2, <1>3

LEMMA EntryKeeps ==
  ASSUME NEW t, Ready(t), Entry(t)
  PROVE  Keeps(t)
<1> DEFINE S == StepSet(t)
<1>1. code[t] # <<>> /\ Step(t) \in {"scan", "look"} /\ Step(t) \in S
  BY Runs, StepSetParts DEF Ready, Entry
<1>2. PICK a \in State : Fits(t, a) /\ Lined(code[t], a)
  BY DEF Ready, Working
<1>3. Fits(t, a)'
  BY <1>2 DEF Fits, Entry, lock, Taken, Held, Mine
<1>4. S \in SUBSET Steps /\ ReadSong \in Seq(S) /\ code[t] \in Calls(S)
  BY StepSetParts DEF Ready, Working
<1>5. CASE Step(t) = "scan"
  <2>1. code'[t] = Put(ReadSong \o Tail(Head(code[t])), code[t])
    BY <1>5 DEF Entry, Ready, Function
  <2>2. /\ code'[t] \in Calls(S) /\ Follows(code'[t], a)
        /\ Len(code'[t]) <= Len(code[t])
    BY <1>1, <1>2, <1>4, <1>5, <2>1, ScanLined DEF Step
  <2> QED
    BY <1>3, <2>2, WorkingFrom DEF Keeps, Ready
<1>6. CASE Step(t) = "look"
  <2>1. code'[t] = <<ReadSong>> \o Advance(code[t])
    BY <1>6 DEF Entry, Ready, Function
  <2>2. code'[t] \in Calls(S) /\ Lined(code'[t], Start) /\ a.held = 0
    BY <1>1, <1>2, <1>4, <1>6, <2>1, LookLined DEF Step
  <2>3. t # "main"
    BY <1>1, <1>6, StepSetParts DEF Ready
  <2>4. Follows(code'[t], a)
    BY <2>2 DEF Follows
  <2> QED
    BY <1>3, <2>2, <2>3, <2>4, WorkingFrom DEF Keeps, Ready
<1> QED
  BY <1>1, <1>5, <1>6

LEMMA ReadKeeps ==
  ASSUME NEW t, Ready(t), Read(t)
  PROVE  Keeps(t)
<1>1. /\ code[t] # <<>> /\ Step(t) \in {"read", "load"} /\ Step(t) \in StepSet(t)
      /\ owner = t
  BY Runs, StepSetParts DEF Ready, Read, Commands
<1>2. UNCHANGED <<owner, depth, inited, active>>
  BY DEF Read, lock
<1>3. PICK ok \in Replies, crc \in Outcomes("crc") :
       /\ LET again == Retry(ok /\ ~crc)
          IN  /\ tries' = IF again THEN tries + 1 ELSE 0
              /\ IF again THEN UNCHANGED code ELSE GoesOrFails(t, ok /\ crc)
       /\ scratch' = IF Step(t) = "load" /\ ok
                     THEN [of |-> t, good |-> crc] ELSE scratch
  BY DEF Read
<1>4. ok \in BOOLEAN /\ crc \in BOOLEAN
  BY DEF Outcomes, Replies, Answers, Listening
<1>5. CASE Retry(ok /\ ~crc)
  <2>1. code' = code /\ Len(code'[t]) <= Len(code[t])
    BY <1>3, <1>5, CallsParts, StepSetParts, <1>1 DEF Ready, Working, Calls
  <2>2. PICK a \in State : Fits(t, a) /\ Lined(code[t], a)
    BY DEF Ready, Working
  <2>3. PICK b \in State : Leads(Step(t), a, b)
    BY <1>1, <2>2, AdvanceLined, StepSetParts DEF Ready, Working, Step
  <2>4. CASE Step(t) = "load"
    <3>1. Fits(t, a)'
      BY <1>2, <2>2, <2>3, <2>4 DEF Fits, Taken, Held, Leads, Filling
    <3> QED
      BY <2>1, <2>2, <3>1 DEF Keeps, Ready, Working
  <2>5. CASE Step(t) = "read"
    <3>1. Fits(t, a)'
      BY <1>2, <1>3, <2>2, <2>5 DEF Fits, Taken, Held, Mine
    <3> QED
      BY <2>1, <2>2, <3>1 DEF Keeps, Ready, Working
  <2> QED
    BY <1>1, <2>4, <2>5
<1>6. CASE ~Retry(ok /\ ~crc) /\ ok /\ crc
  <2>1. Goes(t)
    BY <1>3, <1>6 DEF GoesOrFails
  <2>2. ASSUME NEW a \in State, NEW b \in State, Fits(t, a), Leads(Step(t), a, b)
        PROVE  Fits(t, b)'
    <3>1. b.held = Taken(t)' /\ (b.tested => inited')
      BY <1>1, <1>2, <2>2 DEF Fits, Taken, Held, Leads
    <3>2. CASE Step(t) = "load"
      BY <1>1, <1>2, <1>3, <1>4, <1>6, <3>1, <3>2 DEF Fits, Mine
    <3>3. CASE Step(t) = "read"
      BY <1>1, <1>2, <1>3, <2>2, <3>1, <3>3 DEF Fits, Mine, Leads, Filling
    <3> QED
      BY <1>1, <3>2, <3>3
  <2> QED
    BY <1>1, <2>1, <2>2, GoesKeeps
<1>7. CASE ~Retry(ok /\ ~crc) /\ ~(ok /\ crc)
  BY <1>1, <1>2, <1>3, <1>7, FailsKeeps DEF GoesOrFails
<1> QED
  BY <1>5, <1>6, <1>7

\* A step that leaves the lock, g_initialized and the scratch block alone.
LEMMA QuietKeeps ==
  ASSUME NEW t, Ready(t), code[t] # <<>>, Step(t) \in StepSet(t),
         Step(t) \notin {"lock", "unlock", "test"} \cup Filling,
         UNCHANGED <<owner, depth, inited, active, scratch>>,
         Goes(t) \/ Fails(t) \/ UNCHANGED code
  PROVE  Keeps(t)
<1>1. CASE Goes(t)
  <2>1. ASSUME NEW a \in State, NEW b \in State, Fits(t, a), Leads(Step(t), a, b)
        PROVE  Fits(t, b)'
    BY <2>1 DEF Fits, Taken, Held, Leads, Mine
  <2> QED
    BY <1>1, <2>1, GoesKeeps
<1>2. CASE Fails(t)
  BY <1>2, FailsKeeps
<1>3. CASE UNCHANGED code
  <2>1. Len(code'[t]) <= Len(code[t])
    BY <1>3, CallsParts, StepSetParts DEF Ready, Working
  <2> QED
    BY <1>3, <2>1, StaysWorking DEF Ready, Keeps, Taken, Held, Mine
<1> QED
  BY <1>1, <1>2, <1>3

LEMMA ReadNKeeps ==
  ASSUME NEW t, Ready(t), ReadN(t)
  PROVE  Keeps(t)
<1>1. /\ code[t] # <<>> /\ Step(t) = "readN" /\ Step(t) \in StepSet(t)
  BY Runs, StepSetParts DEF Ready, ReadN
<1>2. Goes(t) \/ Fails(t) \/ UNCHANGED code
  BY DEF ReadN, GoesOrFails
<1> QED
  BY <1>1, <1>2, QuietKeeps DEF ReadN, lock, Filling

LEMMA WriteKeeps ==
  ASSUME NEW t, Ready(t), Write(t)
  PROVE  Keeps(t)
<1>1. /\ code[t] # <<>> /\ Step(t) \in {"write", "store"} /\ Step(t) \in StepSet(t)
  BY Runs, StepSetParts DEF Ready, Write
<1>2. Goes(t) \/ Fails(t)
  BY DEF Write, GoesOrFails
<1> QED
  BY <1>1, <1>2, QuietKeeps DEF Write, lock, Filling

LEMMA ScratchKeeps ==
  ASSUME NEW t, Ready(t), Scratch(t)
  PROVE  Keeps(t)
<1>1. /\ code[t] # <<>> /\ Step(t) \in {"copy", "merge", "zero"}
      /\ Step(t) \in StepSet(t) /\ Goes(t)
      /\ Step(t) = "zero" => owner = t
  BY Runs, StepSetParts DEF Ready, Scratch, Filling
<1>2. ASSUME NEW a \in State, NEW b \in State, Fits(t, a), Leads(Step(t), a, b)
      PROVE  Fits(t, b)'
  BY <1>1, <1>2 DEF Scratch, lock, Fits, Taken, Held, Leads, Mine, Filling
<1> QED
  BY <1>1, <1>2, GoesKeeps

\* Every step of the feed thread, and every step of main in a plain call.
LEMMA OwnKeeps ==
  ASSUME NEW t, Ready(t), Common(t) \/ ReadN(t) \/ Write(t)
  PROVE  Keeps(t)
BY LockKeeps, UnlockKeeps, TestKeeps, EntryKeeps, ReadKeeps, ScratchKeeps,
   ReadNKeeps, WriteKeeps DEF Common

(***************************************************************************)
(* The feed thread, and main between the steps of the feed thread.         *)
(***************************************************************************)
FeedInv ==
  /\ Working("feed", FeedSteps)
  /\ code["feed"] # <<>> => phase \in {"run", "sleep"}
  /\ "feed" \in waiting => /\ owner = "main" /\ code["feed"] # <<>>
                           /\ Step("feed") = "lock"

\* Main is in no call, or in one with an outline, in a session or outside one.
Plain ==
  /\ phase = "run" /\ inited
  /\ Working("main", PlainSteps) /\ Len(code["main"]) <= 1

\* The other calls of main, each with what holds before each of its steps:
\* main holds the bus n times outside a session, in one, or at boot.
Out(n) == phase = "run" /\ ~active /\ inited /\ Held("main") = n
In(n) == phase = "run" /\ active /\ inited /\ Held("main") = n
Up(n) == phase = "boot" /\ ~active /\ Held("main") = n

Session(c) ==
  \/ c \in {Begin, <<"lock", "claim", "cmd23", "cmd25">>} /\ Out(0)
  \/ c = <<"claim", "cmd23", "cmd25">> /\ Out(1)
  \/ c \in {<<"cmd23", "cmd25">>, <<"cmd25">>, <<"release", "unlock">>}
     /\ In(1)
  \/ c = Block /\ In(1)
  \/ c \in {<<"data", "unlock">>, <<"unlock">>} /\ In(2)
  \/ c \in {End, <<"stop", "release", "flush", "unlock">>,
            <<"release", "flush", "unlock">>} /\ In(1)
  \/ c \in {<<"flush", "unlock">>, <<"unlock">>} /\ Out(1)

Down(c) ==
  \/ c = PowerDown /\ Out(0)
  \/ c \in {<<"flush", "unlock", "uninit", "cut">>, <<"unlock", "uninit", "cut">>}
     /\ Out(1)
  \/ c = <<"uninit", "cut">> /\ Out(0)
  \/ c = <<"cut">> /\ phase = "run" /\ ~active /\ ~inited /\ Held("main") = 0

Booting(c) ==
  \/ c = Boot /\ Up(0) /\ ~inited
  \/ c \in {<<"cycle", "identify", "extcsd", "cache", "status", "unlock">>,
            <<"identify", "extcsd", "cache", "status", "unlock">>,
            <<"extcsd", "cache", "status", "unlock">>,
            <<"cache", "status", "unlock">>, <<"status", "unlock">>}
     /\ Up(1) /\ ~inited
  \/ c = <<"unlock">> /\ Up(1)

\* At the end.
Idle ==
  phase \in {"blink", "sleep"} /\ ~active /\ ~inited /\ Held("main") = 0

Scripted(c) == code["main"] = <<c>> /\ (Session(c) \/ Down(c) \/ Booting(c))

MainInv ==
  \/ Plain
  \/ code["main"] = <<>> /\ Idle
  \/ \E c \in Seq(Steps) \ {<<>>} : Scripted(c)

IndInv == Function /\ BusInv /\ FeedInv /\ MainInv

\* A thread that is in no call.
LEMMA NoCall ==
  ASSUME NEW t \in Threads, NEW S
  PROVE  /\ code[t] = <<>> /\ Taken(t) = 0 => Working(t, S)
         /\ code[t] = <<>> /\ Working(t, S) => Taken(t) = 0
<1>1. ASSUME code[t] = <<>>, Taken(t) = 0 PROVE Working(t, S)
  <2>1. code[t] \in Calls(S)
    BY <1>1 DEF Calls
  <2>2. Fits(t, Start) /\ Lined(code[t], Start)
    BY <1>1, StartState DEF Fits, Lined
  <2> QED
    BY <2>1, <2>2, StartState DEF Working
<1>2. ASSUME code[t] = <<>>, Working(t, S) PROVE Taken(t) = 0
  BY <1>2 DEF Working, Fits, Lined
<1> QED
  BY <1>1, <1>2

\* When main makes a step, the feed thread does not hold the bus.
LEMMA MainRuns ==
  ASSUME IndInv, ~Runnable("feed")
  PROVE  /\ owner # "feed" /\ Held("feed") = 0
         /\ waiting = {} => code["feed"] = <<>>
         /\ waiting # {} => owner = "main" /\ waiting = {"feed"}
<1>1. code["feed"] = <<>> => Held("feed") = 0
  BY NoCall DEF IndInv, FeedInv, Threads, Taken
<1>2. code["feed"] = <<>> \/ "feed" \in waiting
  BY DEF Runnable
<1> QED
  BY <1>1, <1>2 DEF IndInv, FeedInv, BusInv, Held

LEMMA FunctionKeeps ==
  ASSUME IndInv, Next
  PROVE  Function'
<1> USE DEF IndInv, Function, Threads
<1>1. ASSUME NEW t \in Threads, Goes(t) \/ Fails(t)
      PROVE  Function'
  BY <1>1 DEF Goes, Fails
<1>2. ASSUME NEW t \in Threads, Common(t) \/ ReadN(t) \/ Write(t)
      PROVE  Function'
  BY <1>1, <1>2 DEF Common, ReadN, Write, Lock, Unlock, Test, Entry, Read,
     Scratch, GoesOrFails
<1>3. CASE MainOnly
  BY <1>1, <1>2, <1>3 DEF MainOnly, Flag, Cmd23, Cmd25, Data, Stop, Flush,
     Cycle, Identify, CacheSwitch, Uninit, Cut, GoesOrFails
<1>4. CASE FeedFill \/ MainCall \/ Reset
  BY <1>4 DEF FeedFill, MainCall, Reset, Fresh
<1> QED
  BY <1>2, <1>3, <1>4 DEF Next, Feed, Main

(***************************************************************************)
(* The steps of the feed thread.                                           *)
(***************************************************************************)
LEMMA FeedStepRuns ==
  ASSUME IndInv, Feed
  PROVE  /\ Runnable("feed") /\ code["feed"] # <<>> /\ waiting = {}
         /\ phase \in {"run", "sleep"} /\ Ready("feed")
         /\ Step("feed") \in FeedSteps
<1>1. \E X : At("feed", X)
  BY DEF Feed, Common, ReadN, Lock, Unlock, Test, Entry, Read, Scratch
<1>2. Runnable("feed") /\ code["feed"] # <<>> /\ "feed" \notin waiting
  BY <1>1 DEF At, MayRun, Runnable
<1>3. waiting = {} /\ phase \in {"run", "sleep"}
  BY <1>2 DEF IndInv, BusInv, FeedInv
<1>4. Ready("feed")
  BY DEF Ready, IndInv, FeedInv, StepSet, Threads
<1>5. Step("feed") \in FeedSteps
  BY <1>1, <1>4, Runs, PlainSubset DEF IndInv, FeedInv, Threads
<1> QED
  BY <1>2, <1>3, <1>4, <1>5

\* What a step of the feed thread leaves alone.
LEMMA FeedLeavesMain ==
  ASSUME IndInv, Feed
  PROVE  /\ code'["main"] = code["main"] /\ Held("main")' = Held("main")
         /\ UNCHANGED <<inited, cacheOn, active, phase>>
         /\ UNCHANGED scratch \/ Held("main") = 0
         /\ BusInv' /\ ("feed" \in waiting' => owner' = "main" /\ UNCHANGED code)
<1> USE FeedStepRuns DEF IndInv, Function, BusInv, Threads
<1>1. CASE Lock("feed")
  BY <1>1 DEF Lock, lock, Goes, Held
<1>2. CASE Unlock("feed")
  <2>1. owner = "feed" /\ depth >= 1
    BY <1>2, Runs, PlainSubset DEF Unlock, FeedInv
  <2>2. /\ UNCHANGED <<inited, cacheOn, active, phase, scratch, waiting>>
        /\ Goes("feed")
    BY <1>2, <2>1 DEF Unlock
  <2>3. code'["main"] = code["main"]
    BY <2>2 DEF Goes
  <2>4. Held("main")' = Held("main") /\ BusInv'
    BY <1>2, <2>1 DEF Unlock, Held
  <2> QED
    BY <2>2, <2>3, <2>4
<1>3. CASE Test("feed") \/ Entry("feed") \/ ReadN("feed")
  <2>1. UNCHANGED <<owner, depth, waiting, inited, cacheOn, active, phase, scratch>>
    BY <1>3 DEF Test, Entry, ReadN, lock
  <2>2. code'["main"] = code["main"]
    BY <1>3 DEF Test, Entry, ReadN, GoesOrFails, Goes, Fails
  <2> QED
    BY <2>1, <2>2 DEF Held
<1>4. CASE Read("feed")
  <2>1. owner = "feed"
    BY <1>4, Runs, PlainSubset DEF Read, FeedInv, Commands
  <2>2. UNCHANGED <<owner, depth, waiting, inited, cacheOn, active, phase>>
    BY <1>4 DEF Read, lock
  <2>3. code'["main"] = code["main"]
    BY <1>4 DEF Read, GoesOrFails, Goes, Fails
  <2> QED
    BY <2>1, <2>2, <2>3 DEF Held
<1>5. CASE Scratch("feed")
  <2>1. Step("feed") # "zero"
    BY DEF FeedSteps
  <2>2. /\ UNCHANGED <<owner, depth, waiting, inited, cacheOn, active, phase, scratch>>
        /\ Goes("feed")
    BY <1>5, <2>1 DEF Scratch, lock
  <2>3. code'["main"] = code["main"]
    BY <2>2 DEF Goes
  <2> QED
    BY <2>2, <2>3 DEF Held
<1> QED
  BY <1>1, <1>2, <1>3, <1>4, <1>5 DEF Feed, Common

LEMMA FeedKeeps ==
  ASSUME IndInv, Feed
  PROVE  IndInv'
<1>1. Working("feed", FeedSteps)'
  BY FeedStepRuns, OwnKeeps DEF Feed, Keeps, StepSet
<1>2. FeedInv'
  <2>1. "feed" \in waiting' => Step("feed") = "lock"
    BY FeedStepRuns DEF Feed, Common, Lock, Unlock, Test, Entry, Read, ReadN,
       Scratch, lock, At
  <2> QED
    BY <1>1, <2>1, FeedStepRuns, FeedLeavesMain DEF FeedInv, Step
<1>3. CASE Plain
  <2>1. Working("main", PlainSteps)'
    BY <1>3, FeedLeavesMain, StaysWorking DEF Plain, Threads, Mine, Held, Taken
  <2>2. Plain'
    BY <1>3, <2>1, FeedLeavesMain DEF Plain
  <2> QED
    BY <1>2, <2>2, FeedLeavesMain, FunctionKeeps DEF IndInv, MainInv, Next
<1>4. CASE code["main"] = <<>> /\ Idle
  BY <1>2, <1>4, FeedLeavesMain, FunctionKeeps
     DEF IndInv, MainInv, Idle, Next
<1>5. CASE \E c \in Seq(Steps) \ {<<>>} : Scripted(c)
  <2>1. PICK c \in Seq(Steps) \ {<<>>} : Scripted(c)
    BY <1>5
  <2>2. Scripted(c)'
    BY <2>1, FeedLeavesMain DEF Scripted, Session, Down, Booting, Out, In, Up
  <2> QED
    BY <1>2, <2>2, FeedLeavesMain, FunctionKeeps DEF IndInv, MainInv, Next
<1> QED
  BY <1>3, <1>4, <1>5 DEF IndInv, MainInv

(***************************************************************************)
(* The steps of main in a session, at power down and at boot.              *)
(***************************************************************************)
\* The step main is at tells where in which call it is.
LEMMA ScriptHeads ==
  ASSUME NEW c, Scripted(c)
  PROVE  /\ Head(c) \notin {"test", "unlessActive", "scan", "look", "read",
              "readN", "load", "write", "store", "copy", "merge", "zero"}
         /\ Head(c) = "testBegin" => c = Begin /\ Out(0)
         /\ Head(c) = "lock" =>
              \/ /\ c \in {<<"lock", "claim", "cmd23", "cmd25">>, PowerDown}
                 /\ Out(0)
              \/ c = Block /\ In(1)
              \/ c = Boot /\ Up(0) /\ ~inited
         /\ Head(c) = "unlock" =>
              \/ c = <<"unlock">> /\ In(2)
              \/ c = <<"unlock">> /\ Out(1)
              \/ c = <<"unlock">> /\ Up(1)
              \/ c = <<"unlock", "uninit", "cut">> /\ Out(1)
         /\ Head(c) = "claim" =>
              c = <<"claim", "cmd23", "cmd25">> /\ Out(1)
         /\ Head(c) = "release" =>
              /\ c \in {<<"release", "unlock">>, <<"release", "flush", "unlock">>}
              /\ In(1)
         /\ Head(c) = "cmd23" => c = <<"cmd23", "cmd25">> /\ In(1)
         /\ Head(c) = "cmd25" => c = <<"cmd25">> /\ In(1)
         /\ Head(c) = "data" => c = <<"data", "unlock">> /\ In(2)
         /\ Head(c) = "testEnd" => c = End /\ In(1)
         /\ Head(c) = "stop" =>
              c = <<"stop", "release", "flush", "unlock">> /\ In(1)
         /\ Head(c) = "flush" =>
              /\ c \in {<<"flush", "unlock">>, <<"flush", "unlock", "uninit", "cut">>}
              /\ Out(1)
         /\ Head(c) = "uninit" => c = <<"uninit", "cut">> /\ Out(0)
         /\ Head(c) = "cut" =>
              c = <<"cut">> /\ phase = "run" /\ ~active /\ ~inited /\ Held("main") = 0
         /\ Head(c) = "cycle" =>
              /\ c = <<"cycle", "identify", "extcsd", "cache", "status", "unlock">>
              /\ Up(1) /\ ~inited
         /\ Head(c) = "identify" =>
              /\ c = <<"identify", "extcsd", "cache", "status", "unlock">>
              /\ Up(1) /\ ~inited
         /\ Head(c) = "extcsd" =>
              /\ c = <<"extcsd", "cache", "status", "unlock">>
              /\ Up(1) /\ ~inited
         /\ Head(c) = "cache" =>
              c = <<"cache", "status", "unlock">> /\ Up(1) /\ ~inited
         /\ Head(c) = "status" =>
              c = <<"status", "unlock">> /\ Up(1) /\ ~inited
<1>1. CASE Session(c)
  BY <1>1 DEF Session, Begin, Block, End, PowerDown, Boot
<1>2. CASE Down(c)
  BY <1>2 DEF Down, Begin, Block, End, PowerDown, Boot
<1>3. CASE Booting(c)
  BY <1>3 DEF Booting, Begin, Block, End, PowerDown, Boot
<1> QED
  BY <1>1, <1>2, <1>3 DEF Scripted

LEMMA OneCall ==
  ASSUME NEW c \in Seq(Steps) \ {<<>>}, NEW x
  PROVE  /\ <<c>> # <<>> /\ Head(<<c>>) = c
         /\ Advance(<<c>>) = IF Tail(c) = <<>> THEN <<>> ELSE <<Tail(c)>>
         /\ Put(x, <<c>>) = IF x = <<>> THEN <<>> ELSE <<x>>
<1>1. Head(<<c>>) = c /\ Tail(<<c>>) = <<>> /\ <<c>> # <<>>
  OBVIOUS
<1>2. ASSUME NEW y PROVE Put(y, <<c>>) = IF y = <<>> THEN <<>> ELSE <<y>>
  <2>1. [<<c>> EXCEPT ![1] = y] = <<y>>
    OBVIOUS
  <2> QED
    BY <1>1, <2>1 DEF Put
<1> QED
  BY <1>1, <1>2 DEF Advance

LEMMA FewUnlocks ==
  Times(0, "unlock") = <<>> /\ Times(1, "unlock") = <<"unlock">>
BY DEF Times

\* What main is sure of at one of the steps X.
LEMMA MainAt ==
  ASSUME IndInv, NEW X, At("main", X)
  PROVE  /\ ~Runnable("feed") /\ code["main"] # <<>> /\ Step("main") \in X
         /\ \/ Plain /\ Ready("main") /\ Step("main") \in PlainSteps
            \/ \E c \in Seq(Steps) \ {<<>>} : Scripted(c) /\ Step("main") = Head(c)
<1>1. ~Runnable("feed") /\ code["main"] # <<>> /\ Step("main") \in X
  BY DEF At, MayRun, Runnable
<1>2. CASE Plain
  <2>1. Ready("main") /\ Working("main", PlainSteps)
    BY <1>2 DEF Plain, Ready, StepSet, IndInv, Threads
  <2> QED
    BY <1>1, <1>2, <2>1, Runs, PlainSubset DEF IndInv, Threads
<1>3. CASE \E c \in Seq(Steps) \ {<<>>} : Scripted(c)
  BY <1>1, <1>3, OneCall DEF Scripted, Step
<1> QED
  BY <1>1, <1>2, <1>3 DEF IndInv, MainInv

\* The next step of the same call.
LEMMA ScriptGoes ==
  ASSUME IndInv, NEW c \in Seq(Steps) \ {<<>>}, Scripted(c),
         code'["main"] = Advance(code["main"]), Tail(c) # <<>>,
         Session(Tail(c))' \/ Down(Tail(c))' \/ Booting(Tail(c))'
  PROVE  MainInv'
<1>1. Tail(c) \in Seq(Steps) \ {<<>>}
  OBVIOUS
<1>2. Advance(<<c>>) = <<Tail(c)>>
  BY OneCall
<1>3. code'["main"] = <<Tail(c)>>
  BY <1>2 DEF Scripted
<1> QED
  BY <1>1, <1>3 DEF MainInv, Scripted

LEMMA ScriptEnds ==
  ASSUME IndInv, NEW c \in Seq(Steps) \ {<<>>}, Scripted(c),
         code'["main"] = Advance(code["main"]), Tail(c) = <<>>
  PROVE  code'["main"] = <<>>
<1>1. Advance(<<c>>) = <<>>
  BY OneCall
<1> QED
  BY <1>1 DEF Scripted

LEMMA ScriptFails ==
  ASSUME IndInv, NEW c \in Seq(Steps) \ {<<>>}, Scripted(c),
         NEW x \in Seq(Steps) \ {<<>>}, code'["main"] = Put(x, code["main"]),
         Session(x)' \/ Down(x)' \/ Booting(x)'
  PROVE  MainInv'
<1>1. code'["main"] = <<x>>
  BY OneCall DEF Scripted
<1> QED
  BY <1>1 DEF MainInv, Scripted

\* Main in no call.
LEMMA NextPlain ==
  ASSUME code'["main"] = <<>>, phase' = "run", inited', Taken("main")' = 0
  PROVE  MainInv'
<1>1. code'["main"] \in Calls(PlainSteps) /\ Len(code'["main"]) = 0
  BY DEF Calls
<1>2. Fits("main", Start)' /\ Follows(code'["main"], Start)
  BY StartState DEF Fits, Follows, Lined
<1>3. Working("main", PlainSteps)'
  BY <1>1, <1>2, StartState, WorkingFrom DEF Threads
<1> QED
  BY <1>1, <1>3 DEF MainInv, Plain

LEMMA GoesAdvances ==
  ASSUME IndInv, Goes("main")
  PROVE  code'["main"] = Advance(code["main"]) /\ code'["feed"] = code["feed"]
BY DEF Goes, IndInv, Function, Threads

LEMMA LockScript ==
  ASSUME IndInv, Lock("main"), NEW c \in Seq(Steps) \ {<<>>}, Scripted(c),
         Step("main") = Head(c)
  PROVE  MainInv'
<1>1. Head(c) = "lock" /\ ~Runnable("feed")
  BY MainAt DEF Lock
<1>2. owner \in {"none", "main"}
  BY <1>1, MainRuns DEF IndInv, BusInv, Threads
<1>3. /\ Held("main")' = Held("main") + 1 /\ Goes("main")
      /\ UNCHANGED <<phase, active, inited>>
  BY <1>2 DEF Lock, Held, IndInv, BusInv
<1>4. \/ c = <<"lock", "claim", "cmd23", "cmd25">> /\ Out(0)
      \/ c = PowerDown /\ Out(0)
      \/ c = Block /\ In(1)
      \/ c = Boot /\ Up(0) /\ ~inited
  BY <1>1, ScriptHeads
<1>5. CASE c = <<"lock", "claim", "cmd23", "cmd25">> /\ Out(0)
  <2>1. Tail(c) = <<"claim", "cmd23", "cmd25">>
    BY <1>5
  <2>2. Out(1)'
    BY <1>3, <1>5 DEF Out
  <2> QED
    BY <1>3, <2>1, <2>2, GoesAdvances, ScriptGoes DEF Session
<1>6. CASE c = PowerDown /\ Out(0)
  <2>1. Tail(c) = <<"flush", "unlock", "uninit", "cut">>
    BY <1>6 DEF PowerDown
  <2>2. Out(1)'
    BY <1>3, <1>6 DEF Out
  <2> QED
    BY <1>3, <2>1, <2>2, GoesAdvances, ScriptGoes DEF Down
<1>7. CASE c = Block /\ In(1)
  <2>1. Tail(c) = <<"data", "unlock">>
    BY <1>7 DEF Block
  <2>2. In(2)'
    BY <1>3, <1>7 DEF In
  <2> QED
    BY <1>3, <2>1, <2>2, GoesAdvances, ScriptGoes DEF Session
<1>8. CASE c = Boot /\ Up(0) /\ ~inited
  <2>1. Tail(c) = <<"cycle", "identify", "extcsd", "cache", "status", "unlock">>
    BY <1>8 DEF Boot
  <2>2. Up(1)' /\ ~inited'
    BY <1>3, <1>8 DEF Up
  <2> QED
    BY <1>3, <2>1, <2>2, GoesAdvances, ScriptGoes DEF Booting
<1> QED
  BY <1>4, <1>5, <1>6, <1>7, <1>8

\* What an unlock by main does.
LEMMA UnlockMain ==
  ASSUME IndInv, Unlock("main"), Held("main") >= 1
  PROVE  /\ Held("main")' = Held("main") - 1 /\ owner = "main"
         /\ code'["main"] = Advance(code["main"])
         /\ UNCHANGED <<inited, active, cacheOn, card, scratch>>
         /\ phase # "boot" => phase' = phase
         /\ phase = "boot" => phase' = IF inited THEN "run" ELSE "blink"
<1> USE DEF IndInv, BusInv, Function, Threads
<1>1. owner = "main" /\ depth = Held("main") /\ depth \in Nat
  BY DEF Held
<1>2. "main" \notin waiting
  OBVIOUS
<1>3. code'["main"] = Advance(code["main"])
  BY <1>2 DEF Unlock, Goes
<1>4. Held("main")' = Held("main") - 1
  BY <1>1, <1>2 DEF Unlock, Held
<1> QED
  BY <1>1, <1>3, <1>4 DEF Unlock

LEMMA UnlockScript ==
  ASSUME IndInv, Unlock("main"), NEW c \in Seq(Steps) \ {<<>>}, Scripted(c),
         Step("main") = Head(c)
  PROVE  MainInv'
<1>1. Head(c) = "unlock"
  BY MainAt DEF Unlock
<1>2. \/ c = <<"unlock">> /\ In(2)
      \/ c = <<"unlock">> /\ Out(1)
      \/ c = <<"unlock">> /\ Up(1)
      \/ c = <<"unlock", "uninit", "cut">> /\ Out(1)
  BY <1>1, ScriptHeads
<1>3. Held("main") >= 1
  BY <1>2 DEF In, Out, Up
<1>4. CASE c = <<"unlock", "uninit", "cut">> /\ Out(1)
  <2>1. Tail(c) = <<"uninit", "cut">>
    BY <1>4
  <2>2. Out(0)'
    BY <1>3, <1>4, UnlockMain DEF Out
  <2>3. Down(Tail(c))' /\ Tail(c) # <<>>
    BY <2>1, <2>2 DEF Down
  <2> QED
    BY <1>3, <2>3, UnlockMain, ScriptGoes
<1>5. CASE c = <<"unlock">>
  <2>7. Tail(c) = <<>>
    BY <1>5
  <2>1. code'["main"] = <<>>
    BY <1>3, <2>7, UnlockMain, ScriptEnds
  <2>2. CASE In(2)
    <3>1. In(1)'
      BY <1>3, <2>2, UnlockMain DEF In
    <3> QED
      BY <2>1, <3>1, NextPlain DEF In, Taken
  <2>3. CASE Out(1)
    BY <1>3, <2>1, <2>3, UnlockMain, NextPlain DEF Out, Taken
  <2>4. CASE Up(1) /\ inited
    BY <1>3, <2>1, <2>4, UnlockMain, NextPlain DEF Up, Taken
  <2>5. CASE Up(1) /\ ~inited
    <3>1. phase' = "blink" /\ ~active' /\ ~inited' /\ Held("main")' = 0
      BY <1>3, <2>5, UnlockMain DEF Up
    <3> QED
      BY <2>1, <3>1 DEF MainInv, Idle
  <2>6. In(2) \/ Out(1) \/ Up(1)
    BY <1>2
  <2> QED
    BY <2>2, <2>3, <2>4, <2>5, <2>6
<1> QED
  BY <1>2, <1>4, <1>5

LEMMA TestScript ==
  ASSUME IndInv, Test("main"), NEW c \in Seq(Steps) \ {<<>>}, Scripted(c),
         Step("main") = Head(c)
  PROVE  MainInv'
<1>1. Head(c) \in {"testBegin", "testEnd"}
  BY MainAt, ScriptHeads DEF Test, Tests
<1>2. UNCHANGED <<owner, depth, inited, active, phase>> /\ Held("main")' = Held("main")
  BY DEF Test, lock, Held
<1>3. CASE Head(c) = "testBegin"
  <2>1. c = Begin /\ Out(0)
    BY <1>3, ScriptHeads
  <2>2. Passes(Step("main")) /\ Out(0)'
    BY <1>2, <1>3, <2>1 DEF Passes, Out
  <2>3. Tail(c) = <<"lock", "claim", "cmd23", "cmd25">> /\ Tail(c) # <<>>
    BY <2>1 DEF Begin
  <2>4. Goes("main")
    BY <2>2 DEF Test, GoesOrFails
  <2>5. Tail(c) # <<>>
    BY <2>3, Zenon
  <2>6. Session(Tail(c))'
    BY <2>2, <2>3 DEF Session
  <2> QED
    BY <2>4, <2>5, <2>6, GoesAdvances, ScriptGoes
<1>4. CASE Head(c) = "testEnd"
  <2>1. c = End /\ In(1)
    BY <1>4, ScriptHeads
  <2>2. Passes(Step("main")) /\ In(1)'
    BY <1>2, <1>4, <2>1 DEF Passes, In
  <2>3. Tail(c) = <<"stop", "release", "flush", "unlock">>
    BY <2>1 DEF End
  <2>4. Goes("main")
    BY <2>2 DEF Test, GoesOrFails
  <2>5. Tail(c) # <<>>
    BY <2>3
  <2>6. Session(Tail(c))'
    BY <2>2, <2>3 DEF Session
  <2> QED
    BY <2>4, <2>5, <2>6, GoesAdvances, ScriptGoes
<1> QED
  BY <1>1, <1>3, <1>4

LEMMA FlagScript ==
  ASSUME IndInv, Flag("main"), NEW c \in Seq(Steps) \ {<<>>}, Scripted(c),
         Step("main") = Head(c)
  PROVE  MainInv'
<1>1. Head(c) \in {"claim", "release"}
  BY MainAt DEF Flag
<1>2. /\ UNCHANGED <<inited, phase>> /\ Held("main")' = Held("main")
      /\ active' = (Head(c) = "claim") /\ Goes("main")
  BY DEF Flag, lock, Held
<1>3. CASE Head(c) = "claim"
  <2>1. c = <<"claim", "cmd23", "cmd25">> /\ Out(1)
    BY <1>3, ScriptHeads
  <2>2. Tail(c) = <<"cmd23", "cmd25">>
    BY <2>1
  <2>3. In(1)'
    BY <1>2, <1>3, <2>1 DEF In, Out
  <2>4. Session(Tail(c))' /\ Tail(c) # <<>>
    BY <2>2, <2>3 DEF Session
  <2> QED
    BY <1>2, <2>4, GoesAdvances, ScriptGoes
<1>4. CASE Head(c) = "release"
  <2>1. c \in {<<"release", "unlock">>, <<"release", "flush", "unlock">>} /\ In(1)
    BY <1>4, ScriptHeads
  <2>2. Tail(c) \in {<<"unlock">>, <<"flush", "unlock">>} /\ Tail(c) # <<>>
    <3>1. CASE c = <<"release", "unlock">>
      BY <3>1
    <3>2. CASE c = <<"release", "flush", "unlock">>
      BY <3>2
    <3> QED
      BY <2>1, <3>1, <3>2
  <2>3. Out(1)'
    BY <1>2, <1>4, <2>1 DEF In, Out
  <2> QED
    BY <1>2, <2>2, <2>3, GoesAdvances, ScriptGoes DEF Session
<1> QED
  BY <1>1, <1>3, <1>4

LEMMA CommandScript ==
  ASSUME IndInv, Cmd23("main") \/ Cmd25("main"), NEW c \in Seq(Steps) \ {<<>>},
         Scripted(c), Step("main") = Head(c)
  PROVE  MainInv'
<1>1. Head(c) \in {"cmd23", "cmd25"}
  BY MainAt DEF Cmd23, Cmd25
<1>2. UNCHANGED <<inited, active, phase>> /\ Held("main")' = Held("main")
  BY DEF Cmd23, Cmd25, lock, Held
<1>3. Goes("main") \/ Fails("main")
  BY DEF Cmd23, Cmd25, GoesOrFails
<1>4. In(1) /\ In(1)' /\ c \in {<<"cmd23", "cmd25">>, <<"cmd25">>}
  BY <1>1, <1>2, ScriptHeads DEF In
<1>5. CASE Fails("main")
  <2> DEFINE x == <<"release", "unlock">>
  <2>1. code'["main"] = Put(x, code["main"])
    BY <1>1, <1>5 DEF Fails, AfterFailure, IndInv, Function, Threads
  <2>2. x \in Seq(Steps) \ {<<>>}
    BY DEF Steps
  <2>3. Session(x)'
    BY <1>4 DEF Session
  <2> QED
    BY <2>1, <2>2, <2>3, ScriptFails
<1>6. CASE Goes("main")
  <2>1. CASE c = <<"cmd23", "cmd25">>
    <3>1. Tail(c) = <<"cmd25">>
      BY <2>1
    <3> QED
      BY <1>4, <1>6, <3>1, GoesAdvances, ScriptGoes DEF Session
  <2>2. CASE c = <<"cmd25">>
    <3>1. Tail(c) = <<>>
      BY <2>2
    <3>2. code'["main"] = <<>>
      BY <1>6, <3>1, GoesAdvances, ScriptEnds
    <3> QED
      BY <1>4, <3>2, NextPlain DEF In, Taken
  <2> QED
    BY <1>4, <2>1, <2>2
<1> QED
  BY <1>3, <1>5, <1>6

LEMMA BlockScript ==
  ASSUME IndInv, Data("main") \/ Stop("main") \/ Flush("main"),
         NEW c \in Seq(Steps) \ {<<>>}, Scripted(c), Step("main") = Head(c)
  PROVE  MainInv'
<1>1. Head(c) \in {"data", "stop", "flush"}
  BY MainAt DEF Data, Stop, Flush
<1>2. /\ UNCHANGED <<inited, active, phase>> /\ Held("main")' = Held("main")
      /\ Goes("main")
  BY DEF Data, Stop, Flush, lock, Held
<1>3. CASE Head(c) = "data"
  <2>1. c = <<"data", "unlock">> /\ In(2)'
    BY <1>2, <1>3, ScriptHeads DEF In
  <2>2. Tail(c) = <<"unlock">> /\ Tail(c) # <<>>
    BY <2>1
  <2>3. Session(Tail(c))'
    BY <2>1, <2>2 DEF Session
  <2> QED
    BY <1>2, <2>2, <2>3, GoesAdvances, ScriptGoes
<1>4. CASE Head(c) = "stop"
  <2>1. c = <<"stop", "release", "flush", "unlock">> /\ In(1)'
    BY <1>2, <1>4, ScriptHeads DEF In
  <2>2. Tail(c) = <<"release", "flush", "unlock">> /\ Tail(c) # <<>>
    BY <2>1
  <2>3. Session(Tail(c))'
    BY <2>1, <2>2 DEF Session
  <2> QED
    BY <1>2, <2>2, <2>3, GoesAdvances, ScriptGoes
<1>5. CASE Head(c) = "flush"
  <2>1. /\ c \in {<<"flush", "unlock">>, <<"flush", "unlock", "uninit", "cut">>}
        /\ Out(1)'
    BY <1>2, <1>5, ScriptHeads DEF Out
  <2>2. CASE c = <<"flush", "unlock">>
    <3>1. Tail(c) = <<"unlock">> /\ Tail(c) # <<>>
      BY <2>2
    <3>2. Session(Tail(c))'
      BY <2>1, <3>1 DEF Session
    <3> QED
      BY <1>2, <3>1, <3>2, GoesAdvances, ScriptGoes
  <2>3. CASE c = <<"flush", "unlock", "uninit", "cut">>
    <3>1. Tail(c) = <<"unlock", "uninit", "cut">> /\ Tail(c) # <<>>
      BY <2>3
    <3>2. Down(Tail(c))'
      BY <2>1, <3>1 DEF Down
    <3> QED
      BY <1>2, <3>1, <3>2, GoesAdvances, ScriptGoes
  <2> QED
    BY <2>1, <2>2, <2>3
<1> QED
  BY <1>1, <1>3, <1>4, <1>5

LEMMA DownScript ==
  ASSUME IndInv, Uninit \/ Cut,
         NEW c \in Seq(Steps) \ {<<>>}, Scripted(c), Step("main") = Head(c)
  PROVE  MainInv'
<1>1. CASE Uninit
  <2>1. c = <<"uninit", "cut">> /\ Out(0)
    BY <1>1, MainAt, ScriptHeads DEF Uninit
  <2>2. /\ UNCHANGED <<active, phase>> /\ ~inited' /\ Held("main")' = Held("main")
        /\ Goes("main")
    BY <1>1 DEF Uninit, lock, Held
  <2>3. Tail(c) = <<"cut">> /\ Tail(c) # <<>>
    BY <2>1
  <2>4. Down(Tail(c))'
    BY <2>1, <2>2, <2>3 DEF Down, Out
  <2> QED
    BY <2>2, <2>3, <2>4, GoesAdvances, ScriptGoes
<1>2. CASE Cut
  <2>1. /\ c = <<"cut">> /\ ~active /\ ~inited /\ Held("main") = 0
    BY <1>2, MainAt, ScriptHeads DEF Cut
  <2>2. /\ UNCHANGED <<active, inited>> /\ phase' = "sleep"
        /\ Held("main")' = Held("main") /\ Goes("main")
    BY <1>2 DEF Cut, lock, Held
  <2>3. Tail(c) = <<>>
    BY <2>1
  <2>4. code'["main"] = <<>>
    BY <2>2, <2>3, GoesAdvances, ScriptEnds
  <2> QED
    BY <2>1, <2>2, <2>4 DEF MainInv, Idle
<1> QED
  BY <1>1, <1>2

LEMMA BootScript ==
  ASSUME IndInv, Cycle \/ Identify \/ CacheSwitch,
         NEW c \in Seq(Steps) \ {<<>>}, Scripted(c), Step("main") = Head(c)
  PROVE  MainInv'
<1>1. Head(c) \in {"cycle", "identify", "extcsd", "status", "cache"}
  BY MainAt DEF Cycle, Identify, CacheSwitch
<1>2. UNCHANGED <<active, phase>> /\ Held("main")' = Held("main")
  BY DEF Cycle, Identify, CacheSwitch, lock, Held
<1>3. Up(1) /\ Up(1)' /\ ~inited
  BY <1>1, <1>2, ScriptHeads DEF Up
<1>4. ASSUME Fails("main") /\ Head(c) \in {"identify", "extcsd", "status"}
      PROVE  MainInv'
  <2> DEFINE x == <<"unlock">>
  <2>1. Unwind("main") = x
    BY <1>3, FewUnlocks DEF Unwind, Taken, Up
  <2>2. code'["main"] = Put(x, code["main"])
    BY <1>4, <2>1 DEF Fails, AfterFailure, IndInv, Function, Threads
  <2>3. x \in Seq(Steps) \ {<<>>}
    BY DEF Steps
  <2>4. Booting(x)'
    BY <1>3 DEF Booting
  <2> QED
    BY <2>2, <2>3, <2>4, ScriptFails
<1>5. ASSUME Goes("main"), Tail(c) # <<>>,
             \/ Tail(c) = <<"unlock">>
             \/ ~inited' /\ Tail(c) \in
                  {<<"identify", "extcsd", "cache", "status", "unlock">>,
                   <<"extcsd", "cache", "status", "unlock">>,
                   <<"cache", "status", "unlock">>, <<"status", "unlock">>}
      PROVE  MainInv'
  <2>1. Booting(Tail(c))'
    BY <1>3, <1>5 DEF Booting
  <2> QED
    BY <1>5, <2>1, GoesAdvances, ScriptGoes
<1>6. CASE Cycle
  <2>1. c = <<"cycle", "identify", "extcsd", "cache", "status", "unlock">>
    BY <1>6, MainAt, ScriptHeads DEF Cycle
  <2>2. Tail(c) = <<"identify", "extcsd", "cache", "status", "unlock">> /\ Tail(c) # <<>>
    BY <2>1
  <2>3. Goes("main") /\ ~inited'
    BY <1>6 DEF Cycle
  <2> QED
    BY <1>5, <2>2, <2>3
<1>7. CASE CacheSwitch
  <2>1. c = <<"cache", "status", "unlock">>
    BY <1>7, MainAt, ScriptHeads DEF CacheSwitch
  <2>2. Tail(c) = <<"status", "unlock">> /\ Tail(c) # <<>>
    BY <2>1
  <2>3. Goes("main") /\ ~inited'
    BY <1>3, <1>7 DEF CacheSwitch
  <2> QED
    BY <1>5, <2>2, <2>3
<1>8. CASE Identify
  <2>1. Head(c) \in {"identify", "extcsd", "status"}
    BY <1>8, MainAt DEF Identify
  <2>2. CASE Fails("main")
    BY <1>4, <2>1, <2>2
  <2>3. CASE Goes("main")
    <3>1. CASE Head(c) = "identify"
      <4>1. c = <<"identify", "extcsd", "cache", "status", "unlock">>
        BY <3>1, ScriptHeads
      <4>2. Tail(c) = <<"extcsd", "cache", "status", "unlock">> /\ Tail(c) # <<>>
        BY <4>1
      <4>3. ~inited'
        BY <1>8, <3>1 DEF Identify
      <4> QED
        BY <1>5, <2>3, <4>2, <4>3
    <3>2. CASE Head(c) = "extcsd"
      <4>1. c = <<"extcsd", "cache", "status", "unlock">>
        BY <3>2, ScriptHeads
      <4>2. Tail(c) = <<"cache", "status", "unlock">> /\ Tail(c) # <<>>
        BY <4>1
      <4>3. ~inited'
        BY <1>8, <3>2 DEF Identify
      <4> QED
        BY <1>5, <2>3, <4>2, <4>3
    <3>3. CASE Head(c) = "status"
      <4>1. c = <<"status", "unlock">>
        BY <3>3, ScriptHeads
      <4>2. Tail(c) = <<"unlock">> /\ Tail(c) # <<>>
        BY <4>1
      <4> QED
        BY <1>5, <2>3, <4>2
    <3> QED
      BY <2>1, <3>1, <3>2, <3>3
  <2>4. Goes("main") \/ Fails("main")
    BY <1>8 DEF Identify, GoesOrFails
  <2> QED
    BY <2>2, <2>3, <2>4
<1> QED
  BY <1>6, <1>7, <1>8

(***************************************************************************)
(* Every step of main.                                                     *)
(***************************************************************************)
\* In a plain call.
LEMMA PlainLeaves ==
  ASSUME IndInv, Main, Plain, Step("main") \in PlainSteps
  PROVE  /\ Common("main") \/ Write("main")
         /\ UNCHANGED <<phase, active, inited, cacheOn>>
<1>1. Common("main") \/ Write("main")
  BY DEF Main, MainOnly, Flag, Cmd23, Cmd25, Data, Stop, Flush, Cycle,
     Identify, CacheSwitch, Uninit, Cut, At, PlainSteps
<1> QED
  BY <1>1 DEF Plain, Common, Write, Lock, Unlock, Test, Entry, Read, Scratch, lock

LEMMA PlainKeeps ==
  ASSUME IndInv, Main, Plain, Step("main") \in PlainSteps
  PROVE  Plain'
<1>1. Ready("main")
  BY DEF Plain, Ready, StepSet, IndInv, Threads
<1>2. Common("main") \/ Write("main")
  BY PlainLeaves
<1>3. Keeps("main")
  BY <1>1, <1>2, OwnKeeps
<1>4. UNCHANGED <<phase, active, inited>>
  BY PlainLeaves
<1>5. code'["main"] \in Calls(PlainSteps)
  BY <1>3 DEF Keeps, Working, StepSet
<1>6. Len(code'["main"]) <= 1
  BY <1>3, <1>5 DEF Keeps, Plain, Working, Calls
<1> QED
  BY <1>3, <1>4, <1>6 DEF Plain, Keeps, StepSet

LEMMA MainStep ==
  ASSUME IndInv, Main
  PROVE  /\ ~Runnable("feed") /\ code["main"] # <<>>
         /\ \/ Plain /\ Ready("main") /\ Step("main") \in PlainSteps
            \/ \E c \in Seq(Steps) \ {<<>>} : Scripted(c) /\ Step("main") = Head(c)
<1>1. PICK X : At("main", X)
  BY DEF Main, Common, MainOnly, Lock, Unlock, Test, Entry, Read, Scratch,
     Write, Flag, Cmd23, Cmd25, Data, Stop, Flush, Cycle, Identify,
     CacheSwitch, Uninit, Cut
<1> QED
  BY <1>1, MainAt

LEMMA MainInvKeeps ==
  ASSUME IndInv, Main
  PROVE  MainInv'
<1>1. CASE Plain /\ Step("main") \in PlainSteps
  BY <1>1, MainStep, PlainKeeps DEF MainInv
<1>2. CASE \E c \in Seq(Steps) \ {<<>>} : Scripted(c) /\ Step("main") = Head(c)
  <2>1. PICK c \in Seq(Steps) \ {<<>>} : Scripted(c) /\ Step("main") = Head(c)
    BY <1>2
  <2>2. ~Entry("main") /\ ~Read("main") /\ ~Scratch("main") /\ ~Write("main")
    BY <2>1, ScriptHeads DEF Entry, Read, Scratch, Write, At
  <2> QED
    BY <2>1, <2>2, LockScript, UnlockScript, TestScript, FlagScript,
       CommandScript, BlockScript, DownScript, BootScript
       DEF Main, Common, MainOnly
<1> QED
  BY <1>1, <1>2, MainStep

\* Main holds the bus it releases.
LEMMA MainUnlocks ==
  ASSUME IndInv, Unlock("main")
  PROVE  Held("main") >= 1
<1>1. CASE Plain
  <2>1. owner = "main" /\ depth >= 1
    BY <1>1, Runs, PlainSubset DEF Unlock, Plain, IndInv, Threads
  <2> QED
    BY <2>1 DEF Held
<1>2. CASE \E c \in Seq(Steps) \ {<<>>} : Scripted(c) /\ Step("main") = Head(c)
  BY <1>2, MainAt, ScriptHeads DEF Unlock, In, Out, Up
<1> QED
  BY <1>1, <1>2, MainAt DEF Unlock

\* Main tells the feed thread of g_initialized only when it does not wait.
LEMMA InitedFalls ==
  ASSUME IndInv, Cycle \/ Identify \/ Uninit \/ Cut
  PROVE  code["feed"] = <<>> /\ waiting = {}
<1>1. Main
  BY DEF Main, MainOnly
<1>2. Step("main") \in {"cycle", "identify", "extcsd", "status", "uninit", "cut"}
  BY MainAt DEF Cycle, Identify, Uninit, Cut
<1>3. PICK c \in Seq(Steps) \ {<<>>} : Scripted(c) /\ Step("main") = Head(c)
  BY <1>1, <1>2, MainStep DEF PlainSteps
<1>4. phase = "boot" \/ Held("main") = 0
  BY <1>2, <1>3, ScriptHeads DEF Up, Out
<1>5. CASE phase = "boot"
  BY <1>5 DEF IndInv, FeedInv, BusInv
<1>6. CASE Held("main") = 0
  <2>1. owner # "main"
    BY <1>6 DEF Held, IndInv, BusInv
  <2> QED
    BY <1>1, <2>1, MainStep, MainRuns
<1> QED
  BY <1>4, <1>5, <1>6

\* The bus passes to the feed thread.
LEMMA HandedOver ==
  ASSUME IndInv, ~Runnable("feed"), "feed" \in waiting,
         code'["feed"] = Advance(code["feed"]), owner' = "feed", depth' = 1,
         inited' = inited
  PROVE  Working("feed", FeedSteps)'
<1>1. /\ code["feed"] # <<>> /\ Step("feed") = "lock" /\ Held("feed") = 0
  BY MainRuns DEF IndInv, FeedInv
<1>2. ASSUME NEW a \in State, NEW b \in State, Fits("feed", a),
             Leads(Step("feed"), a, b)
      PROVE  Fits("feed", b)'
  <2>1. a.held = 0 /\ b.held = 1 /\ ~b.filled
    BY <1>1, <1>2, StateParts DEF Fits, Taken, Leads, Filling
  <2> QED
    BY <1>1, <1>2, <2>1 DEF Fits, Leads, Taken, Held
<1> QED
  BY <1>1, <1>2, GoesWorking, PlainSubset DEF IndInv, FeedInv, Threads

LEMMA MainLeavesFeed ==
  ASSUME IndInv, Main
  PROVE  BusInv' /\ FeedInv'
<1>1. /\ ~Runnable("feed") /\ owner # "feed" /\ Held("feed") = 0
      /\ waiting = {} => code["feed"] = <<>>
      /\ waiting # {} => owner = "main" /\ waiting = {"feed"}
  BY MainStep, MainRuns
<1>2. /\ Working("feed", FeedSteps) /\ BusInv /\ Function
      /\ "feed" \in waiting => /\ owner = "main" /\ code["feed"] # <<>>
                               /\ Step("feed") = "lock"
      /\ code["feed"] # <<>> => phase \in {"run", "sleep"}
  BY DEF IndInv, FeedInv
<1>3. ASSUME code'["feed"] = code["feed"], Held("feed")' = 0,
             code["feed"] # <<>> => inited' = inited,
             code["feed"] # <<>> => phase' = phase,
             waiting' = waiting, "feed" \in waiting => owner' = owner
      PROVE  FeedInv'
  <2>1. CASE code["feed"] = <<>>
    <3>1. Working("feed", FeedSteps)'
      <4>1. code'["feed"] \in Calls(FeedSteps)
        BY <1>2, <1>3 DEF Working
      <4>2. Fits("feed", Start)' /\ Follows(code'["feed"], Start)
        BY <1>3, <2>1, StartState DEF Fits, Taken, Follows, Lined
      <4> QED
        BY <4>1, <4>2, StartState, WorkingFrom DEF Threads
    <3> QED
      BY <1>2, <1>3, <2>1, <3>1 DEF FeedInv
  <2>2. CASE code["feed"] # <<>>
    <3>1. Working("feed", FeedSteps)'
      BY <1>1, <1>2, <1>3, <2>2, StaysWorking DEF Threads, Taken
    <3> QED
      BY <1>2, <1>3, <2>2, <3>1 DEF FeedInv, Step
  <2> QED
    BY <2>1, <2>2
<1>4. CASE Unlock("main")
  <2>1. Held("main") >= 1
    BY <1>4, MainUnlocks
  <2>2. owner = "main" /\ depth \in Nat /\ depth >= 1
    BY <2>1, <1>2 DEF Held, BusInv
  <2>3. BusInv'
    BY <1>1, <1>2, <1>4, <2>2 DEF Unlock, BusInv, Threads
  <2>4. CASE depth > 1 \/ waiting = {}
    <3>1. Goes("main") /\ waiting' = waiting /\ inited' = inited
      BY <1>4, <2>4 DEF Unlock
    <3>2. owner' \in {"main", "none"} /\ (waiting # {} => owner' = owner)
      BY <1>4, <2>2, <2>4 DEF Unlock
    <3>3. code["feed"] # <<>> => phase' = phase
      BY <1>2, <1>4 DEF Unlock
    <3>4. Held("feed")' = 0
      BY <3>2 DEF Held
    <3> QED
      BY <1>3, <2>3, <3>1, <3>2, <3>3, <3>4, GoesAdvances
  <2>5. CASE ~(depth > 1) /\ waiting # {}
    <3>1. /\ owner' = "feed" /\ depth' = 1 /\ waiting' = {} /\ inited' = inited
          /\ code' = [code EXCEPT !["main"] = Advance(@), !["feed"] = Advance(@)]
      BY <1>1, <1>4, <2>5 DEF Unlock
    <3>2. code'["feed"] = Advance(code["feed"])
      BY <1>2, <3>1 DEF Function, Threads
    <3>3. phase \in {"run", "sleep"} /\ phase' = phase
      BY <1>1, <1>2, <1>4, <2>5 DEF Unlock
    <3>4. Working("feed", FeedSteps)'
      BY <1>1, <2>5, <3>1, <3>2, HandedOver
    <3> QED
      BY <2>3, <3>1, <3>3, <3>4 DEF FeedInv
  <2> QED
    BY <2>4, <2>5
<1>5. CASE Lock("main")
  <2>1. owner \in {"none", "main"}
    BY <1>1, <1>2 DEF BusInv, Threads
  <2>2. /\ Goes("main") /\ owner' = "main" /\ depth' = depth + 1
        /\ UNCHANGED <<waiting, inited, phase>>
    BY <1>5, <2>1 DEF Lock
  <2>3. BusInv' /\ Held("feed")' = 0
    BY <1>2, <2>2 DEF BusInv, Threads, Held
  <2> QED
    BY <1>1, <1>2, <1>3, <2>2, <2>3, GoesAdvances
<1>6. CASE ~Lock("main") /\ ~Unlock("main")
  <2>1. UNCHANGED <<owner, depth, waiting>>
    BY <1>6 DEF Main, Common, MainOnly, Test, Entry, Read, Scratch, Write,
       Flag, Cmd23, Cmd25, Data, Stop, Flush, Cycle, Identify, CacheSwitch,
       Uninit, Cut, lock
  <2>2. code'["feed"] = code["feed"]
    <3>1. Goes("main") \/ Fails("main") \/ UNCHANGED code \/ Entry("main")
      BY <1>6 DEF Main, Common, MainOnly, Test, Read, Scratch, Write,
         Flag, Cmd23, Cmd25, Data, Stop, Flush, Cycle, Identify, CacheSwitch,
         Uninit, Cut, GoesOrFails
    <3> QED
      BY <1>2, <3>1 DEF Goes, Fails, Entry, Function, Threads
  <2>3. code["feed"] # <<>> => UNCHANGED <<inited, phase>>
    <3>1. CASE Cycle \/ Identify \/ Uninit \/ Cut
      BY <3>1, InitedFalls
    <3>2. CASE ~Cycle /\ ~Identify /\ ~Uninit /\ ~Cut
      BY <1>6, <3>2 DEF Main, Common, MainOnly, Test, Entry, Read, Scratch,
         Write, Flag, Cmd23, Cmd25, Data, Stop, Flush, CacheSwitch
    <3> QED
      BY <3>1, <3>2
  <2>4. BusInv' /\ Held("feed")' = 0
    BY <1>1, <1>2, <2>1 DEF BusInv, Held
  <2> QED
    BY <1>3, <2>1, <2>2, <2>3, <2>4
<1> QED
  BY <1>4, <1>5, <1>6

(***************************************************************************)
(* New calls and the reset.                                                *)
(***************************************************************************)
LEMMA Idles ==
  ASSUME IndInv, FeedFill \/ MainCall
  PROVE  /\ UNCHANGED <<owner, depth, waiting, inited, active, scratch, phase>>
         /\ Held("feed")' = Held("feed") /\ Held("main")' = Held("main")
         /\ BusInv'
BY DEF FeedFill, MainCall, lock, Held, IndInv, BusInv

LEMMA FillKeeps ==
  ASSUME IndInv, FeedFill
  PROVE  IndInv'
<1> USE Idles
<1>1. PICK fill \in Fills : code' = [code EXCEPT !["feed"] = <<fill>>]
  BY DEF FeedFill
<1>2. code'["feed"] = <<fill>> /\ code'["main"] = code["main"]
  BY <1>1 DEF IndInv, Function, Threads
<1>3. Working("feed", FeedSteps)'
  <2>1. <<fill>> \in Calls(FeedSteps) /\ Lined(<<fill>>, Start)
    BY FillTexts, WholeLined, PlainSubset
  <2>2. Held("feed") = 0
    BY NoCall DEF FeedFill, IndInv, FeedInv, Threads, Taken
  <2>3. Fits("feed", Start)'
    BY <2>2, StartState DEF Fits, Taken
  <2> QED
    BY <1>2, <2>1, <2>3, StartState DEF Working
<1>4. FeedInv'
  BY <1>3 DEF FeedInv, FeedFill, IndInv
<1>5. Function'
  BY FunctionKeeps DEF Next
<1>6. MainInv'
  <2>1. CASE Plain
    <3>1. Working("main", PlainSteps)'
      BY <1>2, <2>1, StaysWorking DEF Plain, Threads, Mine, Taken
    <3>2. Plain'
      BY <1>2, <2>1, <3>1 DEF Plain
    <3> QED
      BY <3>2 DEF MainInv
  <2>2. CASE code["main"] = <<>> /\ Idle
    BY <1>2, <2>2 DEF MainInv, Idle
  <2>3. CASE \E c \in Seq(Steps) \ {<<>>} : Scripted(c)
    <3>1. PICK c \in Seq(Steps) \ {<<>>} : Scripted(c)
      BY <2>3
    <3>2. Scripted(c)'
      BY <1>2, <3>1 DEF Scripted, Session, Down, Booting, Out, In, Up
    <3> QED
      BY <3>2 DEF MainInv
  <2> QED
    BY <2>1, <2>2, <2>3 DEF IndInv, MainInv
<1> QED
  BY <1>4, <1>5, <1>6 DEF IndInv

LEMMA UnguardedPlain == Unguarded \subseteq BlockCalls
BY DEF Unguarded, BlockCalls

LEMMA CallKeeps ==
  ASSUME IndInv, MainCall
  PROVE  IndInv'
<1> USE Idles
<1>1. PICK call \in MainCalls : code' = [code EXCEPT !["main"] = <<call>>]
  BY DEF MainCall
<1>2. code'["main"] = <<call>> /\ code'["feed"] = code["feed"]
  BY <1>1 DEF IndInv, Function, Threads
<1>3. FeedInv'
  <2>1. Working("feed", FeedSteps)'
    BY <1>2, StaysWorking DEF IndInv, FeedInv, Threads, Mine, Taken
  <2> QED
    BY <1>2, <2>1 DEF IndInv, FeedInv, Step
<1>4. Function'
  BY FunctionKeeps DEF Next
<1>5. /\ phase = "run" /\ code["main"] = <<>>
      /\ ~active => inited /\ Held("main") = 0
      /\ active => inited /\ Held("main") = 1
  <2>1. phase = "run" /\ code["main"] = <<>>
    BY DEF MainCall
  <2>2. Plain \/ Idle
    BY <2>1, OneCall DEF IndInv, MainInv, Scripted
  <2>3. inited /\ Taken("main") = 0
    BY <2>1, <2>2, NoCall DEF Plain, Idle, Threads
  <2>4. Held("main") \in Nat
    BY HeldTypes DEF IndInv, Threads
  <2> QED
    BY <2>1, <2>3, <2>4 DEF Taken
<1>6. MainInv'
  <2>1. CASE active /\ call \in {Block, End}
    <3>1. call \in {Block, End} /\ In(1)'
      BY <1>5, <2>1 DEF MainCalls, In
    <3>2. call \in Seq(Steps) \ {<<>>}
      <4>1. Block \in Seq(Steps) \ {<<>>}
        BY DEF Block, Steps
      <4>2. End \in Seq(Steps) \ {<<>>}
        BY DEF End, Steps, Tests
      <4> QED
        BY <3>1, <4>1, <4>2
    <3> QED
      BY <1>2, <3>1, <3>2 DEF MainInv, Scripted, Session
  <2>2. CASE ~active /\ call \in {Begin, PowerDown}
    <3>1. Out(0)'
      BY <1>5, <2>2 DEF Out
    <3>2. call \in Seq(Steps) \ {<<>>}
      <4>1. Begin \in Seq(Steps) \ {<<>>}
        BY DEF Begin, Steps, Tests
      <4>2. PowerDown \in Seq(Steps) \ {<<>>}
        BY DEF PowerDown, Steps
      <4> QED
        BY <2>2, <4>1, <4>2
    <3> QED
      BY <1>2, <2>2, <3>1, <3>2 DEF MainInv, Scripted, Session, Down
  <2>3. CASE call \in BlockCalls
    <3>1. /\ <<call>> \in Calls(PlainSteps) /\ Lined(<<call>>, Start)
          /\ Len(<<call>>) = 1
      BY <2>3, BlockCallTexts, WholeLined, PlainSubset
    <3>2. Fits("main", Start)'
      BY <1>5, <2>3, StartState DEF Fits, Taken
    <3>3. Working("main", PlainSteps)'
      BY <1>2, <3>1, <3>2, StartState DEF Working
    <3> QED
      BY <1>2, <1>5, <2>3, <3>1, <3>3 DEF MainInv, Plain
  <2> QED
    BY <2>1, <2>2, <2>3, UnguardedPlain DEF MainCalls
<1> QED
  BY <1>3, <1>4, <1>6 DEF IndInv

\* Where the program begins.
LEMMA FreshInv ==
  /\ Init => IndInv
  /\ IndInv /\ Reset => IndInv'
<1>1. Boot \in Seq(Steps) \ {<<>>}
  BY DEF Boot, Steps
<1>2. <<>> \in Calls(FeedSteps)
  BY DEF Calls
<1>3. ASSUME Init PROVE IndInv
  <2>1. /\ code["feed"] = <<>> /\ code["main"] = <<Boot>> /\ Function
        /\ phase = "boot" /\ ~active /\ ~inited /\ Held("main") = 0
        /\ Held("feed") = 0 /\ waiting = {}
    BY <1>3 DEF Init, Fresh, Function, Threads, Held
  <2>2. FeedInv
    BY <2>1, NoCall DEF FeedInv, Threads, Taken
  <2>3. MainInv
    BY <1>1, <2>1 DEF MainInv, Scripted, Booting, Up
  <2> QED
    BY <1>3, <2>1, <2>2, <2>3 DEF IndInv, Init, BusInv
<1>4. ASSUME IndInv, Reset PROVE IndInv'
  <2>1. /\ code'["feed"] = <<>> /\ code'["main"] = <<Boot>> /\ Function'
        /\ phase' = "boot" /\ ~active' /\ ~inited' /\ Held("main")' = 0
        /\ Held("feed")' = 0 /\ waiting' = {}
    BY <1>4 DEF Reset, Fresh, Function, Threads, Held
  <2>2. Working("feed", FeedSteps)'
    <3>1. Fits("feed", Start)' /\ Follows(code'["feed"], Start)
      BY <2>1, StartState DEF Fits, Taken, Follows, Lined
    <3> QED
      BY <1>2, <2>1, <3>1, StartState, WorkingFrom DEF Threads
  <2>3. FeedInv'
    BY <2>1, <2>2 DEF FeedInv
  <2>4. MainInv'
    BY <1>1, <2>1 DEF MainInv, Scripted, Booting, Up
  <2> QED
    BY <1>4, <2>1, <2>3, <2>4 DEF IndInv, Reset, BusInv
<1> QED
  BY <1>3, <1>4

LEMMA StepKeeps == IndInv /\ [Next]_vars => IndInv'
<1> SUFFICES ASSUME IndInv, [Next]_vars PROVE IndInv'
  OBVIOUS
<1>1. CASE Feed
  BY <1>1, FeedKeeps
<1>2. CASE Main
  BY <1>2, MainInvKeeps, MainLeavesFeed, FunctionKeeps DEF IndInv, Next
<1>3. CASE FeedFill
  BY <1>3, FillKeeps
<1>4. CASE MainCall
  BY <1>4, CallKeeps
<1>5. CASE Reset
  BY <1>5, FreshInv
<1>6. CASE UNCHANGED vars
  <2>1. /\ UNCHANGED <<owner, depth, waiting, inited, active, scratch, code, phase>>
        /\ \A t \in Threads : Held(t)' = Held(t)
    BY <1>6 DEF vars, Held
  <2>2. Function' /\ BusInv'
    BY <2>1 DEF IndInv, Function, BusInv
  <2>3. ASSUME NEW t \in Threads, NEW S, Working(t, S) PROVE Working(t, S)'
    BY <2>1, <2>3, StaysWorking DEF Mine, Taken
  <2>4. FeedInv'
    BY <2>1, <2>3 DEF IndInv, FeedInv, Step, Threads
  <2>5. CASE Plain
    BY <2>1, <2>2, <2>3, <2>4, <2>5 DEF IndInv, MainInv, Plain, Threads
  <2>6. CASE code["main"] = <<>> /\ Idle
    BY <2>1, <2>2, <2>4, <2>6 DEF IndInv, MainInv, Idle, Threads
  <2>7. CASE \E c \in Seq(Steps) \ {<<>>} : Scripted(c)
    <3>1. PICK c \in Seq(Steps) \ {<<>>} : Scripted(c)
      BY <2>7
    <3>2. Out(0)' = Out(0) /\ Out(1)' = Out(1) /\ In(1)' = In(1) /\ In(2)' = In(2)
      BY <2>1 DEF Out, In, Threads
    <3>3. Up(0)' = Up(0) /\ Up(1)' = Up(1) /\ Held("main")' = Held("main")
      BY <2>1 DEF Up, Threads
    <3>4. Scripted(c)'
      BY <2>1, <3>1, <3>2, <3>3 DEF Scripted, Session, Down, Booting
    <3> QED
      BY <2>2, <2>4, <3>4 DEF IndInv, MainInv
  <2> QED
    BY <2>5, <2>6, <2>7 DEF IndInv, MainInv
<1> QED
  BY <1>1, <1>2, <1>3, <1>4, <1>5, <1>6 DEF Next

LEMMA Inductive == Spec => []IndInv
BY FreshInv, StepKeeps, PTL DEF Spec

(***************************************************************************)
(* Types, and the scratch block.                                           *)
(***************************************************************************)
VarsOK ==
  /\ waiting \in SUBSET Threads
  /\ inited \in BOOLEAN /\ cacheOn \in BOOLEAN /\ active \in BOOLEAN
  /\ tries \in 0 .. 2
  /\ scratch \in [of : Threads \cup {"none"}, good : BOOLEAN]
  /\ card \in [st : {"off", "idle", "tran", "rcv", "data"},
               cache : BOOLEAN, dirty : BOOLEAN]
  /\ phase \in {"boot", "run", "blink", "sleep"}

LEMMA NoBlock ==
  [of |-> "none", good |-> FALSE] \in [of : Threads \cup {"none"}, good : BOOLEAN]
OBVIOUS

LEMMA VarsKeep == VarsOK /\ [Next]_vars => VarsOK'
<1> SUFFICES ASSUME VarsOK, [Next]_vars PROVE VarsOK'
  OBVIOUS
<1> USE DEF VarsOK, lock
<1>1. ASSUME NEW t \in Threads, Lock(t) PROVE VarsOK'
  BY <1>1 DEF Lock
<1>2. ASSUME NEW t \in Threads, Unlock(t) PROVE VarsOK'
  BY <1>2 DEF Unlock
<1>3. ASSUME NEW t \in Threads, Test(t) \/ Entry(t) PROVE VarsOK'
  BY <1>3 DEF Test, Entry
<1>4. ASSUME NEW t \in Threads, Read(t) PROVE VarsOK'
  <2>1. UNCHANGED <<owner, depth, waiting, inited, cacheOn, active, card, phase>>
    BY <1>4 DEF Read
  <2>2. tries' \in 0 .. 2
    BY <1>4 DEF Read, Retry
  <2>3. scratch' \in [of : Threads \cup {"none"}, good : BOOLEAN]
    <3>1. \E crc \in BOOLEAN : scratch' \in {scratch, [of |-> t, good |-> crc]}
      BY <1>4 DEF Read, Outcomes
    <3>2. \A crc \in BOOLEAN :
            [of |-> t, good |-> crc] \in [of : Threads \cup {"none"}, good : BOOLEAN]
      OBVIOUS
    <3> QED
      BY <3>1, <3>2
  <2> QED
    BY <2>1, <2>2, <2>3
<1>5. ASSUME NEW t \in Threads, ReadN(t) PROVE VarsOK'
  <2>1. UNCHANGED <<owner, depth, waiting, inited, cacheOn, active, scratch, phase>>
    BY <1>5 DEF ReadN
  <2>2. tries' \in 0 .. 2
    BY <1>5 DEF ReadN, Retry
  <2>3. card' = card \/ card' = [card EXCEPT !.st = "data"]
    BY <1>5 DEF ReadN
  <2> QED
    BY <2>1, <2>2, <2>3
<1>6. ASSUME NEW t \in Threads, Scratch(t) PROVE VarsOK'
  BY <1>6 DEF Scratch
<1>7. CASE Write("main") \/ Data("main")
  <2>1. UNCHANGED <<waiting, inited, cacheOn, active, tries, scratch, phase>>
    BY <1>7 DEF Write, Data
  <2>2. \E d \in BOOLEAN : card' = [card EXCEPT !.dirty = d]
    BY <1>7 DEF Write, Data, Listening
  <2> QED
    BY <2>1, <2>2
<1>8. CASE Flag("main") \/ Cmd23("main") \/ Cmd25("main") \/ Stop("main") \/ Flush("main")
  BY <1>8 DEF Flag, Cmd23, Cmd25, Stop, Flush
<1>9. CASE Cycle \/ Uninit \/ Cut
  BY <1>9 DEF Cycle, Uninit, Cut, Off
<1>10. CASE Identify
  BY <1>10 DEF Identify, Outcomes
<1>11. CASE CacheSwitch
  BY <1>11 DEF CacheSwitch, Outcomes
<1>12. CASE FeedFill \/ MainCall
  BY <1>12 DEF FeedFill, MainCall
<1>13. CASE Reset
  <2>1. waiting' \in SUBSET Threads
    BY <1>13 DEF Reset
  <2>2. scratch' \in [of : Threads \cup {"none"}, good : BOOLEAN]
    BY <1>13, NoBlock DEF Reset
  <2>3. inited' = FALSE /\ cacheOn' = FALSE /\ active' = FALSE
    BY <1>13 DEF Reset
  <2>5. tries' = 0 /\ phase' = "boot"
    BY <1>13 DEF Reset
  <2>4. card' = card
    BY <1>13 DEF Reset
  <2>6. inited' \in BOOLEAN /\ cacheOn' \in BOOLEAN /\ active' \in BOOLEAN
    BY <2>3
  <2>7. tries' \in 0 .. 2 /\ phase' \in {"boot", "run", "blink", "sleep"}
    BY <2>5
  <2> QED
    BY <2>1, <2>2, <2>4, <2>6, <2>7
<1>14. CASE UNCHANGED vars
  BY <1>14 DEF vars
<1> QED
  BY <1>1, <1>2, <1>3, <1>4, <1>5, <1>6, <1>7, <1>8, <1>9, <1>10, <1>11,
     <1>12, <1>13, <1>14 DEF Next, Feed, Main, Common, MainOnly, Threads

LEMMA VarsHold == Spec => []VarsOK
<1>1. ASSUME Init PROVE VarsOK
  <2>1. waiting \in SUBSET Threads
    BY <1>1 DEF Init
  <2>2. scratch \in [of : Threads \cup {"none"}, good : BOOLEAN]
    BY <1>1, NoBlock DEF Init
  <2>3. card \in [st : {"off", "idle", "tran", "rcv", "data"},
                  cache : BOOLEAN, dirty : BOOLEAN]
    BY <1>1 DEF Init, Off
  <2>4. inited = FALSE /\ cacheOn = FALSE /\ active = FALSE
    BY <1>1 DEF Init
  <2>5. tries = 0 /\ phase = "boot"
    BY <1>1 DEF Init
  <2>6. inited \in BOOLEAN /\ cacheOn \in BOOLEAN /\ active \in BOOLEAN
    BY <2>4
  <2>7. tries \in 0 .. 2
    BY <2>5
  <2>8. phase \in {"boot", "run", "blink", "sleep"}
    BY <2>5
  <2> QED
    BY <2>1, <2>2, <2>3, <2>6, <2>7, <2>8 DEF VarsOK
<1> QED
  BY <1>1, VarsKeep, PTL DEF Spec

LEMMA CodeType ==
  ASSUME IndInv
  PROVE  code \in [Threads -> Seq(Seq(Steps))]
<1>1. ASSUME NEW S \in SUBSET Steps, NEW c \in Calls(S)
      PROVE  c \in Seq(Seq(Steps))
  <2> DEFINE T == Seq(S) \ {<<>>}
             U == Seq(Steps)
  <2>1. T \subseteq U
    BY SeqMonotonic
  <2>2. c \in Seq(T)
    BY DEF Calls
  <2> HIDE DEF T, U
  <2>3. c \in Seq(U)
    BY <2>1, <2>2, SeqMonotonic
  <2> QED
    BY <2>3 DEF U
<1>2. code["feed"] \in Seq(Seq(Steps))
  BY <1>1, PlainSubset DEF IndInv, FeedInv, Working
<1>3. code["main"] \in Seq(Seq(Steps))
  <2>1. CASE Plain
    BY <1>1, <2>1, PlainSubset DEF Plain, Working
  <2>2. CASE code["main"] = <<>>
    BY <2>2
  <2>3. CASE \E c \in Seq(Steps) \ {<<>>} : Scripted(c)
    <3>1. PICK c \in Seq(Steps) : code["main"] = <<c>>
      BY <2>3 DEF Scripted
    <3> DEFINE U == Seq(Steps)
    <3> HIDE DEF U
    <3>2. c \in U
      BY <3>1 DEF U
    <3>3. code["main"] \in Seq(U)
      BY <3>1, <3>2
    <3> QED
      BY <3>3 DEF U
  <2> QED
    BY <2>1, <2>2, <2>3 DEF IndInv, MainInv
<1> QED
  BY <1>2, <1>3 DEF IndInv, Function, Threads

\* Every variable has its type; of the calls that is a consequence of what
\* they are (EmmcBus.TypeOK).
THEOREM TypeCorrect == Spec => []TypeOK
<1>1. IndInv /\ VarsOK => TypeOK
  BY CodeType DEF IndInv, BusInv, VarsOK, TypeOK
<1> QED
  BY <1>1, Inductive, VarsHold, PTL

\* Whoever uses s_cat_buf finds in it what it read there itself, for every
\* set of faults, a reset at any time included (disk.c:8-15).
THEOREM ScratchIsMine == Spec => []ScratchMine
<1>1. IndInv => ScratchMine
  <2> SUFFICES ASSUME IndInv, NEW t \in Threads, At(t, {"copy", "merge", "store"})
               PROVE  scratch = [of |-> t, good |-> TRUE]
    BY DEF ScratchMine
  <2>1. CASE Working(t, StepSet(t))
    <3>1. Mine(t)
      BY <2>1, Runs, StepSetParts DEF IndInv, Uses
    <3> QED
      BY <3>1 DEF Mine
  <2>2. CASE t = "feed"
    BY <2>1, <2>2 DEF IndInv, FeedInv, StepSet
  <2>3. CASE t = "main"
    <3>1. Plain \/ \E c : Scripted(c) /\ Step("main") = Head(c)
      BY <2>3, MainAt
    <3>2. CASE Plain
      BY <2>1, <2>3, <3>2 DEF Plain, StepSet
    <3>3. CASE \E c : Scripted(c) /\ Step("main") = Head(c)
      BY <2>3, <3>3, ScriptHeads DEF At
    <3> QED
      BY <3>1, <3>2, <3>3
  <2> QED
    BY <2>2, <2>3 DEF Threads
<1> QED
  BY <1>1, Inductive, PTL

(***************************************************************************)
(* The card, when no command is taken and its answer missed.               *)
(***************************************************************************)
NoneMissed == "missed" \notin Faults

\* Main is at one of the steps X of its call.
MainIs(X) == code["main"] # <<>> /\ Step("main") \in X

\* The card is in a stream: main sends blocks, or will send the stop token.
Streaming == active /\ ~MainIs({"cmd23", "cmd25", "release"})

\* The boot has brought it to its transfer state.
Identified == inited \/ MainIs({"extcsd", "cache", "status"})

CardInv ==
  /\ phase = "run" => card.st = IF Streaming THEN "rcv" ELSE "tran"
  /\ phase = "boot" /\ Identified => card.st = "tran"

LEMMA MainIsNext ==
  ASSUME IndInv, NEW c \in Seq(Steps) \ {<<>>}, Scripted(c), Goes("main"), NEW X
  PROVE  MainIs(X)' <=> Tail(c) # <<>> /\ Head(Tail(c)) \in X
<1>1. code'["main"] = IF Tail(c) = <<>> THEN <<>> ELSE <<Tail(c)>>
  <2>1. Advance(<<c>>) = IF Tail(c) = <<>> THEN <<>> ELSE <<Tail(c)>>
    BY OneCall
  <2> QED
    BY <2>1, GoesAdvances DEF Scripted
<1>2. CASE Tail(c) = <<>>
  BY <1>1, <1>2 DEF MainIs
<1>3. CASE Tail(c) # <<>>
  <2>1. code'["main"] # <<>> /\ Head(code'["main"]) = Tail(c)
    BY <1>1, <1>3
  <2> QED
    BY <1>3, <2>1 DEF MainIs, Step
<1> QED
  BY <1>2, <1>3

\* The steps in which nothing about the card is decided.
LEMMA CardStays ==
  ASSUME CardInv, UNCHANGED <<phase, active>>, card'.st = card.st,
         phase = "run" /\ active =>
           (MainIs({"cmd23", "cmd25", "release"})' <=> MainIs({"cmd23", "cmd25", "release"})),
         phase = "boot" /\ Identified' => Identified
  PROVE  CardInv'
BY DEF CardInv, Streaming

LEMMA CardFeed ==
  ASSUME NoneMissed, IndInv, CardInv, Feed \/ FeedFill
  PROVE  CardInv'
<1>1. code'["main"] = code["main"] /\ UNCHANGED <<inited, active, phase>>
  <2>1. CASE Feed
    BY <2>1, FeedLeavesMain
  <2>2. CASE FeedFill
    BY <2>2 DEF FeedFill, IndInv, Function, Threads
  <2> QED
    BY <2>1, <2>2
<1>2. card' = card
  BY DEF Feed, Common, FeedFill, Lock, Unlock, Test, Entry, Read, Scratch,
     ReadN, Outcomes, NoneMissed
<1> QED
  BY <1>1, <1>2, CardStays DEF MainIs, Step, Identified

\* A call with an outline has none of the steps of a session.
LEMMA PlainIs ==
  ASSUME Plain
  PROVE  ~MainIs({"cmd23", "cmd25", "release"})
<1>1. code["main"] # <<>> => Step("main") \in PlainSteps
  BY CallsParts, StepSets DEF Plain, Working, Step
<1> QED
  BY <1>1 DEF MainIs, PlainSteps

LEMMA CardPlain ==
  ASSUME VarsOK, IndInv, CardInv, Main, Plain, Step("main") \in PlainSteps
  PROVE  CardInv'
<1>1. (Common("main") \/ Write("main")) /\ UNCHANGED <<phase, active, inited, cacheOn>>
  BY PlainLeaves
<1>2. card'.st = card.st
  <2>1. CASE Common("main")
    BY <2>1 DEF Common, Lock, Unlock, Test, Entry, Read, Scratch
  <2>2. CASE Write("main")
    BY <2>2 DEF Write, VarsOK
  <2> QED
    BY <1>1, <2>1, <2>2
<1>3. ~MainIs({"cmd23", "cmd25", "release"})'
  <2>1. code'["main"] # <<>> => Head(Head(code'["main"])) \in PlainSteps
    BY PlainKeeps, CallsParts, StepSets DEF Plain, Working
  <2> QED
    BY <2>1 DEF MainIs, PlainSteps, Step
<1>4. phase = "run"
  BY DEF Plain
<1> QED
  BY <1>1, <1>2, <1>3, <1>4, PlainIs, CardStays

\* Lock, unlock, tests, data blocks and flushes.
LEMMA CardNeutral ==
  ASSUME VarsOK, IndInv, CardInv, NEW c \in Seq(Steps) \ {<<>>}, Scripted(c),
         Step("main") = Head(c),
         \/ Lock("main") \/ Unlock("main") \/ Test("main") \/ Data("main")
         \/ Flush("main")
  PROVE  CardInv'
<1>1. CASE Lock("main")
  <2>1. Head(c) = "lock" /\ ~Runnable("feed")
    BY <1>1, MainAt DEF Lock
  <2>2. owner \in {"none", "main"}
    BY <2>1, MainRuns DEF IndInv, BusInv, Threads
  <2>3. Goes("main") /\ UNCHANGED <<phase, active, inited, card>>
    BY <1>1, <2>2 DEF Lock
  <2>4. CASE Out(0)
    BY <2>3, <2>4, CardStays DEF Out
  <2>5. CASE c = Block /\ In(1)
    <3>1. Head(Tail(c)) = "data"
      BY <2>5 DEF Block
    <3> QED
      BY <2>1, <2>3, <2>5, <3>1, MainIsNext, CardStays DEF MainIs, In
  <2>6. CASE c = Boot /\ Up(0) /\ ~inited
    <3>1. Head(Tail(c)) = "cycle"
      BY <2>6 DEF Boot
    <3> QED
      BY <2>3, <2>6, <3>1, MainIsNext, CardStays DEF Up, Identified
  <2> QED
    BY <2>1, <2>4, <2>5, <2>6, ScriptHeads
<1>2. CASE Unlock("main")
  <2>1. Head(c) = "unlock"
    BY <1>2, MainAt DEF Unlock
  <2>2. Held("main") >= 1
    BY <1>2, MainUnlocks
  <2>3. /\ code'["main"] = Advance(code["main"]) /\ UNCHANGED <<active, inited, card>>
        /\ phase # "boot" => phase' = phase
        /\ phase = "boot" => phase' = IF inited THEN "run" ELSE "blink"
    BY <1>2, <2>2, UnlockMain
  <2>4. CASE Out(1)
    BY <2>3, <2>4, CardStays DEF Out
  <2>5. CASE c = <<"unlock">> /\ In(2)
    <3>1. Tail(c) = <<>>
      BY <2>5
    <3>2. code'["main"] = <<>>
      BY <2>3, <3>1, ScriptEnds
    <3> QED
      BY <2>1, <2>3, <2>5, <3>2, CardStays DEF MainIs, In
  <2>6. CASE Up(1)
    BY <2>3, <2>6 DEF Up, CardInv, Streaming, Identified
  <2> QED
    BY <2>1, <2>4, <2>5, <2>6, ScriptHeads
<1>3. CASE Test("main")
  <2>1. Head(c) \in {"testBegin", "testEnd"}
    BY <1>3, MainAt, ScriptHeads DEF Test, Tests
  <2>2. UNCHANGED <<phase, active, inited, card>>
    BY <1>3 DEF Test
  <2>3. CASE Head(c) = "testBegin"
    BY <2>2, <2>3, ScriptHeads, CardStays DEF Out
  <2>4. CASE Head(c) = "testEnd"
    <3>1. c = End /\ In(1)
      BY <2>4, ScriptHeads
    <3>2. Goes("main")
      BY <1>3, <2>4, <3>1 DEF Test, GoesOrFails, Passes, In
    <3>3. Head(Tail(c)) = "stop"
      BY <3>1 DEF End
    <3> QED
      BY <2>2, <2>4, <3>1, <3>2, <3>3, MainIsNext, CardStays DEF MainIs, In
  <2> QED
    BY <2>1, <2>3, <2>4
<1>4. CASE Data("main")
  <2>1. Head(c) = "data" /\ Goes("main")
    BY <1>4, MainAt DEF Data
  <2>2. c = <<"data", "unlock">> /\ In(2)
    BY <2>1, ScriptHeads
  <2>3. UNCHANGED <<phase, active, inited>> /\ card'.st = card.st
    BY <1>4 DEF Data, VarsOK
  <2>4. Head(Tail(c)) = "unlock"
    BY <2>2
  <2> QED
    BY <2>1, <2>2, <2>3, <2>4, MainIsNext, CardStays DEF MainIs, In
<1>5. CASE Flush("main")
  <2>1. Head(c) = "flush"
    BY <1>5, MainAt DEF Flush
  <2>2. Out(1)
    BY <2>1, ScriptHeads
  <2>3. UNCHANGED <<phase, active, inited>> /\ card'.st = card.st
    BY <1>5 DEF Flush, VarsOK
  <2> QED
    BY <2>2, <2>3, CardStays DEF Out
<1> QED
  BY <1>1, <1>2, <1>3, <1>4, <1>5


\* A command of begin that fails, and a step of the boot that does.
LEMMA MainFailed ==
  ASSUME IndInv, Fails("main"), NEW c \in Seq(Steps) \ {<<>>}, Scripted(c), NEW X
  PROVE  /\ Step("main") \in {"cmd23", "cmd25"} =>
              (MainIs(X)' <=> "release" \in X)
         /\ Step("main") \notin {"cmd23", "cmd25"} /\ ~active /\ Held("main") = 1 =>
              (MainIs(X)' <=> "unlock" \in X)
<1>1. code'["main"] = Put(AfterFailure("main"), <<c>>)
  BY DEF Fails, Scripted, IndInv, Function, Threads
<1>2. ASSUME NEW x \in Seq(Steps) \ {<<>>}, AfterFailure("main") = x
      PROVE  MainIs(X)' <=> Head(x) \in X
  <2>1. code'["main"] = <<x>>
    BY <1>1, <1>2, OneCall
  <2>2. code'["main"] # <<>> /\ Head(code'["main"]) = x
    BY <2>1
  <2> QED
    BY <2>2 DEF MainIs, Step
<1>3. CASE Step("main") \in {"cmd23", "cmd25"}
  <2>1. AfterFailure("main") = <<"release", "unlock">>
    BY <1>3 DEF AfterFailure
  <2>2. <<"release", "unlock">> \in Seq(Steps) \ {<<>>}
    BY DEF Steps
  <2>3. Head(<<"release", "unlock">>) = "release"
    OBVIOUS
  <2> QED
    BY <1>2, <1>3, <2>1, <2>2, <2>3
<1>4. CASE Step("main") \notin {"cmd23", "cmd25"} /\ ~active /\ Held("main") = 1
  <2>1. AfterFailure("main") = <<"unlock">>
    BY <1>4, FewUnlocks DEF AfterFailure, Unwind, Taken
  <2>2. <<"unlock">> \in Seq(Steps) \ {<<>>} /\ Head(<<"unlock">>) = "unlock"
    BY DEF Steps
  <2> QED
    BY <1>2, <1>4, <2>1, <2>2
<1> QED
  BY <1>3, <1>4

\* The commands of a session.
LEMMA CardSession ==
  ASSUME NoneMissed, VarsOK, IndInv, CardInv, NEW c \in Seq(Steps) \ {<<>>},
         Scripted(c), Step("main") = Head(c),
         Flag("main") \/ Cmd23("main") \/ Cmd25("main") \/ Stop("main")
  PROVE  CardInv'
<1> DEFINE ending == {"cmd23", "cmd25", "release"}
<1>1. phase' = phase
  BY DEF Flag, Cmd23, Cmd25, Stop
<1>2. CASE Flag("main")
  <2>1. Head(c) \in {"claim", "release"}
    BY <1>2, MainAt DEF Flag
  <2>2. Goes("main") /\ active' = (Head(c) = "claim") /\ card' = card
    BY <1>2 DEF Flag
  <2>3. CASE Head(c) = "claim"
    <3>1. c = <<"claim", "cmd23", "cmd25">> /\ Out(1)
      BY <2>3, ScriptHeads
    <3>2. Tail(c) # <<>> /\ Head(Tail(c)) = "cmd23"
      BY <3>1
    <3>3. MainIs(ending)'
      BY <2>2, <3>2, MainIsNext
    <3> QED
      BY <1>1, <2>2, <3>1, <3>3 DEF CardInv, Streaming, Out
  <2>4. CASE Head(c) = "release"
    <3>1. In(1)
      BY <2>4, ScriptHeads
    <3>2. MainIs(ending)
      BY <1>2, <2>4, MainAt DEF MainIs, Flag
    <3> QED
      BY <1>1, <2>2, <2>4, <3>1, <3>2 DEF CardInv, Streaming, In
  <2> QED
    BY <2>1, <2>3, <2>4
<1>3. CASE Cmd23("main")
  <2>1. Head(c) = "cmd23" /\ code["main"] # <<>>
    BY <1>3, MainAt DEF Cmd23
  <2>2. c = <<"cmd23", "cmd25">> /\ In(1)
    BY <2>1, ScriptHeads
  <2>3. UNCHANGED <<active, card>> /\ (Goes("main") \/ Fails("main"))
    BY <1>3 DEF Cmd23, GoesOrFails
  <2>4. MainIs(ending) /\ Tail(c) # <<>> /\ Head(Tail(c)) = "cmd25"
    BY <2>1, <2>2 DEF MainIs
  <2>5. CASE Goes("main")
    <3>1. MainIs(ending)'
      BY <2>4, <2>5, MainIsNext
    <3> QED
      BY <1>1, <2>2, <2>3, <2>4, <3>1 DEF CardInv, Streaming, In
  <2>6. CASE Fails("main")
    <3>1. MainIs(ending)'
      BY <2>1, <2>6, MainFailed
    <3> QED
      BY <1>1, <2>2, <2>3, <2>4, <3>1 DEF CardInv, Streaming, In
  <2> QED
    BY <2>3, <2>5, <2>6
<1>4. CASE Cmd25("main")
  <2>1. Head(c) = "cmd25" /\ code["main"] # <<>>
    BY <1>4, MainAt DEF Cmd25
  <2>2. c = <<"cmd25">> /\ In(1)
    BY <2>1, ScriptHeads
  <2>3. MainIs(ending) /\ card.st = "tran" /\ Tail(c) = <<>>
    BY <2>1, <2>2 DEF MainIs, CardInv, Streaming, In
  <2>4. /\ active' = active
        /\ \/ Goes("main") /\ card' = [card EXCEPT !.st = "rcv"]
           \/ Fails("main") /\ card' = card
    BY <1>4, <2>3 DEF Cmd25, GoesOrFails, NoneMissed, Outcomes, Answers, Listening
  <2>5. CASE Goes("main") /\ card' = [card EXCEPT !.st = "rcv"]
    <3>1. ~MainIs(ending)'
      BY <2>3, <2>5, MainIsNext
    <3>2. card'.st = "rcv"
      BY <2>5 DEF VarsOK
    <3> QED
      BY <1>1, <2>2, <2>4, <3>1, <3>2 DEF CardInv, Streaming, In
  <2>6. CASE Fails("main") /\ card' = card
    <3>1. MainIs(ending)'
      BY <2>1, <2>6, MainFailed
    <3> QED
      BY <1>1, <2>2, <2>3, <2>4, <2>6, <3>1 DEF CardInv, Streaming, In
  <2> QED
    BY <2>4, <2>5, <2>6
<1>5. CASE Stop("main")
  <2>1. Head(c) = "stop" /\ code["main"] # <<>>
    BY <1>5, MainAt DEF Stop
  <2>2. c = <<"stop", "release", "flush", "unlock">> /\ In(1)
    BY <2>1, ScriptHeads
  <2>3. ~MainIs(ending) /\ card.st = "rcv"
    BY <2>1, <2>2 DEF MainIs, CardInv, Streaming, In
  <2>4. Goes("main") /\ active' = active /\ card'.st = "tran"
    BY <1>5, <2>3 DEF Stop, VarsOK
  <2>5. Tail(c) # <<>> /\ Head(Tail(c)) = "release"
    BY <2>2
  <2>6. MainIs(ending)'
    BY <2>4, <2>5, MainIsNext
  <2> QED
    BY <1>1, <2>2, <2>4, <2>6 DEF CardInv, Streaming, In
<1> QED
  BY <1>2, <1>3, <1>4, <1>5

\* Boot and power down.
LEMMA CardPower ==
  ASSUME VarsOK, IndInv, CardInv, NEW c \in Seq(Steps) \ {<<>>}, Scripted(c),
         Step("main") = Head(c),
         Cycle \/ Identify \/ CacheSwitch \/ Uninit \/ Cut
  PROVE  CardInv'
<1> DEFINE later == {"extcsd", "cache", "status"}
<1>1. CASE Cycle
  <2>1. c = <<"cycle", "identify", "extcsd", "cache", "status", "unlock">> /\ Up(1)
    BY <1>1, MainAt, ScriptHeads DEF Cycle
  <2>2. Goes("main") /\ phase' = phase /\ ~inited'
    BY <1>1 DEF Cycle
  <2>3. Head(Tail(c)) = "identify"
    BY <2>1
  <2>4. ~MainIs(later)'
    BY <2>2, <2>3, MainIsNext
  <2> QED
    BY <2>1, <2>2, <2>4 DEF CardInv, Identified, Up
<1>2. CASE Identify
  <2>1. Head(c) \in {"identify", "extcsd", "status"} /\ code["main"] # <<>>
    BY <1>2, MainAt DEF Identify
  <2>2. Up(1) /\ ~inited /\ phase' = phase
    BY <1>2, <2>1, ScriptHeads DEF Identify
  <2>8. \E ok \in BOOLEAN :
          /\ GoesOrFails("main", ok)
          /\ card' = IF ok /\ Step("main") = "identify"
                     THEN [card EXCEPT !.st = "tran"] ELSE card
          /\ inited' = (ok /\ Step("main") = "status")
    BY <1>2 DEF Identify, Outcomes
  <2>3. CASE Fails("main") /\ ~inited'
    <3>1. ~MainIs(later)'
      BY <2>1, <2>2, <2>3, MainFailed DEF Up
    <3> QED
      BY <2>2, <2>3, <3>1 DEF CardInv, Identified, Up
  <2>4. CASE Goes("main") /\ Head(c) = "identify"
    <3>1. PICK ok \in BOOLEAN :
            /\ GoesOrFails("main", ok)
            /\ card' = IF ok /\ Step("main") = "identify"
                       THEN [card EXCEPT !.st = "tran"] ELSE card
            /\ inited' = (ok /\ Step("main") = "status")
      BY <2>8
    <3>2. CASE ok
      BY <2>2, <2>4, <3>1, <3>2 DEF VarsOK, CardInv, Up
    <3>3. CASE ~ok
      <4>1. Fails("main") /\ ~inited'
        BY <3>1, <3>3 DEF GoesOrFails
      <4> QED
        BY <2>3, <4>1
    <3> QED
      BY <3>2, <3>3
  <2>5. CASE Head(c) # "identify"
    <3>1. card.st = "tran" /\ card' = card
      BY <1>2, <2>1, <2>2, <2>5 DEF Identify, CardInv, Identified, MainIs, Up
    <3> QED
      BY <2>2, <3>1 DEF CardInv, Up
  <2>7. Goes("main") \/ (Fails("main") /\ ~inited')
    <3>1. PICK ok \in BOOLEAN :
            /\ GoesOrFails("main", ok)
            /\ inited' = (ok /\ Step("main") = "status")
      BY <2>8
    <3>2. CASE ok
      <4>1. Goes("main")
        BY <3>1, <3>2 DEF GoesOrFails
      <4> QED
        BY <4>1
    <3>3. CASE ~ok
      <4>1. Fails("main")
        BY <3>1, <3>3 DEF GoesOrFails
      <4>2. ~inited'
        BY <3>1, <3>3
      <4> QED
        BY <4>1, <4>2
    <3> QED
      BY <3>2, <3>3
  <2> QED
    BY <2>3, <2>4, <2>5, <2>7
<1>3. CASE CacheSwitch
  <2>1. Head(c) = "cache" /\ code["main"] # <<>>
    BY <1>3, MainAt DEF CacheSwitch
  <2>2. Up(1) /\ phase' = phase /\ card'.st = card.st
    BY <1>3, <2>1, ScriptHeads DEF CacheSwitch, VarsOK
  <2>3. card.st = "tran"
    BY <2>1, <2>2 DEF CardInv, Identified, MainIs, Up
  <2> QED
    BY <2>2, <2>3 DEF CardInv, Up
<1>4. CASE Uninit
  <2>1. Out(0)
    BY <1>4, MainAt, ScriptHeads DEF Uninit
  <2> QED
    BY <1>4, <2>1 DEF Uninit, CardInv, Streaming, Out
<1>5. CASE Cut
  BY <1>5 DEF Cut, CardInv
<1> QED
  BY <1>1, <1>2, <1>3, <1>4, <1>5

LEMMA CardMain ==
  ASSUME NoneMissed, VarsOK, IndInv, CardInv, Main
  PROVE  CardInv'
<1>1. CASE Plain /\ Step("main") \in PlainSteps
  BY <1>1, CardPlain
<1>2. CASE \E c \in Seq(Steps) \ {<<>>} : Scripted(c) /\ Step("main") = Head(c)
  <2>1. PICK c \in Seq(Steps) \ {<<>>} : Scripted(c) /\ Step("main") = Head(c)
    BY <1>2
  <2>2. ~Entry("main") /\ ~Read("main") /\ ~Scratch("main") /\ ~Write("main")
    BY <2>1, ScriptHeads DEF Entry, Read, Scratch, Write, At
  <2> QED
    BY <2>1, <2>2, CardNeutral, CardSession, CardPower DEF Main, Common, MainOnly
<1> QED
  BY <1>1, <1>2, MainStep

\* A call of main, and a reset.
LEMMA CardStarts ==
  ASSUME IndInv, CardInv, MainCall \/ Reset
  PROVE  CardInv'
<1>1. CASE MainCall
  <2>1. PICK call \in MainCalls : code' = [code EXCEPT !["main"] = <<call>>]
    BY <1>1 DEF MainCall
  <2>2. phase = "run" /\ UNCHANGED <<phase, active, card>> /\ code["main"] = <<>>
    BY <1>1 DEF MainCall
  <2>3. CASE active
    <3>1. Head(call) \in {"lock", "testEnd", "test"}
      BY <2>1, <2>3 DEF MainCalls, Block, End, Unguarded, ReadBlock, WriteBlock,
         WriteSong, Load, Store
    <3>2. code'["main"] = <<call>>
      BY <2>1 DEF IndInv, Function, Threads
    <3>3. Head(code'["main"]) = call
      BY <3>2
    <3> QED
      BY <2>2, <3>1, <3>3 DEF CardInv, Streaming, MainIs, Step
  <2> QED
    BY <2>2, <2>3 DEF CardInv, Streaming
<1>2. CASE Reset
  <2>1. code'["main"] = <<Boot>> /\ phase' = "boot" /\ ~inited'
    BY <1>2 DEF Reset, Fresh
  <2>2. Head(code'["main"]) = Boot /\ Head(Boot) = "lock"
    BY <2>1 DEF Boot
  <2> QED
    BY <2>1, <2>2 DEF CardInv, Identified, MainIs, Step
<1> QED
  BY <1>1, <1>2

LEMMA CardHolds ==
  ASSUME NoneMissed
  PROVE  Spec => []CardInv
<1>1. Init => CardInv
  <2> SUFFICES ASSUME Init PROVE CardInv
    OBVIOUS
  <2>1. code["main"] = <<Boot>> /\ phase = "boot" /\ ~inited
    BY DEF Init, Fresh
  <2>2. Head(code["main"]) = Boot /\ Head(Boot) = "lock"
    BY <2>1 DEF Boot
  <2> QED
    BY <2>1, <2>2 DEF CardInv, Identified, MainIs, Step
<1>2. IndInv /\ VarsOK /\ CardInv /\ [Next]_vars => CardInv'
  <2> SUFFICES ASSUME IndInv, VarsOK, CardInv, [Next]_vars PROVE CardInv'
    OBVIOUS
  <2>1. CASE UNCHANGED vars
    BY <2>1 DEF vars, CardInv, Streaming, Identified, MainIs, Step
  <2> QED
    BY <2>1, CardFeed, CardMain, CardStarts DEF Next
<1> QED
  BY <1>1, <1>2, Inductive, VarsHold, PTL DEF Spec

(***************************************************************************)
(* What the card is told, and what is left when a call is over.            *)
(***************************************************************************)
LEMMA SessionOwns ==
  ASSUME IndInv
  PROVE  /\ active => phase = "run" /\ owner = "main"
         /\ inited => phase \in {"boot", "run"}
         /\ phase = "blink" => owner # "main"
<1>1. CASE Plain
  <2>1. PICK a \in State : a.held = Taken("main")
    BY <1>1 DEF Plain, Working, Fits
  <2>2. active => owner = "main"
    BY <2>1, StateParts DEF Taken, Held
  <2> QED
    BY <1>1, <2>2 DEF Plain
<1>2. CASE code["main"] = <<>> /\ Idle
  BY <1>2 DEF Idle, Held, IndInv, BusInv
<1>3. CASE \E c \in Seq(Steps) \ {<<>>} : Scripted(c)
  <2>1. PICK c : Session(c) \/ Down(c) \/ Booting(c)
    BY <1>3 DEF Scripted
  <2> QED
    BY <2>1 DEF Session, Down, Booting, Out, In, Up, Held
<1> QED
  BY <1>1, <1>2, <1>3 DEF IndInv, MainInv

\* A command goes out only from the thread that holds the bus and to the card
\* the thread thinks is there, whatever fails short of an answer to CMD18 or
\* CMD25 that the driver misses.  The feed thread's never get into an open CMD25
\* stream; of main's, only the single-block commands of the handlers that do not
\* look at the session do, and they do while it is open (usb.c:582-605, against
\* emmc.c:750-751).
THEOREM CommandsAreLegal == ASSUME NoneMissed PROVE Spec => []Legal
<1>1. IndInv /\ CardInv => Legal
  <2> SUFFICES ASSUME IndInv, CardInv, NEW t \in Threads
               PROVE  /\ At(t, {"readN", "cmd23", "cmd25"})
                           => owner = t /\ card.st = "tran"
                      /\ At(t, {"read", "load", "write", "store"})
                           => /\ owner = t
                              /\ card.st = IF t = "main" /\ active
                                          THEN "rcv" ELSE "tran"
                      /\ At(t, {"stop"}) => owner = t /\ card.st = "rcv"
                      /\ At(t, {"data"}) => owner = t /\ (active => card.st = "rcv")
    BY DEF Legal
  <2> DEFINE all == {"read", "load", "readN", "write", "store", "cmd23",
                     "cmd25", "stop", "data"}
             single == {"read", "load", "write", "store"}
  <2>1. ASSUME NEW X \in SUBSET all, At(t, X) PROVE At(t, all)
    BY <2>1 DEF At
  <2>2. SUFFICES ASSUME At(t, all)
                 PROVE  /\ owner = t
                        /\ Step(t) \in {"stop", "data"} /\ active =>
                             card.st = "rcv"
                        /\ Step(t) = "stop" => active
                        /\ Step(t) \in {"readN", "cmd23", "cmd25"} => card.st = "tran"
                        /\ Step(t) \in single =>
                             card.st = IF t = "main" /\ active THEN "rcv" ELSE "tran"
    <3>1. /\ {"readN", "cmd23", "cmd25"} \in SUBSET all /\ single \in SUBSET all
          /\ {"stop"} \in SUBSET all /\ {"data"} \in SUBSET all
      OBVIOUS
    <3> QED
      BY <2>1, <3>1 DEF At
  <2>3. Step(t) \in all /\ code[t] # <<>>
    BY <2>2 DEF At, MayRun, Runnable
  <2>4. CASE t = "feed"
    <3>1. Working("feed", FeedSteps) /\ code["feed"] # <<>>
      BY <2>3, <2>4 DEF IndInv, FeedInv
    <3>2. Step("feed") \in FeedSteps
      BY <2>2, <2>4, <3>1, Runs, PlainSubset DEF IndInv
    <3>3. Step("feed") \in Commands
      BY <2>3, <2>4, <3>2 DEF FeedSteps, Commands
    <3>4. owner = "feed" /\ inited
      BY <2>2, <2>4, <3>1, <3>3, Runs, PlainSubset DEF IndInv
    <3>5. phase = "run" /\ ~active
      BY <3>1, <3>4, SessionOwns DEF IndInv, FeedInv
    <3>6. card.st = "tran"
      BY <3>5 DEF CardInv, Streaming
    <3> QED
      BY <2>4, <3>3, <3>4, <3>6 DEF Commands
  <2>5. CASE t = "main"
    <3>1. At("main", all)
      BY <2>2, <2>5
    <3>2. CASE Plain
      <4>1. Step("main") \in PlainSteps /\ Step("main") \in Commands
        BY <2>3, <2>5, <3>1, <3>2, Runs, PlainSubset
           DEF IndInv, Plain, PlainSteps, Commands
      <4>2. owner = "main"
        BY <2>5, <3>1, <3>2, <4>1, Runs, PlainSubset DEF IndInv, Plain
      <4>3. card.st = IF active THEN "rcv" ELSE "tran"
        BY <3>2, PlainIs DEF Plain, CardInv, Streaming
      <4>4. Step("main") \in single
        BY <4>1 DEF Commands, PlainSteps
      <4> QED
        BY <2>5, <4>2, <4>3, <4>4
    <3>3. CASE \E c \in Seq(Steps) \ {<<>>} : Scripted(c) /\ Step("main") = Head(c)
      <4>1. Step("main") \in {"cmd23", "cmd25", "stop", "data"} /\ (In(1) \/ In(2))
        BY <2>3, <2>5, <3>3, ScriptHeads
      <4>2. owner = "main" /\ active /\ phase = "run"
        BY <4>1, SessionOwns DEF In
      <4>3. CASE Step("main") \in {"cmd23", "cmd25"}
        BY <2>3, <2>5, <4>2, <4>3 DEF CardInv, Streaming, MainIs
      <4>4. CASE Step("main") \in {"stop", "data"}
        BY <2>3, <2>5, <4>2, <4>4 DEF CardInv, Streaming, MainIs
      <4> QED
        BY <2>5, <4>1, <4>2, <4>3, <4>4
    <3> QED
      BY <3>1, <3>2, <3>3, MainAt
  <2> QED
    BY <2>4, <2>5 DEF Threads
<1> QED
  BY <1>1, Inductive, CardHolds, PTL

\* No path through a call leaves the bus held or releases what it does not
\* hold, and between two calls g_multi_active tells whether the card is in a
\* stream (emmc.c:834-867, 896-902).
THEOREM CallsSettle == ASSUME NoneMissed PROVE Spec => []Settled
<1>1. IndInv /\ VarsOK /\ CardInv => Settled
  <2> SUFFICES ASSUME IndInv, VarsOK, CardInv PROVE Settled
    OBVIOUS
  <2>1. code["feed"] = <<>> => owner # "feed"
    BY NoCall DEF IndInv, FeedInv, BusInv, Taken, Held, Threads
  <2>2. phase = "blink" => owner = "none"
    BY <2>1, SessionOwns DEF IndInv, FeedInv, BusInv, Threads
  <2>3. ASSUME InRun
        PROVE  /\ active = (card.st = "rcv")
               /\ active = (owner = "main")
               /\ active => depth = 1
    <3>1. phase = "run" /\ code["main"] = <<>> /\ ~MainIs({"cmd23", "cmd25", "release"})
      BY <2>3 DEF InRun, MainIs
    <3>2. Plain
      BY <3>1, OneCall DEF IndInv, MainInv, Scripted, Idle
    <3>3. Taken("main") = 0 /\ Held("main") \in Nat
      BY <3>1, <3>2, NoCall, HeldTypes DEF Plain, IndInv, Threads
    <3>4. CASE ~active
      <4>1. owner # "main" /\ card.st = "tran"
        BY <3>1, <3>3, <3>4 DEF CardInv, Streaming, Taken, Held, IndInv, BusInv
      <4> QED
        BY <3>4, <4>1 DEF VarsOK
    <3>5. CASE active
      <4>1. owner = "main" /\ depth = 1 /\ card.st = "rcv"
        BY <3>1, <3>3, <3>5 DEF CardInv, Streaming, Taken, Held
      <4> QED
        BY <3>5, <4>1 DEF VarsOK
    <3> QED
      BY <3>4, <3>5
  <2> QED
    BY <2>1, <2>2, <2>3 DEF Settled, IndInv, BusInv
<1> QED
  BY <1>1, Inductive, VarsHold, CardHolds, PTL

(***************************************************************************)
(* The card's write cache, when main can rely on the flush and on what it  *)
(* believes of the cache.                                                  *)
(***************************************************************************)
SureOfCache == NoneMissed /\ "flush" \notin Faults /\ "unsure" \notin Faults

\* The calls that are left of a power down behind its flush.
LastCalls == {<<"unlock", "uninit", "cut">>, <<"uninit", "cut">>, <<"cut">>}
Flushed == \E c \in LastCalls : code["main"] = <<c>>

CacheInv ==
  /\ phase # "boot" /\ card.dirty => card.cache
  /\ phase = "boot" /\ ~MainIs({"lock", "cycle"}) => ~card.dirty
  /\ inited \/ MainIs({"status"}) => cacheOn = card.cache
  /\ Flushed => ~card.dirty
  /\ phase = "sleep" => card.st = "off" /\ ~card.dirty

LEMMA LastCallTexts ==
  ASSUME NEW c \in LastCalls
  PROVE  c \in Seq(Steps) \ {<<>>} /\ c \notin Seq(PlainSteps)
<1>1. ASSUME NEW d \in Seq(Steps), NEW i \in 1 .. Len(d), d[i] = "cut"
      PROVE  d \notin Seq(PlainSteps)
  BY <1>1 DEF PlainSteps
<1>2. CASE c = <<"unlock", "uninit", "cut">>
  <2>1. c \in Seq(Steps) /\ 3 \in 1 .. Len(c) /\ c[3] = "cut"
    BY <1>2 DEF Steps
  <2> QED
    BY <1>1, <1>2, <2>1
<1>3. CASE c = <<"uninit", "cut">>
  <2>1. c \in Seq(Steps) /\ 2 \in 1 .. Len(c) /\ c[2] = "cut"
    BY <1>3 DEF Steps
  <2> QED
    BY <1>1, <1>3, <2>1
<1>4. CASE c = <<"cut">>
  <2>1. c \in Seq(Steps) /\ 1 \in 1 .. Len(c) /\ c[1] = "cut"
    BY <1>4 DEF Steps
  <2> QED
    BY <1>1, <1>4, <2>1
<1> QED
  BY <1>2, <1>3, <1>4 DEF LastCalls

LEMMA PlainNotFlushed ==
  ASSUME NEW c, <<c>> \in Calls(PlainSteps)
  PROVE  c \notin LastCalls
<1>1. c \in Seq(PlainSteps)
  <2>1. <<c>>[1] = c /\ Len(<<c>>) = 1
    OBVIOUS
  <2> DEFINE T == Seq(PlainSteps) \ {<<>>}
  <2>2. <<c>> \in Seq(T)
    BY DEF Calls
  <2> HIDE DEF T
  <2>3. <<c>>[1] \in T
    BY <2>1, <2>2
  <2> QED
    BY <2>1, <2>3 DEF T
<1> QED
  BY <1>1, LastCallTexts

LEMMA FlushedNext ==
  ASSUME NEW c \in Seq(Steps) \ {<<>>}, Scripted(c),
         code'["main"] = Advance(code["main"])
  PROVE  Flushed' <=> Tail(c) \in LastCalls
<1>1. code'["main"] = IF Tail(c) = <<>> THEN <<>> ELSE <<Tail(c)>>
  BY OneCall DEF Scripted
<1>2. CASE Tail(c) = <<>>
  <2>1. Tail(c) \notin LastCalls
    BY <1>2, LastCallTexts
  <2>2. ASSUME NEW d PROVE code'["main"] # <<d>>
    BY <1>1, <1>2
  <2> QED
    BY <2>1, <2>2 DEF Flushed
<1>3. CASE Tail(c) # <<>>
  <2>1. ASSUME NEW d PROVE code'["main"] = <<d>> <=> d = Tail(c)
    <3>1. code'["main"] = <<Tail(c)>>
      BY <1>1, <1>3
    <3>2. \A x, y : <<x>> = <<y>> => x = y
      OBVIOUS
    <3> QED
      BY <3>1, <3>2
  <2> QED
    BY <2>1 DEF Flushed
<1> QED
  BY <1>2, <1>3

\* Steps that leave the cache and what main knows of it alone.
LEMMA CacheStays ==
  ASSUME CacheInv, UNCHANGED <<phase, cacheOn>>, card'.cache = card.cache,
         card'.dirty = card.dirty, phase # "sleep" \/ card' = card,
         inited' \/ MainIs({"status"})' => inited \/ MainIs({"status"}),
         phase = "boot" /\ ~MainIs({"lock", "cycle"})' => ~MainIs({"lock", "cycle"}),
         Flushed' => Flushed
  PROVE  CacheInv'
BY DEF CacheInv

LEMMA CacheFeed ==
  ASSUME SureOfCache, IndInv, CacheInv, Feed \/ FeedFill
  PROVE  CacheInv'
<1>1. code'["main"] = code["main"] /\ UNCHANGED <<inited, cacheOn, phase>>
  <2>1. CASE Feed
    BY <2>1, FeedLeavesMain
  <2>2. CASE FeedFill
    BY <2>2 DEF FeedFill, IndInv, Function, Threads
  <2> QED
    BY <2>1, <2>2
<1>2. card' = card
  BY DEF Feed, Common, FeedFill, Lock, Unlock, Test, Entry, Read, Scratch,
     ReadN, Outcomes, SureOfCache, NoneMissed
<1> QED
  BY <1>1, <1>2, CacheStays DEF MainIs, Step, Flushed

LEMMA CachePlain ==
  ASSUME VarsOK, IndInv, CacheInv, Main, Plain, Step("main") \in PlainSteps
  PROVE  CacheInv'
<1>1. (Common("main") \/ Write("main")) /\ UNCHANGED <<phase, inited, cacheOn>>
  BY PlainLeaves
<1>2. card'.cache = card.cache /\ (card'.dirty => card.dirty \/ card.cache)
  <2>1. CASE Common("main")
    BY <2>1 DEF Common, Lock, Unlock, Test, Entry, Read, Scratch
  <2>2. CASE Write("main")
    BY <2>2 DEF Write, VarsOK
  <2> QED
    BY <1>1, <2>1, <2>2
<1>3. ~Flushed'
  <2>1. Plain'
    BY PlainKeeps
  <2> QED
    BY <2>1, PlainNotFlushed DEF Plain, Working, Flushed
<1> QED
  BY <1>1, <1>2, <1>3 DEF CacheInv, Plain

\* Main goes on, in a session or at power down, to a step of no consequence.
LEMMA CacheGoes ==
  ASSUME CacheInv, NEW c \in Seq(Steps) \ {<<>>}, Scripted(c),
         code'["main"] = Advance(code["main"]), Tail(c) \notin LastCalls,
         phase = "run", UNCHANGED <<phase, inited, cacheOn>>, inited,
         card'.cache = card.cache, card'.dirty => card.dirty \/ card.cache
  PROVE  CacheInv'
<1>1. ~Flushed'
  BY FlushedNext
<1> QED
  BY <1>1 DEF CacheInv

LEMMA CacheSession ==
  ASSUME VarsOK, IndInv, CacheInv, NEW c \in Seq(Steps) \ {<<>>}, Scripted(c),
         Step("main") = Head(c),
         \/ Test("main") \/ Flag("main") \/ Cmd23("main") \/ Cmd25("main")
         \/ Data("main") \/ Stop("main")
  PROVE  CacheInv'
<1>1. /\ UNCHANGED <<phase, inited, cacheOn>> /\ card'.cache = card.cache
      /\ card'.dirty => card.dirty \/ card.cache
  BY DEF Test, Flag, Cmd23, Cmd25, Data, Stop, VarsOK
<1>2. Head(c) \in {"testBegin", "testEnd", "claim", "release", "cmd23", "cmd25",
                   "data", "stop"}
  BY MainAt, ScriptHeads DEF Test, Tests, Flag, Cmd23, Cmd25, Data, Stop
<1>3. phase = "run" /\ inited
  BY <1>2, ScriptHeads DEF Out, In
<1>4. c \in {Begin, End, <<"claim", "cmd23", "cmd25">>, <<"release", "unlock">>,
             <<"release", "flush", "unlock">>, <<"cmd23", "cmd25">>,
             <<"cmd25">>, <<"data", "unlock">>,
             <<"stop", "release", "flush", "unlock">>}
  BY <1>2, ScriptHeads
<1>5. Tail(c) \notin LastCalls
  <2>1. CASE c = Begin
    BY <2>1 DEF LastCalls, Begin
  <2>2. CASE c = End
    BY <2>2 DEF LastCalls, End
  <2>3. CASE c = <<"claim", "cmd23", "cmd25">>
    BY <2>3 DEF LastCalls
  <2>4. CASE c = <<"release", "unlock">>
    <3>1. Tail(c) = <<"unlock">>
      BY <2>4
    <3> QED
      BY <3>1 DEF LastCalls
  <2>5. CASE c = <<"release", "flush", "unlock">>
    BY <2>5 DEF LastCalls
  <2>6. CASE c = <<"cmd23", "cmd25">>
    BY <2>6 DEF LastCalls
  <2>7. CASE c = <<"cmd25">>
    BY <2>7 DEF LastCalls
  <2>8. CASE c = <<"data", "unlock">>
    <3>1. Tail(c) = <<"unlock">>
      BY <2>8
    <3> QED
      BY <3>1 DEF LastCalls
  <2>9. CASE c = <<"stop", "release", "flush", "unlock">>
    BY <2>9 DEF LastCalls
  <2> QED
    BY <1>4, <2>1, <2>2, <2>3, <2>4, <2>5, <2>6, <2>7, <2>8, <2>9
<1>6. CASE Goes("main")
  BY <1>1, <1>3, <1>5, <1>6, GoesAdvances, CacheGoes
<1>7. CASE Fails("main") /\ Head(c) \in {"cmd23", "cmd25"}
  <2>1. code'["main"] = <<<<"release", "unlock">>>>
    <3>1. code'["main"] = Put(<<"release", "unlock">>, <<c>>)
      BY <1>7 DEF Fails, AfterFailure, Scripted, IndInv, Function, Threads
    <3> QED
      BY <3>1, OneCall
  <2>2. <<"release", "unlock">> \notin LastCalls
    BY DEF LastCalls
  <2>3. \A x, y : <<x>> = <<y>> => x = y
    OBVIOUS
  <2>4. ~Flushed'
    BY <2>1, <2>2, <2>3 DEF Flushed
  <2> QED
    BY <1>1, <1>3, <2>4 DEF CacheInv
<1>8. CASE Test("main")
  <2>1. Head(c) \in {"testBegin", "testEnd"}
    BY <1>8, MainAt, ScriptHeads DEF Test, Tests
  <2>2. Passes(Step("main"))
    BY <2>1, ScriptHeads DEF Passes, Out, In
  <2>3. Goes("main")
    BY <1>8, <2>2 DEF Test, GoesOrFails
  <2> QED
    BY <1>6, <2>3
<1>9. CASE Cmd23("main") \/ Cmd25("main")
  <2>1. Head(c) \in {"cmd23", "cmd25"} /\ (Goes("main") \/ Fails("main"))
    BY <1>9, MainAt DEF Cmd23, Cmd25, GoesOrFails
  <2> QED
    BY <1>6, <1>7, <2>1
<1> QED
  BY <1>6, <1>8, <1>9 DEF Flag, Data, Stop

LEMMA CacheLocks ==
  ASSUME IndInv, CacheInv, NEW c \in Seq(Steps) \ {<<>>}, Scripted(c),
         Step("main") = Head(c), Lock("main") \/ Unlock("main")
  PROVE  CacheInv'
<1>1. CASE Lock("main")
  <2>1. Head(c) = "lock" /\ ~Runnable("feed")
    BY <1>1, MainAt DEF Lock
  <2>2. owner \in {"none", "main"}
    BY <2>1, MainRuns DEF IndInv, BusInv, Threads
  <2>3. Goes("main") /\ UNCHANGED <<phase, inited, cacheOn, card>>
    BY <1>1, <2>2 DEF Lock
  <2>4. CASE phase = "run" /\ inited
    <3>1. c \in {<<"lock", "claim", "cmd23", "cmd25">>, PowerDown, Block}
      BY <2>1, <2>4, ScriptHeads DEF Up
    <3>2. Tail(c) \notin LastCalls
      <4>1. CASE c = <<"lock", "claim", "cmd23", "cmd25">>
        BY <4>1 DEF LastCalls
      <4>2. CASE c = PowerDown
        BY <4>2 DEF LastCalls, PowerDown
      <4>3. CASE c = Block
        BY <4>3 DEF LastCalls, Block
      <4> QED
        BY <3>1, <4>1, <4>2, <4>3
    <3> QED
      BY <2>3, <2>4, <3>2, GoesAdvances, CacheGoes
  <2>5. CASE c = Boot /\ Up(0) /\ ~inited
    <3>1. Tail(c) \notin LastCalls /\ Head(Tail(c)) = "cycle" /\ Tail(c) # <<>>
      BY <2>5 DEF LastCalls, Boot
    <3>2. MainIs({"lock", "cycle"})' /\ ~MainIs({"status"})' /\ ~Flushed'
      BY <2>3, <3>1, MainIsNext, FlushedNext, GoesAdvances
    <3> QED
      BY <2>3, <2>5, <3>2 DEF CacheInv, Up
  <2> QED
    BY <2>1, <2>4, <2>5, ScriptHeads DEF Out, In
<1>2. CASE Unlock("main")
  <2>1. Head(c) = "unlock" /\ code["main"] # <<>>
    BY <1>2, MainAt DEF Unlock
  <2>2. Held("main") >= 1
    BY <1>2, MainUnlocks
  <2>3. /\ code'["main"] = Advance(code["main"]) /\ UNCHANGED <<inited, cacheOn, card>>
        /\ phase # "boot" => phase' = phase
        /\ phase = "boot" => phase' = IF inited THEN "run" ELSE "blink"
    BY <1>2, <2>2, UnlockMain
  <2>4. CASE c = <<"unlock">>
    <3>1. Tail(c) = <<>>
      BY <2>4
    <3>2. code'["main"] = <<>> /\ ~Flushed'
      <4>1. Tail(c) \notin LastCalls
        BY <3>1, LastCallTexts
      <4> QED
        BY <2>3, <3>1, <4>1, ScriptEnds, FlushedNext
    <3>3. ~MainIs({"status"})'
      BY <3>2 DEF MainIs
    <3>4. CASE phase = "run"
      BY <2>3, <3>2, <3>3, <3>4 DEF CacheInv
    <3>5. CASE phase = "boot"
      <4>1. ~card.dirty
        BY <2>1, <3>5 DEF CacheInv, MainIs
      <4> QED
        BY <2>3, <3>2, <3>3, <3>5, <4>1 DEF CacheInv
    <3> QED
      BY <2>1, <2>4, <3>4, <3>5, ScriptHeads DEF Out, In, Up
  <2>5. CASE c = <<"unlock", "uninit", "cut">> /\ Out(1)
    <3>1. Flushed
      BY <2>5 DEF Flushed, LastCalls, Scripted
    <3>2. ~card.dirty
      BY <3>1 DEF CacheInv
    <3> QED
      BY <2>3, <2>5, <3>2 DEF CacheInv, Out
  <2> QED
    BY <2>1, <2>4, <2>5, ScriptHeads
<1> QED
  BY <1>1, <1>2

\* A flush reaches a card that listens, and one whose cache main knows.
LEMMA CacheFlush ==
  ASSUME SureOfCache, VarsOK, IndInv, CardInv, CacheInv,
         NEW c \in Seq(Steps) \ {<<>>}, Scripted(c), Step("main") = Head(c),
         Flush("main")
  PROVE  CacheInv'
<1>1. Out(1)
  BY MainAt, ScriptHeads DEF Flush
<1>2. card.st = "tran" /\ cacheOn = card.cache /\ (card.dirty => card.cache)
  BY <1>1 DEF CardInv, CacheInv, Streaming, Out
<1>3. card' = IF cacheOn THEN [card EXCEPT !.dirty = FALSE] ELSE card
  BY <1>2 DEF Flush, SureOfCache, Outcomes, Answers, Listening
<1>4. ~card'.dirty /\ card'.cache = card.cache
  BY <1>2, <1>3 DEF VarsOK
<1> QED
  BY <1>1, <1>4 DEF Flush, CacheInv, Out

LEMMA CachePower ==
  ASSUME SureOfCache, VarsOK, IndInv, CacheInv,
         NEW c \in Seq(Steps) \ {<<>>}, Scripted(c), Step("main") = Head(c),
         Cycle \/ Identify \/ CacheSwitch \/ Uninit \/ Cut
  PROVE  CacheInv'
<1>1. CASE Cycle
  <2>1. c = <<"cycle", "identify", "extcsd", "cache", "status", "unlock">> /\ Up(1)
    BY <1>1, MainAt, ScriptHeads DEF Cycle
  <2>2. Goes("main") /\ phase' = phase /\ ~inited' /\ card'.dirty = FALSE
    BY <1>1 DEF Cycle, Off
  <2>3. Head(Tail(c)) = "identify"
    BY <2>1
  <2>4. ~MainIs({"status"})'
    BY <2>2, <2>3, MainIsNext
  <2> QED
    BY <2>1, <2>2, <2>4 DEF CacheInv, Up
<1>2. CASE Identify
  <2>1. Head(c) \in {"identify", "extcsd", "status"} /\ code["main"] # <<>>
    BY <1>2, MainAt DEF Identify
  <2>2. Up(1) /\ ~card.dirty /\ c # <<>>
    BY <2>1, ScriptHeads DEF CacheInv, Up, MainIs
  <2>3. /\ phase' = phase /\ cacheOn' = cacheOn /\ card'.cache = card.cache
        /\ ~card'.dirty
    BY <1>2, <2>2 DEF Identify, VarsOK
  <2>4. CASE Head(c) = "status"
    <3>1. cacheOn = card.cache
      BY <2>1, <2>4 DEF CacheInv, MainIs
    <3> QED
      BY <2>2, <2>3, <3>1 DEF CacheInv, Up
  <2>5. CASE Head(c) # "status"
    <3>1. ~inited' /\ (Goes("main") \/ Fails("main"))
      BY <1>2, <2>5 DEF Identify, GoesOrFails
    <3>2. Head(Tail(c)) \in {"extcsd", "cache"}
      <4>1. CASE Head(c) = "identify"
        <5>1. c = <<"identify", "extcsd", "cache", "status", "unlock">>
          BY <4>1, ScriptHeads
        <5> QED
          BY <5>1
      <4>2. CASE Head(c) = "extcsd"
        <5>1. c = <<"extcsd", "cache", "status", "unlock">>
          BY <4>2, ScriptHeads
        <5> QED
          BY <5>1
      <4> QED
        BY <2>1, <2>5, <4>1, <4>2
    <3>3. ~MainIs({"status"})'
      BY <2>1, <2>2, <3>1, <3>2, MainIsNext, MainFailed DEF Up
    <3> QED
      BY <2>2, <2>3, <3>1, <3>3 DEF CacheInv, Up
  <2> QED
    BY <2>4, <2>5
<1>3. CASE CacheSwitch
  <2>1. Head(c) = "cache" /\ code["main"] # <<>>
    BY <1>3, MainAt DEF CacheSwitch
  <2>2. Up(1) /\ ~card.dirty
    BY <2>1, ScriptHeads DEF CacheInv, Up, MainIs
  <2>3. /\ phase' = phase /\ cacheOn' = card'.cache /\ ~card'.dirty
    <3>1. PICK ok \in BOOLEAN : /\ card' = [card EXCEPT !.cache = ok]
                                /\ cacheOn' = (ok /\ TRUE)
      BY <1>3 DEF CacheSwitch, SureOfCache, Outcomes
    <3> QED
      BY <1>3, <2>2, <3>1 DEF CacheSwitch, VarsOK
  <2> QED
    BY <2>2, <2>3 DEF CacheInv, Up
<1>4. CASE Uninit
  <2>1. c = <<"uninit", "cut">> /\ Out(0)
    BY <1>4, MainAt, ScriptHeads DEF Uninit
  <2>2. Flushed
    BY <2>1 DEF Flushed, LastCalls, Scripted
  <2>3. Goes("main") /\ UNCHANGED <<phase, card>> /\ ~inited'
    BY <1>4 DEF Uninit
  <2>4. Head(Tail(c)) = "cut"
    BY <2>1
  <2>5. ~MainIs({"status"})'
    BY <2>3, <2>4, MainIsNext
  <2> QED
    BY <2>1, <2>2, <2>3, <2>5 DEF CacheInv, Out
<1>5. CASE Cut
  <2>1. c = <<"cut">> /\ phase = "run" /\ ~inited
    BY <1>5, MainAt, ScriptHeads DEF Cut
  <2>2. Flushed
    BY <2>1 DEF Flushed, LastCalls, Scripted
  <2>3. /\ Goes("main") /\ phase' = "sleep" /\ UNCHANGED <<inited, cacheOn>>
        /\ card'.st = "off" /\ card'.dirty = card.dirty
    BY <1>5 DEF Cut, VarsOK
  <2>4. Tail(c) = <<>>
    BY <2>1
  <2>5. ~MainIs({"status"})'
    BY <2>3, <2>4, MainIsNext
  <2> QED
    BY <2>1, <2>2, <2>3, <2>5 DEF CacheInv
<1> QED
  BY <1>1, <1>2, <1>3, <1>4, <1>5

LEMMA CacheMain ==
  ASSUME SureOfCache, VarsOK, IndInv, CardInv, CacheInv, Main
  PROVE  CacheInv'
<1>1. CASE Plain /\ Step("main") \in PlainSteps
  BY <1>1, CachePlain
<1>2. CASE \E c \in Seq(Steps) \ {<<>>} : Scripted(c) /\ Step("main") = Head(c)
  <2>1. PICK c \in Seq(Steps) \ {<<>>} : Scripted(c) /\ Step("main") = Head(c)
    BY <1>2
  <2>2. ~Entry("main") /\ ~Read("main") /\ ~Scratch("main") /\ ~Write("main")
    BY <2>1, ScriptHeads DEF Entry, Read, Scratch, Write, At
  <2> QED
    BY <2>1, <2>2, CacheSession, CacheLocks, CacheFlush, CachePower
       DEF Main, Common, MainOnly
<1> QED
  BY <1>1, <1>2, MainStep

LEMMA CacheStarts ==
  ASSUME IndInv, CacheInv, MainCall \/ Reset
  PROVE  CacheInv'
<1>1. \A x, y : <<x>> = <<y>> => x = y
  OBVIOUS
<1>2. CASE MainCall
  <2>1. PICK call \in MainCalls : code' = [code EXCEPT !["main"] = <<call>>]
    BY <1>2 DEF MainCall
  <2>2. phase = "run" /\ UNCHANGED <<phase, inited, cacheOn, card>>
    BY <1>2 DEF MainCall
  <2>3. call \notin LastCalls
    <3>1. CASE call \in BlockCalls
      <4>1. <<call>> \in Calls(PlainSteps)
        BY <3>1, BlockCallTexts, WholeLined, PlainSubset
      <4> QED
        BY <4>1, PlainNotFlushed
    <3>2. CASE call \in {Block, End, Begin, PowerDown}
      BY <3>2 DEF Block, End, Begin, PowerDown, LastCalls
    <3> QED
      BY <2>1, <3>1, <3>2, UnguardedPlain DEF MainCalls
  <2>4. inited
    <3>1. Plain \/ Idle
      BY <1>2, OneCall DEF MainCall, IndInv, MainInv, Scripted
    <3> QED
      BY <2>2, <3>1 DEF Plain, Idle
  <2>5. ~Flushed'
    <3>1. code'["main"] = <<call>>
      BY <2>1 DEF IndInv, Function, Threads
    <3> QED
      BY <1>1, <2>3, <3>1 DEF Flushed
  <2> QED
    BY <2>2, <2>4, <2>5 DEF CacheInv
<1>3. CASE Reset
  <2>1. /\ code'["main"] = <<Boot>> /\ phase' = "boot" /\ ~inited'
        /\ card' = card
    BY <1>3 DEF Reset, Fresh
  <2>2. Head(code'["main"]) = Boot /\ Head(Boot) = "lock" /\ code'["main"] # <<>>
    BY <2>1 DEF Boot
  <2>3. MainIs({"lock", "cycle"})' /\ ~MainIs({"status"})'
    BY <2>2 DEF MainIs, Step
  <2>4. Boot \notin LastCalls
    BY DEF Boot, LastCalls
  <2>5. ~Flushed'
    BY <1>1, <2>1, <2>4 DEF Flushed
  <2> QED
    BY <2>1, <2>3, <2>5 DEF CacheInv
<1> QED
  BY <1>2, <1>3

\* Behind an orderly power down the rail is cut and the card's cache holds no
\* unwritten block, when the answers to CMD18 and CMD25 are heard, the flush
\* is done and the switch of the cache is not misread (emmc.c:1024-1029).
THEOREM PowerDownIsClean == ASSUME SureOfCache PROVE Spec => []PoweredClean
<1>1. Init => CacheInv
  <2> SUFFICES ASSUME Init PROVE CacheInv
    OBVIOUS
  <2>1. /\ code["main"] = <<Boot>> /\ phase = "boot" /\ ~inited /\ ~card.dirty
    BY DEF Init, Fresh, Off
  <2>2. Head(code["main"]) = Boot /\ Head(Boot) = "lock"
    BY <2>1 DEF Boot
  <2> QED
    BY <2>1, <2>2 DEF CacheInv, MainIs, Step
<1>2. IndInv /\ VarsOK /\ CardInv /\ CacheInv /\ [Next]_vars => CacheInv'
  <2> SUFFICES ASSUME IndInv, VarsOK, CardInv, CacheInv, [Next]_vars PROVE CacheInv'
    OBVIOUS
  <2>1. CASE UNCHANGED vars
    BY <2>1 DEF vars, CacheInv, Flushed, MainIs, Step
  <2> QED
    BY <2>1, CacheFeed, CacheMain, CacheStarts DEF Next
<1>3. CacheInv => PoweredClean
  BY DEF CacheInv, PoweredClean
<1>4. NoneMissed
  BY DEF SureOfCache
<1> QED
  BY <1>1, <1>2, <1>3, <1>4, Inductive, VarsHold, CardHolds, PTL DEF Spec
=============================================================================
