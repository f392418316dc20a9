--------------------------- MODULE StbInfoProofs ---------------------------
(***************************************************************************)
(* Proofs about StbInfo: types, and that the store keeps its promise.      *)
(***************************************************************************)
EXTENDS MCStbInfo, WellFoundedInduction, TLAPS

(* What the searches in a sector return. *)

\* A set of natural numbers has a least element.
LEMMA LeastNat ==
  ASSUME NEW T, T \subseteq Nat, T # {}
  PROVE  \E x \in T : \A y \in T : x <= y
  <1> DEFINE Rel == OpToRel(<, Nat)
  <1>1. IsWellFoundedOn(Rel, Nat)
    BY NatLessThanWellFounded
  <1>2. \A x, y \in Nat : y < x => <<y, x>> \in Rel
    BY DEF OpToRel
  <1>3. \E x \in T : \A y \in T : <<y, x>> \notin Rel
    BY <1>1, WFMin, Zenon
  <1>4. \E x \in T : \A y \in T : ~ (y < x)
    <2> HIDE DEF Rel
    <2> QED BY <1>2, <1>3, Zenon
  <1> QED BY <1>4

\* stbinfo_backward_locate finds the last word from start down that is the id.
LEMMA LocateLast ==
  ASSUME NEW c, NEW start \in Int, NEW margin \in Nat, NEW id
  PROVE  LET w == Locate(c, start, margin, id)
         IN  \/ w = None /\ \A x \in margin .. start : c[x] # id
             \/ w \in margin .. start /\ c[w] = id /\ \A x \in w + 1 .. start : c[x] # id
  <1>1. CASE \A x \in margin .. start : c[x] # id
    BY <1>1 DEF Locate
  <1>2. CASE \E x \in margin .. start : c[x] = id
    <2> DEFINE T == {d \in 0 .. start : c[start - d] = id /\ start - d >= margin}
    <2>1. T \subseteq Nat OBVIOUS
    <2>2. T # {}
      <3>1. PICK x \in margin .. start : c[x] = id BY <1>2
      <3>2. start - x \in 0 .. start /\ start - (start - x) = x OBVIOUS
      <3>3. start - x \in T BY <3>1, <3>2
      <3> QED BY <3>3
    <2>3. PICK d \in T : \A e \in T : d <= e
      <3> HIDE DEF T
      <3> QED BY <2>1, <2>2, LeastNat
    <2>4. \A x \in start - d + 1 .. start : c[x] # id
      <3> SUFFICES ASSUME NEW x \in start - d + 1 .. start, c[x] = id PROVE FALSE
        OBVIOUS
      <3>1. start - x \in 0 .. start /\ start - (start - x) = x OBVIOUS
      <3>2. start - x \in T BY <3>1
      <3> QED BY <2>3, <3>2
    <2>5. start - d \in margin .. start /\ c[start - d] = id OBVIOUS
    <2> QED BY <1>2, <2>4, <2>5 DEF Locate
  <1> QED BY <1>1, <1>2

\* The search for a record ends, for it goes downwards: its recursion defines a function.
LEMMA HeadDefined ==
  ASSUME NEW tail, NEW start, S \in Nat,
         \A b \in 0 .. S : start[tail[b]] \in None .. b - 1
  PROVE  \E g : g = [b \in 0 .. S |->
           CASE start[tail[b]] = None -> None
             [] tail[b] - start[tail[b]] = L + 1 -> start[tail[b]]
             [] OTHER -> g[start[tail[b]]]]
  <1> DEFINE Step(g, b) == CASE start[tail[b]] = None -> None
                             [] tail[b] - start[tail[b]] = L + 1 -> start[tail[b]]
                             [] OTHER -> g[start[tail[b]]]
             P(n) == \E g : g = [b \in 0 .. n |-> Step(g, b)]
             T == {n \in 0 .. S : ~ P(n)}
  <1> SUFFICES ASSUME T # {} PROVE FALSE
    <2>1. S \notin T OBVIOUS
    <2> QED BY <2>1
  <1>1. PICK m \in T : \A n \in T : m <= n
    <2>1. T \subseteq Nat OBVIOUS
    <2> HIDE DEF T
    <2> QED BY <2>1, LeastNat
  <1>2. ASSUME NEW g, NEW f, NEW b \in 0 .. S, 
               start[tail[b]] \in 0 .. b - 1 => f[start[tail[b]]] = g[start[tail[b]]]
        PROVE  Step(g, b) = Step(f, b)
    BY <1>2 DEF None
  <1>3. m \in 0 .. S /\ ~ P(m)
    OBVIOUS
  <1>4. m # 0
    <2> SUFFICES ASSUME m = 0 PROVE FALSE OBVIOUS
    <2> DEFINE g == [b \in 0 .. 0 |-> None]
    <2>1. Step(g, 0) = None BY DEF None
    <2> HIDE DEF Step
    <2>2. g = [b \in 0 .. 0 |-> Step(g, b)]
      BY <2>1
    <2> HIDE DEF g
    <2>3. P(0) BY <2>2
    <2> QED BY <1>3, <2>3
  <1>5. m - 1 \in 0 .. S /\ P(m - 1)
    <2>1. m - 1 \in 0 .. S /\ m - 1 \notin T BY <1>1, <1>4
    <2> QED BY <2>1
  <1> HIDE DEF T, Step
  <1>6. PICK g : g = [b \in 0 .. m - 1 |-> Step(g, b)]
    BY <1>5
  <1> DEFINE f == [b \in 0 .. m |-> Step(g, b)]
  <1>7. \A b \in 0 .. m - 1 : g[b] = Step(g, b) /\ f[b] = Step(g, b)
    <2>1. \A b \in 0 .. m - 1 : [c \in 0 .. m - 1 |-> Step(g, c)][b] = Step(g, b)
      OBVIOUS
    <2>2. \A b \in 0 .. m - 1 : f[b] = Step(g, b)
      BY <1>3
    <2> QED BY <1>6, <2>1, <2>2, Zenon
  <1>8. \A b \in 0 .. m : Step(g, b) = Step(f, b)
    <2> HIDE DEF f
    <2> TAKE b \in 0 .. m
    <2>1. b \in 0 .. S BY <1>3
    <2>2. start[tail[b]] \in 0 .. b - 1 => f[start[tail[b]]] = g[start[tail[b]]]
      BY <1>3, <1>7
    <2> QED BY <1>2, <2>1, <2>2
  <1>9. f = [b \in 0 .. m |-> Step(f, b)]
    BY <1>8
  <1>10. P(m)
    <2> HIDE DEF f
    <2> QED BY <1>9
  <1> QED BY <1>3, <1>10

\* One round of the search: where it ends.
LEMMA HeadStep ==
  ASSUME NEW fl, NEW s, NEW b \in 0 .. S, StbAssumption
  PROVE  LET t == Locate(fl[s], b - 1, L + 1, EndId)
             h == Locate(fl[s], t - 1, 0, StartId)
         IN  /\ h = None => Head(fl, s, b) = None
             /\ h # None /\ t - h = L + 1 => Head(fl, s, b) = h
  <1> DEFINE tail  == [c \in 0 .. S |-> Locate(fl[s], c - 1, L + 1, EndId)]
             start == [t \in None .. S |-> Locate(fl[s], t - 1, 0, StartId)]
             Step(g, c) == CASE start[tail[c]] = None -> None
                             [] tail[c] - start[tail[c]] = L + 1 -> start[tail[c]]
                             [] OTHER -> g[start[tail[c]]]
             head == CHOOSE g : g = [c \in 0 .. S |-> Step(g, c)]
  <1>1. \A c \in 0 .. S : tail[c] \in None .. c - 1
    <2> TAKE c \in 0 .. S
    <2>1. c - 1 \in Int /\ L + 1 \in Nat BY DEF StbAssumption
    <2>2. tail[c] = None \/ tail[c] \in L + 1 .. c - 1 BY <2>1, LocateLast
    <2> HIDE DEF tail
    <2> QED BY <2>2 DEF None, StbAssumption
  <1>2. \A t \in None .. S : start[t] = None \/ start[t] \in 0 .. t - 1
    <2> TAKE t \in None .. S
    <2>1. t - 1 \in Int /\ 0 \in Nat BY DEF StbAssumption, None
    <2> QED BY <2>1, LocateLast
  <1>3. \A c \in 0 .. S : start[tail[c]] \in None .. c - 1
    <2> HIDE DEF tail, start
    <2> TAKE c \in 0 .. S
    <2>1. tail[c] \in None .. S BY <1>1 DEF StbAssumption, None
    <2> QED BY <1>1, <1>2, <2>1 DEF None
  <1>4. \E g : g = [c \in 0 .. S |-> Step(g, c)]
    <2> HIDE DEF tail, start
    <2> QED BY <1>3, HeadDefined DEF StbAssumption
  <1>5. head = [c \in 0 .. S |-> Step(head, c)]
    <2> HIDE DEF Step
    <2> QED BY <1>4, Zenon
  <1>6. head[b] = Step(head, b)
    <2>1. [c \in 0 .. S |-> Step(head, c)][b] = Step(head, b) OBVIOUS
    <2> HIDE DEF head, Step
    <2> QED BY <1>5, <2>1, Zenon
  <1>7. Head(fl, s, b) = head[b]
    BY Zenon DEF Head
  <1>8. tail[b] = Locate(fl[s], b - 1, L + 1, EndId)
    OBVIOUS
  <1>9. start[tail[b]] = Locate(fl[s], tail[b] - 1, 0, StartId)
    <2>1. tail[b] \in None .. S BY <1>1 DEF StbAssumption, None
    <2> HIDE DEF tail
    <2> QED BY <2>1
  <1> HIDE DEF head, tail, start
  <1> QED BY <1>6, <1>7, <1>8, <1>9

(* A sector as the search sees it: its used words, and the last record whole in it. *)

Filling(c, u, v) ==
  /\ u \in 0 .. S /\ v \in 0 .. MaxSaves
  /\ \A w \in u .. S - 1 : c[w] = Blank
  /\ u > 0 => c[u - 1] # Blank
  /\ IF v = 0 THEN \A w \in Words : c[w] # EndId
     ELSE \E h \in Words :
            /\ h + L + 1 \in Words /\ c[h] = StartId /\ c[h + L + 1] = EndId
            /\ \A i \in 1 .. L : c[h + i] = Data(v)
            /\ \A w \in h + L + 2 .. S - 1 : c[w] # EndId

\* The words of a record differ, and none is blank.
LEMMA DistinctWords ==
  /\ Blank # StartId /\ Blank # EndId /\ StartId # EndId /\ Junk # Blank /\ Junk # EndId /\ Junk # StartId
  /\ \A v : Data(v) # Blank /\ Data(v) # StartId /\ Data(v) # EndId /\ Data(v)[2] = v /\ Data(v) # Junk
  BY DEF Blank, StartId, EndId, Junk, Data

\* What is found in a sector is what is in it.
LEMMA ReadSector ==
  ASSUME StbAssumption, NEW fl, NEW s, NEW u, NEW v, Filling(fl[s], u, v)
  PROVE  /\ Used(fl, s) = u
         /\ Head(fl, s, u) = None <=> v = 0
         /\ LoadFrom(fl, s, u) = v
  <1>1. Used(fl, s) = u
    <2>1. u \in 0 .. S /\ \A w \in u .. S - 1 : fl[s][w] = Blank BY DEF Filling
    <2>2. u > 0 => fl[s][u - 1] # Blank BY DEF Filling
    <2>3. ASSUME NEW x \in 0 .. S, \A w \in x .. S - 1 : fl[s][w] = Blank,
                 x > 0 => fl[s][x - 1] # Blank
          PROVE  x = u
      <3>1. ~ x < u
        <4> SUFFICES ASSUME x < u PROVE FALSE OBVIOUS
        <4>1. u - 1 \in x .. S - 1 BY <2>1 DEF StbAssumption
        <4> QED BY <4>1, <2>1, <2>2, <2>3
      <3>2. ~ u < x
        <4> SUFFICES ASSUME u < x PROVE FALSE OBVIOUS
        <4>1. x - 1 \in u .. S - 1 BY <2>1 DEF StbAssumption
        <4> QED BY <4>1, <2>1, <2>3
      <3> QED BY <3>1, <3>2, <2>1
    <2> QED BY <2>1, <2>2, <2>3 DEF Used
  <1> DEFINE t == Locate(fl[s], u - 1, L + 1, EndId)
             h == Locate(fl[s], t - 1, 0, StartId)
  <1>2. u \in 0 .. S /\ u \in Nat /\ S \in Nat /\ L \in Nat /\ L > 0
    BY DEF Filling, StbAssumption
  <1>3. \/ t = None /\ \A x \in L + 1 .. u - 1 : fl[s][x] # EndId
        \/ t \in L + 1 .. u - 1 /\ fl[s][t] = EndId /\ \A x \in t + 1 .. u - 1 : fl[s][x] # EndId
    <2>1. u - 1 \in Int /\ L + 1 \in Nat BY <1>2
    <2> QED BY <2>1, LocateLast
  <1>4. \/ h = None /\ \A x \in 0 .. t - 1 : fl[s][x] # StartId
        \/ h \in 0 .. t - 1 /\ fl[s][h] = StartId /\ \A x \in h + 1 .. t - 1 : fl[s][x] # StartId
    <2>1. t \in Int
      <3> HIDE DEF t
      <3> QED BY <1>2, <1>3 DEF None
    <2>2. t - 1 \in Int /\ 0 \in Nat
      <3> HIDE DEF t
      <3> QED BY <2>1
    <2> HIDE DEF t
    <2> QED BY <2>2, LocateLast
  <1>5. /\ h = None => Head(fl, s, u) = None
        /\ h # None /\ t - h = L + 1 => Head(fl, s, u) = h
    BY <1>2, HeadStep
  <1> HIDE DEF t, h
  <1>6. CASE v = 0
    <2>1. \A w \in Words : fl[s][w] # EndId BY <1>6 DEF Filling
    <2>2. t = None BY <1>2, <1>3, <2>1 DEF Words
    <2>3. h = None BY <1>4, <2>2 DEF None
    <2>4. Head(fl, s, u) = None BY <1>5, <2>3
    <2>5. LoadFrom(fl, s, u) = 0 BY <1>2, <2>4 DEF LoadFrom, NoRecord, None
    <2> QED BY <1>1, <1>6, <2>4, <2>5
  <1>7. CASE v # 0
    <2>1. PICK r \in Words :
            /\ r + L + 1 \in Words /\ fl[s][r] = StartId /\ fl[s][r + L + 1] = EndId
            /\ \A i \in 1 .. L : fl[s][r + i] = Data(v)
            /\ \A w \in r + L + 2 .. S - 1 : fl[s][w] # EndId
      BY <1>7 DEF Filling
    <2>2. r + L + 1 < u
      <3> SUFFICES ASSUME r + L + 1 >= u PROVE FALSE BY <1>2, <2>1 DEF Words
      <3>1. fl[s][r + L + 1] = Blank BY <1>2, <2>1 DEF Filling, Words
      <3> QED BY <3>1, <2>1, DistinctWords
    <2>3. r \in Nat /\ r + L + 1 \in L + 1 .. u - 1 BY <1>2, <2>1, <2>2 DEF Words
    <2>4. t = r + L + 1
      <3>1. t \in L + 1 .. u - 1 /\ fl[s][t] = EndId /\ \A x \in t + 1 .. u - 1 : fl[s][x] # EndId
        BY <1>3, <2>1, <2>3
      <3>2. ~ t < r + L + 1 BY <1>2, <2>1, <2>3, <3>1
      <3>3. ~ t > r + L + 1 BY <1>2, <2>1, <2>3, <3>1
      <3> QED BY <1>2, <2>3, <3>1, <3>2, <3>3
    <2>5. h = r
      <3>1. h \in 0 .. t - 1 /\ fl[s][h] = StartId /\ \A x \in h + 1 .. t - 1 : fl[s][x] # StartId
        <4>1. r \in 0 .. t - 1 BY <1>2, <2>3, <2>4
        <4> QED BY <1>4, <2>1, <4>1
      <3>2. ~ h < r
        <4> SUFFICES ASSUME h < r PROVE FALSE OBVIOUS
        <4>1. r \in h + 1 .. t - 1 BY <1>2, <2>3, <2>4, <3>1
        <4> QED BY <2>1, <3>1, <4>1
      <3>3. ~ h > r
        <4> SUFFICES ASSUME h > r PROVE FALSE OBVIOUS
        <4>1. h - r \in 1 .. L /\ h = r + (h - r) BY <1>2, <2>3, <2>4, <3>1
        <4>2. fl[s][h] = Data(v) BY <2>1, <4>1
        <4> QED BY <3>1, <4>2, DistinctWords
      <3> QED BY <1>2, <2>3, <3>1, <3>2, <3>3
    <2>6. Head(fl, s, u) = r
      <3>1. h # None /\ t - h = L + 1 BY <1>2, <2>3, <2>4, <2>5 DEF None
      <3> QED BY <1>5, <2>5, <3>1
    <2>7. Whole(fl[s], r) = v
      <3>1. 1 \in 1 .. L BY <1>2
      <3>2. \A i \in 1 .. L : fl[s][r + i] = fl[s][r + 1] BY <2>1, <3>1
      <3>3. fl[s][r + 1][2] = v BY <2>1, <3>1, DistinctWords
      <3> QED BY <3>2, <3>3 DEF Whole
    <2>8. r # None /\ r \in None .. S BY <1>2, <2>1 DEF Words, None
    <2>9. LoadFrom(fl, s, u) = v
      <3> DEFINE read == [x \in None .. S |-> IF x = None THEN NoRecord ELSE Whole(fl[s], x)]
      <3>1. LoadFrom(fl, s, u) = read[r] BY <2>6, Zenon DEF LoadFrom
      <3>2. read[r] = Whole(fl[s], r) BY <2>8
      <3> QED BY <2>7, <3>1, <3>2
    <2> QED BY <1>1, <1>7, <2>6, <2>8, <2>9
  <1> QED BY <1>6, <1>7

(* What an operation leaves in a sector. *)

\* Behind field f of a record.
Behind(f) == CASE f = "start" -> 1 [] f = "data" -> L + 1 [] OTHER -> R

LEMMA FieldEnds ==
  ASSUME StbAssumption, NEW f \in DOMAIN Fields
  PROVE  Max(Fields[f]) \in Int /\ Max(Fields[f]) + 1 = Behind(f)
  <1>0. L \in Nat /\ L > 0 BY DEF StbAssumption
  <1>1. DOMAIN Fields = {"start", "data", "end"}
        /\ Fields["start"] = {0} /\ Fields["data"] = 1 .. L /\ Fields["end"] = {L + 1}
    BY DEF Fields
  <1>2. CASE f = "start"
    <2>1. Max({0}) = 0 BY DEF Max
    <2>2. Fields[f] = {0} BY <1>1, <1>2
    <2>3. Behind(f) = 1 BY <1>2 DEF Behind
    <2>4. Max(Fields[f]) = 0 BY <2>1, <2>2
    <2> QED BY <2>3, <2>4
  <1>3. CASE f = "end"
    <2>1. Max({L + 1}) = L + 1 BY <1>0 DEF Max
    <2>2. Fields[f] = {L + 1} BY <1>1, <1>3
    <2>3. Behind(f) = L + 2 BY <1>3 DEF Behind, R
    <2>4. Max(Fields[f]) = L + 1 BY <2>1, <2>2
    <2> QED BY <1>0, <2>3, <2>4
  <1>4. CASE f = "data"
    <2>1. L \in 1 .. L /\ \A y \in 1 .. L : L >= y BY <1>0
    <2>2. \A x \in 1 .. L : (\A y \in 1 .. L : x >= y) => x = L BY <1>0, <2>1
    <2>3. Max(1 .. L) = L BY <2>1, <2>2 DEF Max
    <2>4. Fields[f] = 1 .. L BY <1>1, <1>4
    <2>5. Behind(f) = L + 1 BY <1>4 DEF Behind
    <2>6. Max(Fields[f]) = L BY <2>3, <2>4
    <2> QED BY <2>5, <2>6
  <1> QED BY <1>1, <1>2, <1>3, <1>4

\* A sector just erased; and one whose erase was cut.
LEMMA FilledSector ==
  ASSUME StbAssumption
  PROVE  Filling([w \in Words |-> Blank], 0, 0) /\ Filling([w \in Words |-> Junk], S, 0)
  <1>1. S \in Nat /\ S > 0 /\ 0 \in 0 .. S /\ S \in 0 .. S /\ 0 \in 0 .. MaxSaves /\ S - 1 \in Words
    BY DEF StbAssumption, R, Words
  <1> QED BY <1>1, DistinctWords DEF Filling, Words

\* The fields of record r that are written at place p of a sector before field f,
\* and the words used by then: in front of the record others may follow blank words.
Part(c, p, f, r) ==
  /\ f \in {"data", "end"} => c[p] = StartId
  /\ f = "end" => \A i \in 1 .. L : c[p + i] = Data(r)

Level(u, p, f) == CASE f = "start" -> u <= p [] f = "data" -> u = p + 1 [] OTHER -> u = p + L + 1

\* The sector with field f written.
WithField(c, p, f, r) == [w \in Words |-> IF w - p \in Fields[f] THEN Record(r, w - p) ELSE c[w]]

\* Writing the next field: the words it takes are blank, and it takes effect with
\* the end id.
LEMMA WriteField ==
  ASSUME StbAssumption, NEW c, NEW u, NEW v, NEW p \in Nat, p + R <= S,
         NEW r \in 1 .. MaxSaves, NEW f \in DOMAIN Fields,
         Filling(c, u, v), Level(u, p, f), Part(c, p, f, r)
  PROVE  LET d == WithField(c, p, f, r)
         IN  /\ \A i \in Fields[f] : p + i \in Words /\ c[p + i] = Blank
             /\ Filling(d, p + Behind(f), IF f = "end" THEN r ELSE v)
             /\ f = "start" => Part(d, p, "data", r)
             /\ f = "data" => Part(d, p, "end", r)
             /\ f = "end" => d[p + L + 1] = EndId
  <1> DEFINE d == WithField(c, p, f, r)
  <1>0. /\ L \in Nat /\ L > 0 /\ S \in Nat /\ MaxSaves \in Nat /\ u \in Nat /\ p + L + 2 <= S
        /\ v \in 0 .. MaxSaves /\ r # 0 /\ u \in 0 .. S
    BY DEF StbAssumption, Filling, R
  <1>1. DOMAIN Fields = {"start", "data", "end"}
        /\ Fields["start"] = {0} /\ Fields["data"] = 1 .. L /\ Fields["end"] = {L + 1}
    BY DEF Fields
  <1>2. /\ \A w \in u .. S - 1 : c[w] = Blank
        /\ v = 0 => \A w \in Words : c[w] # EndId
        /\ v # 0 => \E h \in Words :
                      /\ h + L + 1 \in Words /\ c[h] = StartId /\ c[h + L + 1] = EndId
                      /\ \A i \in 1 .. L : c[h + i] = Data(v)
                      /\ \A w \in h + L + 2 .. S - 1 : c[w] # EndId
    BY DEF Filling
  <1>3. \A w \in Words : d[w] = IF w - p \in Fields[f] THEN Record(r, w - p) ELSE c[w]
    BY DEF WithField
  <1>4. \A w \in 0 .. p - 1 : w \in Words /\ d[w] = c[w]
    <2>1. \A w \in 0 .. p - 1 : w - p \notin Fields[f] /\ w \in Words BY <1>0, <1>1 DEF Words
    <2> QED BY <1>3, <2>1
  <1>5. /\ Record(r, 0) = StartId /\ Record(r, L + 1) = EndId /\ \A i \in 1 .. L : Record(r, i) = Data(r)
    BY <1>0 DEF Record
  <1> HIDE DEF d
  <1>6. CASE f = "start"
    <2>0. \A w \in Words : d[w] = IF w = p THEN StartId ELSE c[w]
      <3> TAKE w \in Words
      <3>1. w - p \in Fields[f] <=> w = p BY <1>0, <1>1, <1>6 DEF Words
      <3>2. w = p => w - p = 0 BY <1>0 DEF Words
      <3> QED BY <1>3, <1>5, <3>1, <3>2
    <2>1. u <= p BY <1>6 DEF Level
    <2>2. p + 0 \in Words /\ c[p + 0] = Blank BY <1>0, <1>2, <2>1 DEF Words
    <2>3. d[p] = StartId BY <1>0, <2>0, <2>2
    <2>4. \A w \in p + 1 .. S - 1 : w \in Words /\ d[w] = Blank
      BY <1>0, <1>2, <2>0, <2>1 DEF Words
    <2>5. \A w \in Words : d[w] = EndId => c[w] = EndId
      BY <2>0, DistinctWords
    <2>6. \A w \in Words : c[w] # Blank => d[w] = c[w]
      BY <1>0, <2>0, <2>2
    <2>7. Filling(d, p + 1, v)
      <3>1. CASE v = 0
        BY <1>0, <1>2, <2>3, <2>4, <2>5, <3>1, DistinctWords DEF Filling
      <3>2. CASE v # 0
        <4>1. PICK h \in Words :
                      /\ h + L + 1 \in Words /\ c[h] = StartId /\ c[h + L + 1] = EndId
                      /\ \A i \in 1 .. L : c[h + i] = Data(v)
                      /\ \A w \in h + L + 2 .. S - 1 : c[w] # EndId
          BY <1>2, <3>2
        <4>2. \A i \in 1 .. L : h + i \in Words BY <1>0, <4>1 DEF Words
        <4>3. d[h] = StartId /\ d[h + L + 1] = EndId /\ \A i \in 1 .. L : d[h + i] = Data(v)
          BY <2>6, <4>1, <4>2, DistinctWords
        <4>4. \A w \in h + L + 2 .. S - 1 : d[w] # EndId
          BY <1>0, <2>5, <4>1 DEF Words
        <4> QED BY <1>0, <2>3, <2>4, <3>2, <4>1, <4>3, <4>4, DistinctWords DEF Filling
      <3> QED BY <3>1, <3>2
    <2>8. Part(d, p, "data", r) BY <2>3 DEF Part
    <2> QED BY <1>1, <1>6, <2>2, <2>7, <2>8 DEF Behind, d
  <1>7. CASE f = "data"
    <2>0. \A w \in Words : d[w] = IF w \in p + 1 .. p + L THEN Data(r) ELSE c[w]
      <3> TAKE w \in Words
      <3>1. w - p \in Fields[f] <=> w \in p + 1 .. p + L BY <1>0, <1>1, <1>7 DEF Words
      <3>2. w \in p + 1 .. p + L => w - p \in 1 .. L BY <1>0 DEF Words
      <3> QED BY <1>3, <1>5, <3>1, <3>2
    <2>1. u = p + 1 /\ c[p] = StartId BY <1>7 DEF Level, Part
    <2>2. \A i \in 1 .. L : p + i \in Words /\ c[p + i] = Blank BY <1>0, <1>2, <2>1 DEF Words
    <2>3. d[p] = StartId /\ p \in Words BY <1>0, <2>0, <2>1 DEF Words
    <2>4. \A i \in 1 .. L : d[p + i] = Data(r)
      BY <1>0, <2>0, <2>2
    <2>5. \A w \in p + L + 1 .. S - 1 : w \in Words /\ d[w] = Blank
      BY <1>0, <1>2, <2>0, <2>1 DEF Words
    <2>6. \A w \in Words : d[w] = EndId => c[w] = EndId
      BY <2>0, DistinctWords
    <2>7. \A w \in Words : c[w] # Blank => d[w] = c[w]
      <3> TAKE w \in Words
      <3>1. w \in p + 1 .. p + L => c[w] = Blank
        <4> SUFFICES ASSUME w \in p + 1 .. p + L PROVE c[w] = Blank OBVIOUS
        <4>1. w - p \in 1 .. L /\ w = p + (w - p) BY <1>0
        <4> QED BY <2>2, <4>1
      <3> QED BY <2>0, <3>1
    <2>8. p + L + 1 > 0 /\ d[p + L + 1 - 1] # Blank
      <3>1. L \in 1 .. L /\ p + L = p + L + 1 - 1 BY <1>0
      <3> QED BY <1>0, <2>4, <3>1, DistinctWords
    <2>9. Filling(d, p + L + 1, v)
      <3>1. CASE v = 0
        BY <1>0, <1>2, <2>5, <2>6, <2>8, <3>1 DEF Filling
      <3>2. CASE v # 0
        <4>1. PICK h \in Words :
                      /\ h + L + 1 \in Words /\ c[h] = StartId /\ c[h + L + 1] = EndId
                      /\ \A i \in 1 .. L : c[h + i] = Data(v)
                      /\ \A w \in h + L + 2 .. S - 1 : c[w] # EndId
          BY <1>2, <3>2
        <4>2. \A i \in 1 .. L : h + i \in Words BY <1>0, <4>1 DEF Words
        <4>3. d[h] = StartId /\ d[h + L + 1] = EndId /\ \A i \in 1 .. L : d[h + i] = Data(v)
          BY <2>7, <4>1, <4>2, DistinctWords
        <4>4. \A w \in h + L + 2 .. S - 1 : d[w] # EndId
          BY <1>0, <2>6, <4>1 DEF Words
        <4> QED BY <1>0, <2>5, <2>8, <3>2, <4>1, <4>3, <4>4 DEF Filling
      <3> QED BY <3>1, <3>2
    <2>10. Part(d, p, "end", r) BY <2>3, <2>4 DEF Part
    <2>11. p + Behind(f) = p + L + 1 BY <1>0, <1>7 DEF Behind
    <2> QED BY <1>1, <1>7, <2>2, <2>9, <2>10, <2>11 DEF d
  <1>8. CASE f = "end"
    <2>0. \A w \in Words : d[w] = IF w = p + L + 1 THEN EndId ELSE c[w]
      <3> TAKE w \in Words
      <3>0. w \in Int /\ Fields[f] = {L + 1} BY <1>0, <1>1, <1>8 DEF Words
      <3>1. w - p \in Fields[f] <=> w = p + L + 1 BY <1>0, <3>0
      <3>2. w = p + L + 1 => w - p = L + 1 BY <1>0 DEF Words
      <3> QED BY <1>3, <1>5, <3>1, <3>2
    <2>1. /\ u = p + L + 1 /\ c[p] = StartId /\ \A i \in 1 .. L : c[p + i] = Data(r)
      BY <1>8 DEF Level, Part
    <2>2. p + (L + 1) \in Words /\ c[p + (L + 1)] = Blank BY <1>0, <1>2, <2>1 DEF Words
    <2>3. d[p] = StartId /\ p \in Words BY <1>0, <2>0, <2>1 DEF Words
    <2>4. \A i \in 1 .. L : d[p + i] = Data(r)
      <3> TAKE i \in 1 .. L
      <3>1. p + i \in Words /\ p + i # p + L + 1 BY <1>0 DEF Words
      <3> QED BY <2>0, <2>1, <3>1
    <2>5. d[p + L + 1] = EndId /\ p + L + 1 \in Words
      BY <1>0, <2>0, <2>2
    <2>6. \A w \in p + L + 2 .. S - 1 : w \in Words /\ d[w] = Blank
      BY <1>0, <1>2, <2>0, <2>1 DEF Words
    <2>7. p + L + 2 \in 0 .. S /\ p + L + 2 - 1 = p + L + 1 BY <1>0
    <2>8. Filling(d, p + L + 2, r)
      BY <1>0, <2>3, <2>4, <2>5, <2>6, <2>7, DistinctWords DEF Filling
    <2>9. p + Behind(f) = p + L + 2 BY <1>0, <1>8 DEF Behind, R
    <2> QED BY <1>1, <1>8, <2>2, <2>5, <2>8, <2>9 DEF d
  <1> QED BY <1>1, <1>6, <1>7, <1>8

(* Types. *)

LEMMA SectorFacts ==
  ASSUME StbAssumption
  PROVE  /\ S \in Nat /\ L \in Nat /\ L > 0 /\ R = L + 2 /\ 2 * R <= S /\ S > 0
         /\ Sectors = {0, S} /\ Sector1 = 0 /\ Sector2 = S /\ Unknown = -1
         /\ \A A \in Sectors : Other(A) \in Sectors /\ Other(A) # A /\ Other(Other(A)) = A
         /\ \A a \in 0 .. 2 * S : SectorOf(a) \in Sectors /\ a - SectorOf(a) \in 0 .. S
         /\ \A A \in Sectors, u \in 0 .. S - 1 : SectorOf(A + u) = A /\ (A + u) - A = u
  BY DEF StbAssumption, R, Sectors, Sector1, Sector2, Unknown, Other, SectorOf

\* Every sector has a free address.
LEMMA UsedInSector ==
  ASSUME StbAssumption, NEW fl, NEW s
  PROVE  Used(fl, s) \in 0 .. S
  <1> DEFINE T == {u \in 0 .. S : \A w \in u .. S - 1 : fl[s][w] = Blank}
  <1>1. PICK u \in T : \A x \in T : u <= x
    <2>1. S \in T BY DEF StbAssumption
    <2>2. T \subseteq Nat OBVIOUS
    <2> HIDE DEF T
    <2> QED BY <2>1, <2>2, LeastNat
  <1>2. u > 0 => fl[s][u - 1] # Blank
    <2> SUFFICES ASSUME u > 0, fl[s][u - 1] = Blank PROVE FALSE OBVIOUS
    <2>1. u - 1 \in 0 .. S BY DEF StbAssumption
    <2>2. \A w \in u - 1 .. S - 1 : w = u - 1 \/ w \in u .. S - 1 BY <2>1
    <2>3. u - 1 \in T BY <2>1, <2>2
    <2> QED BY <1>1, <2>3
  <1>3. \E x \in 0 .. S : (\A w \in x .. S - 1 : fl[s][w] = Blank) /\ (x > 0 => fl[s][x - 1] # Blank)
    BY <1>2
  <1> QED BY <1>3 DEF Used

Content == {Blank, Junk, StartId, EndId} \cup {Data(v) : v \in 1 .. MaxSaves}

TypeInv ==
  /\ TypeOK
  /\ pc \in {"write", "erase"} => Place + R <= S
  /\ pc \in {"room", "write", "erase"} \/ (pc = "scan" /\ call = "save") => saves > 0

LEMMA TypeInit == StbAssumption /\ Init => TypeInv
  <1> SUFFICES ASSUME StbAssumption, Init PROVE TypeInv OBVIOUS
  <1>1. DOMAIN Fields = {"start", "data", "end"} BY DEF Fields
  <1> QED BY <1>1, SectorFacts DEF Init, TypeInv, TypeOK, NoRecord, StbAssumption

\* A sector filled with a word of the flash.
LEMMA FilledType ==
  ASSUME NEW fl \in [Sectors -> [Words -> Content]], NEW s \in Sectors, NEW word \in Content
  PROVE  Filled(fl, s, word) \in [Sectors -> [Words -> Content]]
  BY DEF Filled

LEMMA TypeStep ==
  ASSUME StbAssumption, TypeInv, [Next \/ PutFails]_vars
  PROVE  TypeInv'
  <1> USE SectorFacts
  <1>0. /\ flash \in [Sectors -> [Words -> Content]]
        /\ f_addr \in Unknown .. 2 * S /\ addr \in 0 .. 2 * S /\ at \in 0 .. 2 * S
        /\ copy \in {"first", "mirror"} /\ field \in DOMAIN Fields
        /\ pc \in {"off", "idle", "scan", "room", "write", "erase"} /\ call \in {"save", "load", "restart"}
        /\ saves \in 0 .. MaxSaves /\ since \in 0 .. saves /\ ret \in {"none", "busy", "ok", "failed"}
        /\ crashes \in 0 .. MaxCrashes
        /\ MaxSaves \in Nat /\ MaxCrashes \in Nat
        /\ pc \in {"write", "erase"} => Place + R <= S
        /\ pc \in {"room", "write", "erase"} \/ (pc = "scan" /\ call = "save") => saves > 0
    BY DEF TypeInv, TypeOK, Content, StbAssumption
  <1>1. DOMAIN Fields = {"start", "data", "end"} BY DEF Fields
  <1>2. Blank \in Content /\ Junk \in Content BY DEF Content
  <1>3. ASSUME UNCHANGED vars PROVE TypeInv'
    BY <1>0, <1>1, <1>3 DEF TypeInv, TypeOK, Content, vars, ram, Place
  <1>4. CASE Scan
    <2>1. Keep(flash) \in Sectors
      BY DEF Keep, KeepValid, Shorter, Sectors, Other
    <2>2. FreeAddr(flash) \in 0 .. 2 * S
      <3>1. Used(flash, Keep(flash)) \in 0 .. S BY UsedInSector
      <3> QED BY <2>1, <3>1 DEF FreeAddr
    <2>3. Scanned(flash) \in [Sectors -> [Words -> Content]]
      BY <1>0, <1>2, <2>1, FilledType DEF Scanned, Erased
    <2>4. flash' \in [Sectors -> [Words -> Content]] /\ f_addr' \in 0 .. 2 * S /\ addr' = f_addr'
      BY <1>0, <1>4, <2>2, <2>3 DEF Scan
    <2> QED BY <1>0, <1>1, <1>4, <2>4 DEF Scan, TypeInv, TypeOK, Content
  <1>5. CASE BeginSave
    BY <1>0, <1>1, <1>5 DEF BeginSave, TypeInv, TypeOK, Content
  <1>6. CASE MakeRoom
    <2>1. CASE Fits(addr)
      BY <1>0, <1>1, <1>6, <2>1 DEF MakeRoom, Fits, Writes, TypeInv, TypeOK, Content, Place, SectorOf
    <2>2. CASE ~ Fits(addr)
      <3> DEFINE s == IF addr > Sector2 THEN Sector1 ELSE Sector2
      <3>1. s \in Sectors /\ s \in 0 .. 2 * S /\ s - SectorOf(s) = 0 BY DEF SectorOf
      <3>2. flash' = Erased(flash, s) /\ f_addr' = s /\ Writes(s, "first") BY <1>6, <2>2 DEF MakeRoom
      <3>3. flash' \in [Sectors -> [Words -> Content]] BY <1>0, <1>2, <3>1, <3>2, FilledType DEF Erased
      <3> HIDE DEF s
      <3> QED BY <1>0, <1>1, <1>6, <3>1, <3>2, <3>3 DEF MakeRoom, Writes, TypeInv, TypeOK, Content, Place
    <2> QED BY <2>1, <2>2
  <1>7. CASE Put
    <2>1. pc = "write" /\ Place \in Nat /\ SectorOf(at) \in Sectors /\ at = SectorOf(at) + Place
          /\ Place + R <= S
      BY <1>0, <1>7 DEF Put, Place
    <2>2. /\ Max(Fields[field]) \in Int /\ Max(Fields[field]) + 1 = Behind(field)
          /\ Behind(field) \in 1 .. R
      BY <1>0, <1>1, FieldEnds DEF Behind
    <2>3. f_addr' \in Unknown .. 2 * S
      <3>1. at + Max(Fields[field]) + 1 = at + Behind(field)
        BY <1>0, <2>2
      <3> QED BY <1>0, <1>7, <2>1, <2>2, <3>1 DEF Put, Cached
    <2>4. flash' \in [Sectors -> [Words -> Content]]
      <3>1. \A i \in Int : Record(saves, i) \in Content
        BY <1>0, <2>1 DEF Record, Content
      <3>2. \A w \in Words : w - Place \in Int BY <2>1 DEF Words
      <3>3. flash' = [flash EXCEPT ![SectorOf(at)] =
                [w \in Words |-> IF w - Place \in Fields[field] THEN Record(saves, w - Place) ELSE @[w]]]
        BY <1>7 DEF Put
      <3> QED BY <1>0, <2>1, <3>1, <3>2, <3>3
    <2>5. Mirrored(at) \in 0 .. 2 * S /\ Mirrored(at) - SectorOf(Mirrored(at)) = Place
      BY <1>0, <2>1 DEF Mirrored, SectorOf, Place
    <2>6. /\ at' \in 0 .. 2 * S /\ copy' \in {"first", "mirror"} /\ field' \in DOMAIN Fields
          /\ pc' \in {"write", "erase", "idle"} /\ ret' \in {"none", "busy", "ok", "failed"}
          /\ pc' \in {"write", "erase"} => Place' = Place
      BY <1>0, <1>1, <1>7, <2>5 DEF Put, Writes, Place
    <2>7. UNCHANGED <<addr, call, saves, since, crashes>> BY <1>7 DEF Put
    <2> HIDE DEF Place
    <2> QED BY <1>0, <1>1, <2>1, <2>3, <2>4, <2>6, <2>7 DEF TypeInv, TypeOK, Content
  <1>8. CASE EraseOld
    <2>1. flash' \in [Sectors -> [Words -> Content]]
      BY <1>0, <1>2, <1>8, FilledType DEF EraseOld, Erased
    <2>2. Mirrored(at) \in 0 .. 2 * S /\ Mirrored(at) - SectorOf(Mirrored(at)) = Place
      BY <1>0, <1>8 DEF EraseOld, Mirrored, SectorOf, Place
    <2>3. at' = Mirrored(at) /\ Place' = Place /\ pc = "erase" /\ pc' = "write"
      BY <1>8, <2>2 DEF EraseOld, Writes, Place
    <2> HIDE DEF Place
    <2> QED BY <1>0, <1>1, <1>8, <2>1, <2>2, <2>3 DEF EraseOld, Writes, TypeInv, TypeOK, Content
  <1>9. CASE BeginLoad
    BY <1>0, <1>1, <1>9 DEF BeginLoad, TypeInv, TypeOK, Content
  <1>10. CASE Crash
    <2>1. Erasing \subseteq Sectors
      BY <1>0 DEF Erasing, Keep, KeepValid, Shorter, Sectors, Other
    <2>2. flash' \in [Sectors -> [Words -> Content]]
      BY <1>0, <1>2, <1>10, <2>1, FilledType DEF Crash
    <2> QED BY <1>0, <1>1, <1>10, <2>2 DEF Crash, TypeInv, TypeOK, Content
  <1>11. CASE PutFails
    BY <1>0, <1>1, <1>11 DEF PutFails, TypeInv, TypeOK, Content, ram
  <1> QED BY <1>3, <1>4, <1>5, <1>6, <1>7, <1>8, <1>9, <1>10, <1>11 DEF Next

\* No address leaves the two sectors, whatever length a record has and however
\* often power fails; and whether the flash takes every write or not.
THEOREM TypesHold == SpecRefused => []TypeOK
  <1>1. Init => TypeInv BY StbAssumption, TypeInit
  <1>2. TypeInv /\ [Next \/ PutFails]_vars => TypeInv' BY StbAssumption, TypeStep
  <1>3. TypeInv => TypeOK BY DEF TypeInv
  <1> QED BY <1>1, <1>2, <1>3, PTL DEF SpecRefused

(* Which sector a restart keeps. *)

\* The record found in a sector.
Found(fl, s) == LoadFrom(fl, s, Used(fl, s))

\* Every sector holds what is found in it.
Valid(fl) == \A s \in Sectors : Filling(fl[s], Used(fl, s), Found(fl, s))

\* The sector kept, if it is the first, is not full; if it is the second, it holds a
\* record unless it is full.  (A sector whose erase was cut is full and has none.)
Sound(fl) ==
  /\ Keep(fl) = Sector1 => Used(fl, Sector1) < S
  /\ Keep(fl) = Sector2 => Found(fl, Sector2) # 0 \/ Used(fl, Sector2) = S

\* A is kept rather than the other sector.
Preferred(fl, A) ==
  LET B == Other(A)
  IN  \/ Used(fl, B) = 0 /\ (Used(fl, A) > 0 \/ A = Sector1)
      \/ /\ Used(fl, A) > 0 /\ Used(fl, B) > 0
         /\ \/ /\ Used(fl, A) < Used(fl, B) \/ (Used(fl, A) = Used(fl, B) /\ A = Sector1)
               /\ Found(fl, A) # 0
            \/ /\ Used(fl, B) < Used(fl, A) \/ (Used(fl, A) = Used(fl, B) /\ A = Sector2)
               /\ Found(fl, B) = 0

LEMMA NumbersInSector ==
  ASSUME StbAssumption, NEW fl, Valid(fl), NEW s \in Sectors
  PROVE  /\ Used(fl, s) \in 0 .. S /\ Found(fl, s) \in 0 .. MaxSaves
         /\ Head(fl, s, Used(fl, s)) = None <=> Found(fl, s) = 0
         /\ Found(fl, s) # 0 => Used(fl, s) >= R
  <1>1. Filling(fl[s], Used(fl, s), Found(fl, s)) BY DEF Valid
  <1>2. Found(fl, s) # 0 => Used(fl, s) >= R
    <2> SUFFICES ASSUME Found(fl, s) # 0, Used(fl, s) < R PROVE FALSE BY SectorFacts, <1>1 DEF Filling
    <2>1. PICK h \in Words : h + L + 1 \in Words /\ fl[s][h + L + 1] = EndId BY <1>1 DEF Filling
    <2>2. h + L + 1 >= Used(fl, s) BY <1>1, <2>1, SectorFacts DEF Filling, Words
    <2>3. fl[s][h + L + 1] = Blank BY <1>1, <2>1, <2>2, SectorFacts DEF Filling, Words
    <2> QED BY <2>1, <2>3, DistinctWords
  <1>3. Head(fl, s, Used(fl, s)) = None <=> Found(fl, s) = 0
    BY <1>1, ReadSector
  <1>4. Used(fl, s) \in 0 .. S /\ Found(fl, s) \in 0 .. MaxSaves
    BY <1>1 DEF Filling
  <1> QED BY <1>2, <1>3, <1>4

LEMMA KeepPreferred ==
  ASSUME StbAssumption, NEW fl, Valid(fl), NEW A \in Sectors
  PROVE  Keep(fl) \in Sectors /\ (Keep(fl) = A <=> Preferred(fl, A))
  <1> USE SectorFacts
  <1>1. /\ Used(fl, Sector1) \in 0 .. S /\ Used(fl, Sector2) \in 0 .. S
        /\ Head(fl, Sector1, Used(fl, Sector1)) = None <=> Found(fl, Sector1) = 0
        /\ Head(fl, Sector2, Used(fl, Sector2)) = None <=> Found(fl, Sector2) = 0
    <2>1. Sector1 \in Sectors /\ Sector2 \in Sectors OBVIOUS
    <2>2. Head(fl, Sector1, Used(fl, Sector1)) = None <=> Found(fl, Sector1) = 0
      BY <2>1, NumbersInSector, Zenon
    <2>3. Head(fl, Sector2, Used(fl, Sector2)) = None <=> Found(fl, Sector2) = 0
      BY <2>1, NumbersInSector, Zenon
    <2>4. Used(fl, Sector1) \in 0 .. S /\ Used(fl, Sector2) \in 0 .. S
      BY <2>1, UsedInSector
    <2> QED BY <2>2, <2>3, <2>4
  <1>2. Other(Sector1) = Sector2 /\ Other(Sector2) = Sector1 BY DEF Other
  <1> DEFINE u1 == Used(fl, Sector1)
             u2 == Used(fl, Sector2)
             v1 == Found(fl, Sector1)
             v2 == Found(fl, Sector2)
  <1>3. Sector1 # Sector2 OBVIOUS
  <1>4. Keep(fl) = IF u2 = 0 THEN Sector1 ELSE IF u1 = 0 THEN Sector2
                   ELSE IF u1 > u2 THEN IF v2 # 0 THEN Sector2 ELSE Sector1
                   ELSE IF v1 # 0 THEN Sector1 ELSE Sector2
    <2>1. Shorter(fl) = IF u1 > u2 THEN Sector2 ELSE Sector1 BY DEF Shorter
    <2>2. KeepValid(fl) = IF u1 > u2 THEN IF v2 # 0 THEN Sector2 ELSE Sector1
                          ELSE IF v1 # 0 THEN Sector1 ELSE Sector2
      BY <1>1, <1>2, <2>1, Zenon DEF KeepValid
    <2> QED BY <2>2 DEF Keep
  <1>5. Preferred(fl, Sector1) <=>
          \/ u2 = 0
          \/ /\ u1 > 0 /\ u2 > 0
             /\ (u1 <= u2 /\ v1 # 0) \/ (u2 < u1 /\ v2 = 0)
    BY <1>1, <1>2, <1>3 DEF Preferred
  <1>6. Preferred(fl, Sector2) <=>
          \/ u1 = 0 /\ u2 > 0
          \/ /\ u1 > 0 /\ u2 > 0
             /\ (u2 < u1 /\ v2 # 0) \/ (u1 <= u2 /\ v1 = 0)
    BY <1>1, <1>2, <1>3 DEF Preferred
  <1>7. u1 \in Nat /\ u2 \in Nat BY <1>1
  <1>8. A = Sector1 \/ A = Sector2 OBVIOUS
  <1> HIDE DEF u1, u2, v1, v2
  <1> QED BY <1>3, <1>4, <1>5, <1>6, <1>7, <1>8

LEMMA RecoveredKept ==
  ASSUME StbAssumption, NEW fl, Valid(fl), Sound(fl)
  PROVE  Recovered(fl) = Found(fl, Keep(fl))
  <1> USE SectorFacts
  <1>1. Keep(fl) \in Sectors BY KeepPreferred
  <1>2. ~ (Keep(fl) = Sector1 /\ Used(fl, Keep(fl)) = S)
    BY <1>1, NumbersInSector DEF Sound
  <1> QED BY <1>1, <1>2 DEF Recovered, Found

\* An operation on one sector leaves what the other holds.
LEMMA SectorWritten ==
  ASSUME StbAssumption, NEW fl, Valid(fl), NEW A \in Sectors, NEW gl, NEW u, NEW v,
         gl[Other(A)] = fl[Other(A)], Filling(gl[A], u, v)
  PROVE  /\ Valid(gl) /\ Used(gl, A) = u /\ Found(gl, A) = v
         /\ Used(gl, Other(A)) = Used(fl, Other(A)) /\ Found(gl, Other(A)) = Found(fl, Other(A))
  <1> USE SectorFacts
  <1> DEFINE B == Other(A)
  <1>1. Used(gl, A) = u /\ Found(gl, A) = v BY ReadSector DEF Found
  <1>2. Filling(gl[B], Used(fl, B), Found(fl, B)) BY DEF Valid
  <1>3. Used(gl, B) = Used(fl, B) /\ Found(gl, B) = Found(fl, B)
    <2> DEFINE x == Used(fl, B)
               y == Found(fl, B)
    <2>1. Filling(gl[B], x, y) BY <1>2
    <2> HIDE DEF x, y
    <2>2. Used(gl, B) = x /\ LoadFrom(gl, B, x) = y BY <2>1, ReadSector
    <2>3. Used(gl, B) = x /\ Found(gl, B) = y BY <2>2 DEF Found
    <2> QED BY <2>3 DEF x, y
  <1>4. \A s \in Sectors : s = A \/ s = B BY DEF Other
  <1> HIDE DEF B
  <1>5. Valid(gl) BY <1>1, <1>2, <1>3, <1>4 DEF Valid
  <1> QED BY <1>1, <1>3, <1>5 DEF B

\* What sector A holds survives an erase of the other, if a restart may rely on A:
\* after the erase, and when it was cut.
Reliable(fl, A) ==
  /\ A = Sector1 => Used(fl, A) < S
  /\ A = Sector2 => Found(fl, A) # 0 \/ Used(fl, A) = S

LEMMA OtherErased ==
  ASSUME StbAssumption, NEW fl \in [Sectors -> [Words -> Content]], Valid(fl), NEW A \in Sectors,
         Reliable(fl, A), NEW gl, gl = Erased(fl, Other(A))
  PROVE  /\ Valid(gl) /\ Sound(gl) /\ Keep(gl) = A /\ Recovered(gl) = Found(fl, A)
         /\ Used(gl, Other(A)) = 0 /\ Found(gl, Other(A)) = 0
         /\ Used(gl, A) = Used(fl, A) /\ Found(gl, A) = Found(fl, A)
         /\ gl[Other(A)] = [w \in Words |-> Blank] /\ gl[A] = fl[A]
  <1> USE SectorFacts
  <1> DEFINE B == Other(A)
  <1>1. gl[B] = [w \in Words |-> Blank] /\ gl[A] = fl[A]
    BY DEF Erased, Filled
  <1>2. Filling(gl[B], 0, 0) BY <1>1, FilledSector
  <1>3. /\ Valid(gl) /\ Used(gl, B) = 0 /\ Found(gl, B) = 0
        /\ Used(gl, A) = Used(fl, A) /\ Found(gl, A) = Found(fl, A)
    BY <1>1, <1>2, SectorWritten
  <1>4. Keep(gl) = A
    <2>1. Used(fl, A) \in 0 .. S /\ (A = Sector2 => Used(fl, A) > 0)
      BY NumbersInSector DEF Reliable
    <2>2. Preferred(gl, A) BY <1>3, <2>1 DEF Preferred
    <2> QED BY <1>3, <2>2, KeepPreferred
  <1>5. Sound(gl) BY <1>3, <1>4 DEF Sound, Reliable
  <1> QED BY <1>1, <1>3, <1>4, <1>5, RecoveredKept

LEMMA OtherJunk ==
  ASSUME StbAssumption, NEW fl \in [Sectors -> [Words -> Content]], Valid(fl), NEW A \in Sectors,
         Reliable(fl, A), Used(fl, A) > 0, NEW gl, gl = Filled(fl, Other(A), Junk)
  PROVE  Valid(gl) /\ Sound(gl) /\ Recovered(gl) = Found(fl, A) /\ \A s \in Sectors : Found(gl, s) \in {0, Found(fl, s)}
  <1> USE SectorFacts
  <1> DEFINE B == Other(A)
  <1>1. gl[B] = [w \in Words |-> Junk] /\ gl[A] = fl[A]
    BY DEF Filled
  <1>2. Filling(gl[B], S, 0) BY <1>1, FilledSector
  <1>3. /\ Valid(gl) /\ Used(gl, B) = S /\ Found(gl, B) = 0
        /\ Used(gl, A) = Used(fl, A) /\ Found(gl, A) = Found(fl, A)
    <2>1. Other(B) = A /\ B \in Sectors OBVIOUS
    <2> HIDE DEF B
    <2>2. gl[Other(B)] = fl[Other(B)] BY <1>1, <2>1
    <2> QED BY <1>2, <2>1, <2>2, SectorWritten
  <1>4. Used(fl, A) \in 0 .. S BY NumbersInSector
  <1>5. A \in {Sector1, Sector2} /\ B \in {Sector1, Sector2} /\ A # B /\ Other(B) = A BY DEF Sectors
  <1>6. Keep(gl) \in {A, B} /\ (Keep(gl) = A <=> Preferred(gl, A))
    <2>1. Keep(gl) \in Sectors /\ (Keep(gl) = A <=> Preferred(gl, A)) BY <1>3, KeepPreferred
    <2> QED BY <1>5, <2>1
  <1> HIDE DEF B
  <1>7. CASE Found(fl, A) = 0
    <2>1. Keep(gl) = Sector2 /\ (A = Sector2 => Used(fl, A) = S)
      BY <1>3, <1>4, <1>5, <1>6, <1>7 DEF Preferred, Reliable, B
    <2>2. Sound(gl) /\ Found(gl, Keep(gl)) = 0
      BY <1>3, <1>5, <1>7, <2>1 DEF Sound
    <2> QED BY <1>3, <1>5, <1>7, <2>2, RecoveredKept
  <1>8. CASE Found(fl, A) # 0
    <2>1. Keep(gl) = A
      BY <1>3, <1>4, <1>5, <1>6, <1>8 DEF Preferred, Reliable, B
    <2>2. Sound(gl)
      BY <1>3, <1>5, <1>8, <2>1 DEF Sound, Reliable
    <2> QED BY <1>3, <1>5, <1>8, <2>1, <2>2, RecoveredKept
  <1> QED BY <1>7, <1>8

(* The inductive invariant. *)

\* No record ends with the last word of the first sector.  Its free address would be
\* that of the second: the store fails there, see the run stb_fill.
NotFull == flash[Sector1][S - 1] # EndId

\* The free address a is behind what one sector holds; the other is blank, or holds
\* the second copy of it.
Ready(fl, a) ==
  LET A == SectorOf(a)
      B == Other(A)
  IN  /\ Used(fl, A) = a - A
      /\ \/ Used(fl, B) = 0 /\ Keep(fl) = A
         \/ /\ Used(fl, B) = Used(fl, A) /\ Used(fl, A) > 0
            /\ Found(fl, B) = Found(fl, A) /\ Found(fl, A) # 0

\* A save writes to sector A at place p the next record of it, or the first of an
\* erased sector while the other keeps what was saved, or the second copy.
Appending(A, p) ==
  /\ copy = "first" /\ at = addr /\ f_addr # Unknown
  /\ field = "start" => Used(flash, A) = p
  /\ A = Sector2 => Found(flash, A) # 0
  /\ \/ Used(flash, Other(A)) = 0
     \/ /\ Used(flash, Other(A)) = p /\ p > 0
        /\ Found(flash, Other(A)) = Found(flash, A) /\ Found(flash, A) # 0

Moving(A, p) ==
  /\ copy = "first" /\ p = 0 /\ SectorOf(addr) = Other(A)
  /\ Used(flash, Other(A)) > S - R /\ Reliable(flash, Other(A))

Copying(A, p) ==
  /\ copy = "mirror"
  /\ Used(flash, Other(A)) = p + R /\ Found(flash, Other(A)) = saves
  /\ Other(A) = Sector1 => p + R < S

Busy == pc \in {"room", "write", "erase"} \/ (pc = "scan" /\ call = "save")

CallInv ==
  /\ pc = "off" => f_addr = Unknown /\ ret = "none"
  /\ Busy <=> ret = "busy"
  /\ Busy => since < saves
  /\ ret # "failed"
  /\ pc = "scan" /\ call = "restart" => ret = "none"

WriteInv ==
  LET A == SectorOf(at)
  IN  /\ Part(flash[A], Place, field, saves) /\ Level(Used(flash, A), Place, field)
      /\ Appending(A, Place) \/ (Moving(A, Place) /\ at # addr) \/ Copying(A, Place)

EraseInv ==
  LET A == SectorOf(at)
  IN  Moving(A, Place) /\ Used(flash, A) = R /\ Found(flash, A) = saves

IInv ==
  /\ TypeInv /\ CallInv
  /\ Valid(flash) /\ Sound(flash)
  /\ \A s \in Sectors : Found(flash, s) <= saves
  /\ pc \in {"idle", "scan", "room"} /\ f_addr # Unknown => Ready(flash, f_addr)
  /\ pc = "room" => addr = f_addr /\ f_addr # Unknown
  /\ pc = "write" => WriteInv
  /\ pc = "erase" => EraseInv
  /\ pc \in {"idle", "scan"} /\ ret = "ok" => Recovered(flash) = saves

LEMMA IInvFacts ==
  ASSUME StbAssumption, IInv
  PROVE  /\ flash \in [Sectors -> [Words -> Content]] /\ f_addr \in Unknown .. 2 * S
         /\ addr \in 0 .. 2 * S /\ at \in 0 .. 2 * S /\ saves \in 0 .. MaxSaves /\ since \in 0 .. saves
         /\ field \in DOMAIN Fields
         /\ pc \in {"write", "erase"} => Place + R <= S
         /\ Busy => saves > 0
         /\ \A s \in Sectors : Used(flash, s) \in 0 .. S /\ Found(flash, s) \in 0 .. saves
         /\ Recovered(flash) = Found(flash, Keep(flash)) /\ Recovered(flash) \in 0 .. saves
         /\ Keep(flash) \in Sectors /\ Reliable(flash, Keep(flash))
  <1> USE SectorFacts
  <1>1. TypeInv /\ Valid(flash) /\ Sound(flash) /\ \A s \in Sectors : Found(flash, s) <= saves
    BY DEF IInv
  <1>2. \A s \in Sectors : Used(flash, s) \in 0 .. S /\ Found(flash, s) \in 0 .. MaxSaves
    BY <1>1, NumbersInSector
  <1>3. saves \in 0 .. MaxSaves /\ MaxSaves \in Nat BY <1>1 DEF TypeInv, TypeOK, StbAssumption
  <1>4. \A s \in Sectors : Found(flash, s) \in 0 .. saves BY <1>1, <1>2, <1>3
  <1>5. Keep(flash) \in Sectors /\ Recovered(flash) = Found(flash, Keep(flash))
    BY <1>1, KeepPreferred, RecoveredKept
  <1>6. Reliable(flash, Keep(flash)) BY <1>1 DEF Sound, Reliable
  <1>7. flash \in [Sectors -> [Words -> Content]] BY <1>1 DEF TypeInv, TypeOK, Content
  <1> QED BY <1>1, <1>2, <1>3, <1>4, <1>5, <1>6, <1>7 DEF TypeInv, TypeOK, Busy

\* A restart finds the same before and after the step.
Kept == Recovered(flash)' = Recovered(flash)

LEMMA ScanStep ==
  ASSUME StbAssumption, IInv, TypeInv', Scan
  PROVE  IInv' /\ Kept
  <1> USE SectorFacts
  <1> DEFINE A == Keep(flash)
  <1>1. /\ flash \in [Sectors -> [Words -> Content]] /\ Valid(flash) /\ Sound(flash)
        /\ A \in Sectors /\ Reliable(flash, A) /\ Recovered(flash) = Found(flash, A)
        /\ \A s \in Sectors : Used(flash, s) \in 0 .. S /\ Found(flash, s) <= saves
        /\ CallInv
    BY IInvFacts DEF IInv
  <1>2. CASE f_addr = Unknown
    <2>1. flash' = Erased(flash, Other(A)) /\ f_addr' = A + Used(flash, A)
      BY <1>2 DEF Scan, Scanned, FreeAddr
    <2>2. /\ Valid(flash') /\ Sound(flash') /\ Keep(flash') = A /\ Recovered(flash') = Found(flash, A)
          /\ Used(flash', Other(A)) = 0 /\ Found(flash', Other(A)) = 0
          /\ Used(flash', A) = Used(flash, A) /\ Found(flash', A) = Found(flash, A)
      BY <1>1, <2>1, OtherErased
    <2>3. SectorOf(f_addr') = A /\ f_addr' - A = Used(flash, A)
      BY <1>1, <2>1 DEF Reliable, SectorOf
    <2>4. Ready(flash', f_addr') BY <2>2, <2>3 DEF Ready
    <2>5. \A s \in Sectors : Found(flash', s) <= saves
      <3>1. \A s \in Sectors : s = A \/ s = Other(A) BY <1>1 DEF Other
      <3>2. Found(flash', A) <= saves /\ Found(flash', Other(A)) <= saves BY <1>1, <2>2, IInvFacts
      <3> QED BY <3>1, <3>2
    <2>6. /\ Valid(flash)' /\ Sound(flash)' /\ Recovered(flash)' = Recovered(flash)
          /\ Ready(flash, f_addr)' /\ (\A s \in Sectors : Found(flash, s) <= saves)'
          /\ f_addr' # Unknown /\ addr' = f_addr'
      BY <1>1, <2>1, <2>2, <2>4, <2>5 DEF Scan
    <2>7. (pc = "scan" /\ (pc' = "room" \/ pc' = "idle")) /\ ret' = ret /\ saves' = saves
      BY DEF Scan
    <2>8. CallInv' BY <1>1, <2>6 DEF Scan, CallInv, Busy
    <2>9. pc' = "idle" /\ ret' = "ok" => Recovered(flash)' = saves' BY <2>6, <2>7 DEF IInv
    <2> QED BY <2>6, <2>7, <2>8, <2>9 DEF IInv, Kept
  <1>3. CASE f_addr # Unknown
    <2>1. flash' = flash /\ f_addr' = f_addr /\ addr' = f_addr /\ saves' = saves /\ ret' = ret
      BY <1>3 DEF Scan
    <2>2. /\ Valid(flash)' /\ Sound(flash)' /\ Recovered(flash)' = Recovered(flash)
          /\ Ready(flash, f_addr)' /\ (\A s \in Sectors : Found(flash, s) <= saves)'
      BY <1>1, <1>3, <2>1 DEF Scan, IInv
    <2>3. CallInv' BY <1>1, <1>3, <2>1 DEF Scan, CallInv, Busy
    <2>4. pc = "scan" /\ (pc' = "room" \/ pc' = "idle") BY DEF Scan
    <2>5. pc' = "idle" /\ ret' = "ok" => Recovered(flash)' = saves' BY <2>1, <2>2, <2>4 DEF IInv
    <2> QED BY <1>3, <2>1, <2>2, <2>3, <2>4, <2>5 DEF IInv, Kept
  <1> QED BY <1>2, <1>3

LEMMA BeginStep ==
  ASSUME StbAssumption, IInv, TypeInv', BeginSave \/ BeginLoad
  PROVE  IInv' /\ Kept
  <1>1. flash' = flash /\ f_addr' = f_addr /\ pc \in {"off", "idle"} /\ pc' = "scan"
    BY DEF BeginSave, BeginLoad
  <1>2. saves \in Nat /\ since \in 0 .. saves /\ \A s \in Sectors : Found(flash, s) \in 0 .. saves
    BY IInvFacts
  <1>3. saves' \in {saves, saves + 1} /\ since' = since BY DEF BeginSave, BeginLoad
  <1>4. \A s \in Sectors : Found(flash', s) <= saves'
    BY <1>1, <1>2, <1>3
  <1>5. CallInv' BY <1>1, <1>2, <1>3 DEF IInv, CallInv, Busy, BeginSave, BeginLoad
  <1>6. f_addr' # Unknown => Ready(flash', f_addr')
    BY <1>1 DEF IInv, CallInv
  <1>7. ret' = "ok" => Recovered(flash') = saves'
    <2> SUFFICES ASSUME ret' = "ok" PROVE Recovered(flash') = saves' OBVIOUS
    <2>1. BeginLoad /\ ret = "ok" BY DEF BeginSave, BeginLoad
    <2>2. pc = "idle" BY <1>1, <2>1 DEF IInv, CallInv
    <2> QED BY <1>1, <2>1, <2>2 DEF IInv, BeginLoad
  <1>8. Valid(flash') /\ Sound(flash') /\ Recovered(flash') = Recovered(flash) BY <1>1 DEF IInv
  <1> QED BY <1>1, <1>4, <1>5, <1>6, <1>7, <1>8 DEF IInv, Kept

\* What is ready to take the next record may be relied on when the other sector goes.
LEMMA ReadyReliable ==
  ASSUME StbAssumption, IInv, NEW a \in 0 .. 2 * S, Ready(flash, a)
  PROVE  /\ Reliable(flash, SectorOf(a)) /\ Recovered(flash) = Found(flash, SectorOf(a))
         /\ SectorOf(a) \in Sectors /\ Used(flash, SectorOf(a)) = a - SectorOf(a)
         /\ \/ Used(flash, Other(SectorOf(a))) = 0
            \/ /\ Used(flash, Other(SectorOf(a))) = a - SectorOf(a) /\ a - SectorOf(a) > 0
               /\ Found(flash, Other(SectorOf(a))) = Found(flash, SectorOf(a))
               /\ Found(flash, SectorOf(a)) # 0
  <1> USE SectorFacts
  <1> DEFINE A == SectorOf(a)
             B == Other(A)
  <1>1. /\ A \in Sectors /\ B \in Sectors /\ A # B /\ Keep(flash) \in Sectors
        /\ Reliable(flash, Keep(flash)) /\ Recovered(flash) = Found(flash, Keep(flash))
        /\ Valid(flash) /\ Used(flash, A) = a - A
    BY IInvFacts DEF IInv, Ready
  <1>2. (A = Sector1 /\ B = Sector2) \/ (A = Sector2 /\ B = Sector1) BY DEF SectorOf, Other
  <1> HIDE DEF A, B
  <1>3. CASE Used(flash, B) = 0 /\ Keep(flash) = A
    BY <1>1, <1>3 DEF A, B
  <1>4. CASE /\ Used(flash, B) = Used(flash, A) /\ Used(flash, A) > 0
             /\ Found(flash, B) = Found(flash, A) /\ Found(flash, A) # 0
    <2>1. Preferred(flash, Sector1)
      BY <1>2, <1>4 DEF Preferred, Other
    <2>2. Keep(flash) = Sector1 BY <1>1, <2>1, KeepPreferred
    <2>3. Recovered(flash) = Found(flash, A) BY <1>1, <1>2, <1>4, <2>2
    <2>4. Reliable(flash, A) BY <1>1, <1>2, <1>4, <2>2 DEF Reliable
    <2> QED BY <1>1, <1>4, <2>3, <2>4 DEF A, B
  <1> QED BY <1>3, <1>4 DEF Ready, A, B

LEMMA MakeRoomStep ==
  ASSUME StbAssumption, IInv, TypeInv', MakeRoom
  PROVE  IInv' /\ Kept
  <1> USE SectorFacts
  <1> DEFINE A == SectorOf(addr)
             B == Other(A)
  <1>0. /\ pc = "room" /\ pc' = "write" /\ addr' = addr /\ saves' = saves /\ ret' = ret /\ since' = since
        /\ call' = call
    BY DEF MakeRoom, Writes
  <1>8. addr = f_addr /\ f_addr # Unknown /\ Ready(flash, addr)
    BY <1>0 DEF IInv
  <1>9. Valid(flash) /\ Sound(flash) /\ \A s \in Sectors : Found(flash, s) <= saves
    BY DEF IInv
  <1>10. addr \in 0 .. 2 * S /\ A \in {0, S} /\ addr - A \in 0 .. S
    BY IInvFacts DEF SectorOf
  <1>1. /\ pc = "room" /\ pc' = "write" /\ addr' = addr /\ saves' = saves /\ ret' = ret /\ since' = since
        /\ call' = call /\ addr = f_addr /\ f_addr # Unknown /\ Ready(flash, addr) /\ addr \in 0 .. 2 * S
        /\ Valid(flash) /\ Sound(flash) /\ \A s \in Sectors : Found(flash, s) <= saves
    BY <1>0, <1>8, <1>9, <1>10
  <1>2. /\ Reliable(flash, A) /\ Recovered(flash) = Found(flash, A)
        /\ A \in Sectors /\ Used(flash, A) = addr - A
        /\ \/ Used(flash, B) = 0
           \/ /\ Used(flash, B) = addr - A /\ addr - A > 0
              /\ Found(flash, B) = Found(flash, A) /\ Found(flash, A) # 0
    BY <1>1, ReadyReliable
  <1>3. CallInv' BY <1>1 DEF IInv, CallInv, Busy
  <1>4. copy' = "first" /\ field' = "start" /\ (Fits(addr) <=> addr - A + R <= S)
    BY DEF MakeRoom, Writes, Fits
  <1>5. Part(flash'[SectorOf(at')], at' - SectorOf(at'), "start", saves)
    BY DEF Part
  <1>6. CASE Fits(addr)
    <2>1. flash' = flash /\ f_addr' = f_addr /\ at' = addr BY <1>6 DEF MakeRoom, Writes
    <2>2. A = Sector2 => Found(flash, A) # 0 BY <1>2, <1>4, <1>6 DEF Reliable
    <2>3. Appending(SectorOf(at), Place)' /\ Level(Used(flash, SectorOf(at)), Place, field)'
          /\ Part(flash[SectorOf(at)], Place, field, saves)'
      BY <1>1, <1>2, <1>4, <1>5, <2>1, <2>2 DEF Appending, Level, Place
    <2>4. WriteInv' BY <2>3 DEF WriteInv
    <2> QED BY <1>1, <1>3, <2>1, <2>4 DEF IInv, Kept
  <1>7. CASE ~ Fits(addr)
    <2>1. addr > A BY <1>10, <1>4, <1>7
    <2>2. (IF addr > Sector2 THEN Sector1 ELSE Sector2) = B
      BY <1>10, <2>1 DEF SectorOf, Other
    <2>3. flash' = Erased(flash, B) /\ f_addr' = B /\ at' = B
      BY <1>7, <2>2 DEF MakeRoom, Writes
    <2>4. /\ Valid(flash') /\ Sound(flash') /\ Keep(flash') = A /\ Recovered(flash') = Found(flash, A)
          /\ Used(flash', B) = 0 /\ Found(flash', B) = 0
          /\ Used(flash', A) = Used(flash, A) /\ Found(flash', A) = Found(flash, A)
      BY <1>1, <1>2, <2>3, OtherErased, IInvFacts
    <2>5. B \in Sectors /\ Other(B) = A /\ SectorOf(B) = B /\ B - B = 0 /\ B # addr
      BY <1>1, <1>2, <2>1 DEF SectorOf, Other
    <2>6. \A s \in Sectors : Found(flash', s) <= saves'
      <3>1. \A s \in Sectors : s = A \/ s = B BY <1>2 DEF Other
      <3>2. Found(flash', A) <= saves /\ Found(flash', B) <= saves BY <1>1, <1>2, <2>4, IInvFacts
      <3> QED BY <1>1, <3>1, <3>2
    <2>7. Reliable(flash', A) BY <1>2, <2>4 DEF Reliable
    <2>8. SectorOf(at') = B /\ Place' = 0 BY <2>3, <2>5 DEF Place
    <2> HIDE DEF A, B
    <2>9. Moving(SectorOf(at), Place)' /\ Level(Used(flash, SectorOf(at)), Place, field)'
          /\ Part(flash[SectorOf(at)], Place, field, saves)' /\ at' # addr'
      <3>1. Used(flash, A) > S - R
        <4>1. ~ (addr - A + R <= S) BY <1>4, <1>7
        <4>2. addr - A > S - R BY <1>10, <4>1 DEF A
        <4> QED BY <1>2, <4>2
      <3>2. SectorOf(addr') = A BY <1>1 DEF A
      <3>3. Part(flash'[B], 0, "start", saves') BY DEF Part
      <3> QED BY <1>1, <1>4, <2>3, <2>4, <2>5, <2>7, <2>8, <3>1, <3>2, <3>3 DEF Moving, Level
    <2>10. WriteInv' BY <2>9 DEF WriteInv
    <2> QED BY <1>1, <1>2, <1>3, <2>3, <2>4, <2>6, <2>10 DEF IInv, Kept
  <1> QED BY <1>6, <1>7

\* Writing a field of the record: what it changes, whichever copy it is of.
LEMMA PutSector ==
  ASSUME StbAssumption, IInv, Put
  PROVE  LET A == SectorOf(at)
             B == Other(A)
         IN  /\ A \in Sectors /\ Place \in Nat /\ Place + R <= S /\ at = A + Place
             /\ Valid(flash') /\ Used(flash', A) = Place + Behind(field)
             /\ Found(flash', A) = IF field = "end" THEN saves ELSE Found(flash, A)
             /\ Used(flash', B) = Used(flash, B) /\ Found(flash', B) = Found(flash, B)
             /\ field = "start" => Part(flash'[A], Place, "data", saves)
             /\ field = "data" => Part(flash'[A], Place, "end", saves)
             /\ field = "end" => flash'[A][Place + L + 1] = EndId
             /\ \A s \in Sectors : Found(flash', s) <= saves
             /\ f_addr' = IF f_addr = Unknown THEN Unknown ELSE at + Behind(field)
  <1> USE SectorFacts
  <1> DEFINE A == SectorOf(at)
             B == Other(A)
             d == WithField(flash[A], Place, field, saves)
  <1>1. /\ pc = "write" /\ WriteInv /\ Valid(flash) /\ flash \in [Sectors -> [Words -> Content]]
        /\ field \in DOMAIN Fields /\ at \in 0 .. 2 * S
    <2>1. pc = "write" BY DEF Put
    <2>2. WriteInv /\ Valid(flash) BY <2>1 DEF IInv
    <2>3. flash \in [Sectors -> [Words -> Content]] BY IInvFacts
    <2>4. field \in DOMAIN Fields /\ at \in 0 .. 2 * S BY IInvFacts
    <2> QED BY <2>1, <2>2, <2>3, <2>4
  <1>2. saves \in 1 .. MaxSaves /\ Place + R <= S
    <2>1. saves \in 0 .. MaxSaves /\ saves > 0 BY <1>1, IInvFacts DEF Busy
    <2>2. Place + R <= S BY <1>1, IInvFacts
    <2> QED BY <2>1, <2>2
  <1>3. A \in Sectors /\ Place \in Nat /\ at = A + Place BY <1>1 DEF Place, SectorOf
  <1>4. Part(flash[A], Place, field, saves) /\ Level(Used(flash, A), Place, field)
    BY <1>1 DEF WriteInv
  <1>5. Filling(flash[A], Used(flash, A), Found(flash, A)) BY <1>1, <1>3 DEF Valid
  <1>6. flash' = [flash EXCEPT ![A] = d]
    <2>1. flash' = [flash EXCEPT ![A] =
                [w \in Words |-> IF w - Place \in Fields[field] THEN Record(saves, w - Place) ELSE @[w]]]
      BY DEF Put
    <2> QED BY <2>1 DEF WithField
  <1>7. flash'[A] = d /\ flash'[B] = flash[B] BY <1>1, <1>3, <1>6
  <1> HIDE DEF A, B, d
  <1>8. /\ Filling(d, Place + Behind(field), IF field = "end" THEN saves ELSE Found(flash, A))
        /\ field = "start" => Part(d, Place, "data", saves)
        /\ field = "data" => Part(d, Place, "end", saves)
        /\ field = "end" => d[Place + L + 1] = EndId
    BY <1>1, <1>2, <1>3, <1>4, <1>5, WriteField DEF d
  <1>9. /\ Valid(flash') /\ Used(flash', A) = Place + Behind(field)
        /\ Found(flash', A) = IF field = "end" THEN saves ELSE Found(flash, A)
        /\ Used(flash', B) = Used(flash, B) /\ Found(flash', B) = Found(flash, B)
    <2> DEFINE u == Place + Behind(field)
               v == IF field = "end" THEN saves ELSE Found(flash, A)
    <2>1. Filling(flash'[A], u, v) BY <1>7, <1>8
    <2>2. flash'[Other(A)] = flash[Other(A)] BY <1>7 DEF B
    <2> HIDE DEF u, v
    <2>3. /\ Valid(flash') /\ Used(flash', A) = u /\ Found(flash', A) = v
          /\ Used(flash', B) = Used(flash, B) /\ Found(flash', B) = Found(flash, B)
      BY <1>1, <1>3, <2>1, <2>2, SectorWritten DEF B
    <2> QED BY <2>3 DEF u, v
  <1>10. \A s \in Sectors : Found(flash', s) <= saves
    <2>1. \A s \in Sectors : s = A \/ s = B BY <1>3 DEF Other, B
    <2>2. Found(flash, A) <= saves /\ Found(flash, B) <= saves /\ saves <= saves
      BY <1>2, <1>3, IInvFacts DEF B
    <2> QED BY <1>9, <2>1, <2>2
  <1>11. f_addr' = IF f_addr = Unknown THEN Unknown ELSE at + Behind(field)
    <2>1. f_addr' = Cached(at + Max(Fields[field]) + 1) BY DEF Put
    <2>2. at + Max(Fields[field]) + 1 = at + Behind(field)
      <3>1. Max(Fields[field]) \in Int /\ Max(Fields[field]) + 1 = Behind(field) BY <1>1, FieldEnds
      <3>2. at \in Int BY <1>1
      <3> QED BY <3>1, <3>2
    <2> QED BY <2>1, <2>2 DEF Cached
  <1> QED BY <1>2, <1>3, <1>7, <1>8, <1>9, <1>10, <1>11 DEF A, B

LEMMA PutControl ==
  ASSUME Put
  PROVE  /\ pc = "write" /\ addr' = addr /\ call' = call /\ saves' = saves /\ since' = since
         /\ field = "start" => field' = "data" /\ at' = at /\ copy' = copy /\ pc' = pc /\ ret' = ret
         /\ field = "data" => field' = "end" /\ at' = at /\ copy' = copy /\ pc' = pc /\ ret' = ret
         /\ field = "end" /\ copy = "first" /\ at = addr =>
              at' = Mirrored(at) /\ copy' = "mirror" /\ field' = "start" /\ pc' = "write" /\ ret' = ret
         /\ field = "end" /\ copy = "first" /\ at # addr =>
              at' = at /\ copy' = copy /\ field' = field /\ pc' = "erase" /\ ret' = ret
         /\ field = "end" /\ copy = "mirror" => at' = at /\ copy' = copy /\ pc' = "idle" /\ ret' = "ok"
  BY DEF Put, Writes

\* The numbers a write starts from.
LEMMA PutNumbers ==
  ASSUME StbAssumption, IInv, Put
  PROVE  LET A == SectorOf(at)
             B == Other(A)
         IN  /\ A \in {Sector1, Sector2} /\ B \in {Sector1, Sector2} /\ A # B /\ Other(B) = A
             /\ Place \in Nat /\ Place + L + 2 <= S /\ at = A + Place /\ saves \in Nat /\ saves > 0
             /\ Used(flash, A) \in 0 .. S /\ Used(flash, B) \in 0 .. S
             /\ Found(flash, A) # 0 => Used(flash, A) >= L + 2
             /\ Found(flash, B) # 0 => Used(flash, B) >= L + 2
             /\ field \in {"start", "data", "end"}
             /\ field = "start" => Used(flash, A) <= Place /\ Used(flash', A) = Place + 1
             /\ field = "data" => Used(flash, A) = Place + 1 /\ Used(flash', A) = Place + L + 1
             /\ field = "end" => Used(flash, A) = Place + L + 1 /\ Used(flash', A) = Place + L + 2
             /\ Keep(flash) \in Sectors /\ Keep(flash') \in Sectors
             /\ Keep(flash) = A <=> Preferred(flash, A)
             /\ Keep(flash') = A <=> Preferred(flash', A)
             /\ Recovered(flash) = Found(flash, Keep(flash))
             /\ Sound(flash') => Recovered(flash') = Found(flash', Keep(flash'))
  <1> USE SectorFacts
  <1> DEFINE A == SectorOf(at)
             B == Other(A)
  <1>1. /\ A \in Sectors /\ Place \in Nat /\ Place + R <= S /\ at = A + Place
        /\ Valid(flash') /\ Used(flash', A) = Place + Behind(field)
    BY PutSector
  <1>2. A \in {Sector1, Sector2} /\ B \in {Sector1, Sector2} /\ A # B /\ Other(B) = A
    BY <1>1 DEF Other
  <1>3. Valid(flash) /\ pc = "write" /\ Level(Used(flash, A), Place, field)
    BY PutControl DEF IInv, WriteInv
  <1>4. saves \in Nat /\ saves > 0 /\ field \in {"start", "data", "end"}
    <2>1. DOMAIN Fields = {"start", "data", "end"} BY DEF Fields
    <2>2. field \in DOMAIN Fields BY IInvFacts
    <2>3. Busy BY <1>3 DEF Busy
    <2>4. saves \in Nat /\ saves > 0 BY <2>3, IInvFacts
    <2> QED BY <2>1, <2>2, <2>4
  <1>5. /\ Used(flash, A) \in 0 .. S /\ Used(flash, B) \in 0 .. S
        /\ Found(flash, A) # 0 => Used(flash, A) >= L + 2
        /\ Found(flash, B) # 0 => Used(flash, B) >= L + 2
    <2> B \in Sectors BY <1>2
    <2>1. Used(flash, A) \in 0 .. S /\ (Found(flash, A) # 0 => Used(flash, A) >= R) 
      BY <1>1, <1>3, NumbersInSector
    <2>2. Used(flash, B) \in 0 .. S /\ (Found(flash, B) # 0 => Used(flash, B) >= R) 
      BY <1>3, NumbersInSector
    <2> QED BY <2>1, <2>2
  <1>6. /\ Keep(flash) \in Sectors /\ Keep(flash') \in Sectors
        /\ Keep(flash) = A <=> Preferred(flash, A)
        /\ Keep(flash') = A <=> Preferred(flash', A)
    <2>1. Keep(flash) \in Sectors /\ (Keep(flash) = A <=> Preferred(flash, A))
      BY <1>1, <1>3, KeepPreferred
    <2>2. Keep(flash') \in Sectors /\ (Keep(flash') = A <=> Preferred(flash', A))
      BY <1>1, KeepPreferred
    <2> QED BY <2>1, <2>2
  <1>7. Recovered(flash) = Found(flash, Keep(flash)) BY IInvFacts
  <1>8. Sound(flash') => Recovered(flash') = Found(flash', Keep(flash')) BY <1>1, RecoveredKept
  <1>9. /\ field = "start" => Used(flash, A) <= Place /\ Used(flash', A) = Place + 1
        /\ field = "data" => Used(flash, A) = Place + 1 /\ Used(flash', A) = Place + L + 1
        /\ field = "end" => Used(flash, A) = Place + L + 1 /\ Used(flash', A) = Place + L + 2
    BY <1>1, <1>3 DEF Level, Behind
  <1> HIDE DEF A, B
  <1> QED BY <1>1, <1>2, <1>4, <1>5, <1>6, <1>7, <1>8, <1>9 DEF A, B

LEMMA PutAppending ==
  ASSUME StbAssumption, IInv, Put, NotFull', Appending(SectorOf(at), Place)
  PROVE  /\ Sound(flash') /\ Recovered(flash') \in {Recovered(flash), saves}
         /\ field # "end" => Appending(SectorOf(at), Place)' /\ at' = at
         /\ field = "end" => Copying(SectorOf(at), Place)' /\ Used(flash', SectorOf(at')) <= Place'
  <1> USE SectorFacts
  <1> DEFINE A == SectorOf(at)
             B == Other(A)
             p == Place
  <1>1. /\ A \in {Sector1, Sector2} /\ B \in {Sector1, Sector2} /\ A # B /\ Other(B) = A
        /\ p \in Nat /\ p + L + 2 <= S /\ at = A + p /\ saves \in Nat /\ saves > 0
        /\ Used(flash, A) \in 0 .. S /\ Used(flash, B) \in 0 .. S
        /\ Found(flash, A) # 0 => Used(flash, A) >= L + 2
        /\ Found(flash, B) # 0 => Used(flash, B) >= L + 2
        /\ field \in {"start", "data", "end"}
        /\ field = "start" => Used(flash, A) <= p /\ Used(flash', A) = p + 1
        /\ field = "data" => Used(flash, A) = p + 1 /\ Used(flash', A) = p + L + 1
        /\ field = "end" => Used(flash, A) = p + L + 1 /\ Used(flash', A) = p + L + 2
        /\ Keep(flash) \in Sectors /\ Keep(flash') \in Sectors
        /\ Keep(flash) = A <=> Preferred(flash, A)
        /\ Keep(flash') = A <=> Preferred(flash', A)
        /\ Recovered(flash) = Found(flash, Keep(flash))
        /\ Sound(flash') => Recovered(flash') = Found(flash', Keep(flash'))
    BY PutNumbers
  <1>2. /\ Found(flash', A) = IF field = "end" THEN saves ELSE Found(flash, A)
        /\ Used(flash', B) = Used(flash, B) /\ Found(flash', B) = Found(flash, B)
        /\ field = "end" => flash'[A][p + L + 1] = EndId
        /\ f_addr' = IF f_addr = Unknown THEN Unknown ELSE at + Behind(field)
    BY PutSector
  <1>3. /\ copy = "first" /\ at = addr /\ f_addr # Unknown
        /\ field = "start" => Used(flash, A) = p
        /\ A = Sector2 => Found(flash, A) # 0
        /\ \/ Used(flash, B) = 0
           \/ /\ Used(flash, B) = p /\ p > 0
              /\ Found(flash, B) = Found(flash, A) /\ Found(flash, A) # 0
    BY DEF Appending
  <1>4. field = "end" /\ A = Sector1 => p + L + 2 < S
    <2> SUFFICES ASSUME field = "end", A = Sector1, p + L + 2 = S PROVE FALSE BY <1>1
    <2>1. p + L + 1 = S - 1 BY <1>1
    <2> QED BY <1>2, <2>1 DEF NotFull
  <1>5. f_addr' # Unknown
    BY <1>1, <1>2, <1>3 DEF Behind
  <1>6. Mirrored(at) = B + p /\ SectorOf(Mirrored(at)) = B /\ Mirrored(at) - B = p
    BY <1>1 DEF Mirrored, SectorOf, Other
  <1>7. Sectors = {A, B} BY <1>1
  <1> HIDE DEF A, B, p
  <1>8. ASSUME Used(flash, B) = 0
        PROVE  Sound(flash') /\ Recovered(flash') \in {Recovered(flash), saves}
    <2>1. Preferred(flash, A) /\ Preferred(flash', A)
      BY <1>1, <1>2, <1>3, <1>8 DEF Preferred, B
    <2>2. Sound(flash')
      BY <1>1, <1>2, <1>3, <1>4, <2>1 DEF Sound
    <2>3. Recovered(flash') \in {Recovered(flash), saves}
      BY <1>1, <1>2, <2>1, <2>2
    <2> QED BY <2>2, <2>3
  <1>9. ASSUME Used(flash, B) = p, p > 0,
               Found(flash, B) = Found(flash, A), Found(flash, A) # 0
        PROVE  Sound(flash') /\ Recovered(flash') \in {Recovered(flash), saves}
    <2>1. ~ Preferred(flash', A)
      BY <1>1, <1>2, <1>9 DEF Preferred, B
    <2>2. Keep(flash') = B BY <1>1, <1>7, <2>1
    <2>3. Sound(flash')
      BY <1>1, <1>2, <1>9, <2>2 DEF Sound
    <2>4. Recovered(flash) = Found(flash, B) BY <1>1, <1>7, <1>9
    <2>5. Recovered(flash') \in {Recovered(flash), saves}
      BY <1>1, <1>2, <2>2, <2>3, <2>4
    <2> QED BY <2>3, <2>5
  <1>10. ASSUME field # "end" PROVE Appending(SectorOf(at), Place)' /\ at' = at
    <2>1. at' = at /\ copy' = copy /\ addr' = addr /\ field' # "start"
      BY <1>1, <1>10, PutControl
    <2>2. SectorOf(at)' = A /\ Place' = p BY <2>1 DEF Place, A, p
    <2> QED BY <1>2, <1>3, <1>5, <1>10, <2>1, <2>2 DEF Appending, B
  <1>11. ASSUME field = "end"
         PROVE  Copying(SectorOf(at), Place)' /\ Used(flash', SectorOf(at')) <= Place'
    <2>1. at' = Mirrored(at) /\ copy' = "mirror" /\ saves' = saves
      BY <1>3, <1>11, PutControl
    <2>2. SectorOf(at') = B /\ Place' = p BY <1>6, <2>1 DEF Place
    <2> QED BY <1>1, <1>2, <1>3, <1>4, <1>11, <2>1, <2>2 DEF Copying
  <1> QED BY <1>3, <1>8, <1>9, <1>10, <1>11

LEMMA PutMoving ==
  ASSUME StbAssumption, IInv, Put, Moving(SectorOf(at), Place), at # addr
  PROVE  /\ Sound(flash') /\ Recovered(flash') \in {Recovered(flash), saves}
         /\ at' = at /\ pc' \in {"write", "erase"} /\ Moving(SectorOf(at), Place)'
         /\ field = "end" => Used(flash', SectorOf(at)) = R /\ Found(flash', SectorOf(at)) = saves
  <1> USE SectorFacts
  <1> DEFINE A == SectorOf(at)
             B == Other(A)
             p == Place
  <1>1. /\ A \in {Sector1, Sector2} /\ B \in {Sector1, Sector2} /\ A # B /\ Other(B) = A
        /\ p \in Nat /\ p + L + 2 <= S /\ at = A + p /\ saves \in Nat /\ saves > 0
        /\ Used(flash, A) \in 0 .. S /\ Used(flash, B) \in 0 .. S
        /\ Found(flash, A) # 0 => Used(flash, A) >= L + 2
        /\ Found(flash, B) # 0 => Used(flash, B) >= L + 2
        /\ field \in {"start", "data", "end"}
        /\ field = "start" => Used(flash, A) <= p /\ Used(flash', A) = p + 1
        /\ field = "data" => Used(flash, A) = p + 1 /\ Used(flash', A) = p + L + 1
        /\ field = "end" => Used(flash, A) = p + L + 1 /\ Used(flash', A) = p + L + 2
        /\ Keep(flash) \in Sectors /\ Keep(flash') \in Sectors
        /\ Keep(flash) = A <=> Preferred(flash, A)
        /\ Keep(flash') = A <=> Preferred(flash', A)
        /\ Recovered(flash) = Found(flash, Keep(flash))
        /\ Sound(flash') => Recovered(flash') = Found(flash', Keep(flash'))
    BY PutNumbers
  <1>2. /\ Found(flash', A) = IF field = "end" THEN saves ELSE Found(flash, A)
        /\ Used(flash', B) = Used(flash, B) /\ Found(flash', B) = Found(flash, B)
        /\ field = "end" => flash'[A][p + L + 1] = EndId
        /\ f_addr' = IF f_addr = Unknown THEN Unknown ELSE at + Behind(field)
    BY PutSector
  <1>3. /\ copy = "first" /\ p = 0 /\ SectorOf(addr) = B
        /\ Used(flash, B) > S - R /\ Reliable(flash, B)
    BY DEF Moving
  <1>4. Sectors = {A, B} BY <1>1
  <1>5. /\ at' = at /\ pc' \in {"write", "erase"} /\ copy' = copy /\ addr' = addr
    BY <1>1, <1>3, PutControl
  <1>6. Reliable(flash', B) BY <1>2, <1>3 DEF Reliable
  <1>7. SectorOf(at)' = A /\ Place' = p BY <1>5 DEF Place
  <1> HIDE DEF A, B, p
  <1>8. Moving(SectorOf(at), Place)'
    BY <1>2, <1>3, <1>5, <1>6, <1>7 DEF Moving, B
  <1>9. field = "end" => Used(flash', A) = R /\ Found(flash', A) = saves
    BY <1>1, <1>2, <1>3
  <1>10. Used(flash, B) > L + 2 BY <1>1, <1>3
  <1>11. ASSUME field # "end"
         PROVE  Sound(flash') /\ Recovered(flash') \in {Recovered(flash), saves}
    <2>1. Found(flash, A) = 0 /\ Found(flash', A) = 0 BY <1>1, <1>2, <1>3, <1>11
    <2>7. /\ Used(flash, A) < Used(flash, B) /\ Used(flash', A) < Used(flash', B)
          /\ Used(flash, A) \in Nat /\ Used(flash', A) \in Nat
          /\ Used(flash, B) \in Nat /\ Used(flash', B) \in Nat
      BY <1>1, <1>2, <1>3, <1>10, <1>11
    <2>2. ~ Preferred(flash, A)
      BY <1>1, <2>1, <2>7 DEF Preferred, B
    <2>3. ~ Preferred(flash', A)
      BY <1>1, <2>1, <2>7 DEF Preferred, B
    <2>4. Keep(flash') = B BY <1>1, <1>4, <2>3
    <2>5. Sound(flash') BY <1>1, <1>6, <2>4 DEF Sound, Reliable
    <2>6. Recovered(flash) = Found(flash, B) BY <1>1, <1>4, <2>1, <2>2
    <2> QED BY <1>1, <1>2, <2>4, <2>5, <2>6
  <1>12. ASSUME field = "end"
         PROVE  Sound(flash') /\ Recovered(flash') \in {Recovered(flash), saves}
    <2>1. Preferred(flash', A)
      BY <1>1, <1>2, <1>3, <1>10, <1>12 DEF Preferred, B
    <2>2. Sound(flash') BY <1>1, <1>2, <1>3, <1>12, <2>1 DEF Sound
    <2> QED BY <1>1, <1>2, <1>12, <2>1, <2>2
  <1> QED BY <1>5, <1>8, <1>9, <1>11, <1>12 DEF A

LEMMA PutCopying ==
  ASSUME StbAssumption, IInv, Put, NotFull', Copying(SectorOf(at), Place)
  PROVE  /\ Sound(flash') /\ Recovered(flash') \in {Recovered(flash), saves}
         /\ field # "end" => Copying(SectorOf(at), Place)' /\ at' = at
         /\ field = "end" => /\ f_addr' # Unknown => Ready(flash', f_addr')
                             /\ Recovered(flash') = saves
  <1> USE SectorFacts
  <1> DEFINE A == SectorOf(at)
             B == Other(A)
             p == Place
  <1>1. /\ A \in {Sector1, Sector2} /\ B \in {Sector1, Sector2} /\ A # B /\ Other(B) = A
        /\ p \in Nat /\ p + L + 2 <= S /\ at = A + p /\ saves \in Nat /\ saves > 0
        /\ Used(flash, A) \in 0 .. S /\ Used(flash, B) \in 0 .. S
        /\ Found(flash, A) # 0 => Used(flash, A) >= L + 2
        /\ Found(flash, B) # 0 => Used(flash, B) >= L + 2
        /\ field \in {"start", "data", "end"}
        /\ field = "start" => Used(flash, A) <= p /\ Used(flash', A) = p + 1
        /\ field = "data" => Used(flash, A) = p + 1 /\ Used(flash', A) = p + L + 1
        /\ field = "end" => Used(flash, A) = p + L + 1 /\ Used(flash', A) = p + L + 2
        /\ Keep(flash) \in Sectors /\ Keep(flash') \in Sectors
        /\ Keep(flash) = A <=> Preferred(flash, A)
        /\ Keep(flash') = A <=> Preferred(flash', A)
        /\ Recovered(flash) = Found(flash, Keep(flash))
        /\ Sound(flash') => Recovered(flash') = Found(flash', Keep(flash'))
    BY PutNumbers
  <1>2. /\ Found(flash', A) = IF field = "end" THEN saves ELSE Found(flash, A)
        /\ Used(flash', B) = Used(flash, B) /\ Found(flash', B) = Found(flash, B)
        /\ field = "end" => flash'[A][p + L + 1] = EndId
        /\ f_addr' = IF f_addr = Unknown THEN Unknown ELSE at + Behind(field)
    BY PutSector
  <1>3. /\ copy = "mirror" /\ Used(flash, B) = p + L + 2 /\ Found(flash, B) = saves
        /\ B = Sector1 => p + L + 2 < S
    BY <1>1 DEF Copying
  <1>4. field = "end" /\ A = Sector1 => p + L + 2 < S
    <2> SUFFICES ASSUME field = "end", A = Sector1, p + L + 2 = S PROVE FALSE BY <1>1
    <2>1. p + L + 1 = S - 1 BY <1>1
    <2> QED BY <1>2, <2>1 DEF NotFull
  <1>5. Sectors = {A, B} BY <1>1
  <1> HIDE DEF A, B, p
  <1>6. ASSUME field # "end"
        PROVE  /\ Sound(flash') /\ Recovered(flash') \in {Recovered(flash), saves}
               /\ Copying(SectorOf(at), Place)' /\ at' = at
    <2>1. at' = at /\ copy' = copy /\ saves' = saves BY <1>1, <1>6, PutControl
    <2>2. SectorOf(at)' = A /\ Place' = p BY <2>1 DEF Place, A, p
    <2>3. Copying(SectorOf(at), Place)' BY <1>1, <1>2, <1>3, <2>1, <2>2 DEF Copying, B
    <2>4. CASE Found(flash, A) = 0
      <3>1. ~ Preferred(flash, A) /\ ~ Preferred(flash', A)
        BY <1>1, <1>2, <1>3, <1>6, <2>4 DEF Preferred, B
      <3>2. Keep(flash) = B /\ Keep(flash') = B BY <1>1, <1>5, <3>1
      <3>3. Sound(flash') BY <1>1, <1>2, <1>3, <3>2 DEF Sound
      <3> QED BY <1>1, <1>2, <2>1, <2>3, <3>2, <3>3
    <2>5. CASE Found(flash, A) # 0
      <3>1. Preferred(flash, A) /\ Preferred(flash', A)
        BY <1>1, <1>2, <1>3, <1>6, <2>5 DEF Preferred, B
      <3>2. Keep(flash) = A /\ Keep(flash') = A BY <1>1, <3>1
      <3>3. Sound(flash') BY <1>1, <1>2, <1>3, <1>6, <2>5, <3>2 DEF Sound
      <3> QED BY <1>1, <1>2, <1>6, <2>1, <2>3, <3>2, <3>3
    <2> QED BY <2>4, <2>5
  <1>7. ASSUME field = "end"
        PROVE  /\ Sound(flash') /\ Recovered(flash') = saves
               /\ f_addr' # Unknown => Ready(flash', f_addr')
    <2>1. Found(flash', A) = saves /\ Found(flash', B) = saves
          /\ Used(flash', A) = p + L + 2 /\ Used(flash', B) = p + L + 2 
      BY <1>1, <1>2, <1>3, <1>7
    <2>2. Keep(flash') = A \/ Keep(flash') = B BY <1>1, <1>5
    <2>3. Keep(flash') = Sector1 => p + L + 2 < S
      BY <1>1, <1>3, <1>4, <1>7, <2>2
    <2>4. Sound(flash') BY <1>1, <2>1, <2>2, <2>3 DEF Sound
    <2>5. Recovered(flash') = saves BY <1>1, <2>1, <2>2, <2>4
    <2>6. ASSUME f_addr' # Unknown PROVE Ready(flash', f_addr')
      <3>1. f_addr' = A + p + (L + 2) BY <1>1, <1>2, <1>7, <2>6 DEF Behind
      <3>2. SectorOf(f_addr') = A /\ f_addr' - A = p + L + 2
        BY <1>1, <1>4, <1>7, <3>1 DEF SectorOf
      <3> QED BY <1>1, <2>1, <3>2 DEF Ready, B
    <2> QED BY <2>4, <2>5, <2>6
  <1> QED BY <1>6, <1>7

LEMMA PutStep ==
  ASSUME StbAssumption, IInv, TypeInv', NotFull', Put
  PROVE  IInv' /\ Recovered(flash') \in {Recovered(flash), saves}
  <1> USE SectorFacts
  <1> DEFINE A == SectorOf(at)
             p == Place
  <1>1. /\ Valid(flash') /\ \A s \in Sectors : Found(flash', s) <= saves
        /\ field = "start" => Part(flash'[A], p, "data", saves)
        /\ field = "data" => Part(flash'[A], p, "end", saves)
        /\ Used(flash', A) = p + Behind(field)
    BY PutSector
  <1>2. pc = "write" /\ WriteInv /\ CallInv BY PutControl DEF IInv
  <1>3. field \in {"start", "data", "end"} /\ p \in Nat /\ saves' = saves /\ since' = since
    BY PutNumbers, PutControl
  <1>4. CASE field # "end"
    <2>1. at' = at /\ pc' = pc /\ ret' = ret /\ call' = call /\ addr' = addr
          /\ field' = (IF field = "start" THEN "data" ELSE "end")
      BY <1>3, <1>4, PutControl
    <2>2. SectorOf(at') = A /\ Place' = p BY <2>1 DEF Place
    <2>3. /\ Sound(flash') /\ Recovered(flash') \in {Recovered(flash), saves}
          /\ \/ Appending(SectorOf(at), Place)'
             \/ Moving(SectorOf(at), Place)' /\ at' # addr'
             \/ Copying(SectorOf(at), Place)'
      BY <1>2, <1>4, <2>1, PutAppending, PutMoving, PutCopying DEF WriteInv
    <2>4. Part(flash'[A], p, field', saves') /\ Level(Used(flash', A), p, field')
      BY <1>1, <1>3, <1>4, <2>1 DEF Level, Behind
    <2>5. WriteInv' BY <2>2, <2>3, <2>4 DEF WriteInv
    <2>6. CallInv' BY <1>2, <1>3, <2>1 DEF CallInv, Busy
    <2> QED BY <1>1, <1>2, <1>3, <2>1, <2>3, <2>5, <2>6 DEF IInv
  <1>5. CASE field = "end" /\ Appending(A, p)
    <2>1. /\ at' = Mirrored(at) /\ field' = "start" /\ pc' = "write" /\ ret' = ret /\ call' = call
      BY <1>5, PutControl DEF Appending
    <2>2. /\ Sound(flash') /\ Recovered(flash') \in {Recovered(flash), saves}
          /\ Copying(SectorOf(at), Place)' /\ Used(flash', SectorOf(at')) <= Place'
      BY <1>5, PutAppending
    <2>3. Part(flash'[SectorOf(at')], Place', field', saves') /\ Level(Used(flash', SectorOf(at')), Place', field')
      BY <2>1, <2>2 DEF Part, Level
    <2>4. WriteInv' BY <2>2, <2>3 DEF WriteInv
    <2>5. CallInv' BY <1>2, <1>3, <2>1 DEF CallInv, Busy
    <2> QED BY <1>1, <1>3, <2>1, <2>2, <2>4, <2>5 DEF IInv
  <1>6. CASE field = "end" /\ Moving(A, p) /\ at # addr
    <2>1. pc' = "erase" /\ ret' = ret /\ call' = call /\ at' = at
      BY <1>6, PutControl DEF Moving
    <2>2. /\ Sound(flash') /\ Recovered(flash') \in {Recovered(flash), saves}
          /\ Moving(SectorOf(at), Place)' /\ Used(flash', A) = R /\ Found(flash', A) = saves
      BY <1>6, PutMoving
    <2>3. EraseInv' BY <1>3, <2>1, <2>2 DEF EraseInv
    <2>4. CallInv' BY <1>2, <1>3, <2>1 DEF CallInv, Busy
    <2> QED BY <1>1, <1>3, <2>1, <2>2, <2>3, <2>4 DEF IInv
  <1>7. CASE field = "end" /\ Copying(A, p)
    <2>1. pc' = "idle" /\ ret' = "ok"
      BY <1>7, PutControl DEF Copying
    <2>2. /\ Sound(flash') /\ Recovered(flash') = saves
          /\ f_addr' # Unknown => Ready(flash', f_addr')
      BY <1>7, PutCopying
    <2>3. CallInv' BY <1>2, <1>3, <2>1 DEF CallInv, Busy
    <2> QED BY <1>1, <1>3, <2>1, <2>2, <2>3 DEF IInv
  <1> QED BY <1>2, <1>4, <1>5, <1>6, <1>7 DEF WriteInv

LEMMA EraseOldStep ==
  ASSUME StbAssumption, IInv, TypeInv', EraseOld
  PROVE  IInv' /\ Kept
  <1> USE SectorFacts
  <1> DEFINE A == SectorOf(at)
             B == Other(A)
  <1>1. /\ pc = "erase" /\ flash' = Erased(flash, SectorOf(addr)) /\ f_addr' = Unknown
        /\ at' = Mirrored(at) /\ copy' = "mirror" /\ field' = "start" /\ pc' = "write"
        /\ call' = call /\ ret' = ret /\ saves' = saves /\ since' = since
    BY DEF EraseOld, Writes
  <1>2. EraseInv /\ CallInv /\ Valid(flash) /\ \A s \in Sectors : Found(flash, s) <= saves
    BY <1>1 DEF IInv
  <1>3. Place = 0 /\ SectorOf(addr) = B /\ Used(flash, B) > S - R
        /\ Used(flash, A) = R /\ Found(flash, A) = saves
    BY <1>2 DEF EraseInv, Moving
  <1>4. /\ A \in Sectors /\ B \in Sectors /\ at = A /\ Mirrored(at) = B /\ SectorOf(B) = B /\ Other(B) = A
    <2>1. at \in 0 .. 2 * S BY IInvFacts
    <2> QED BY <1>3, <2>1 DEF Place, SectorOf, Mirrored, Other
  <1>5. saves > 0 /\ saves \in Nat /\ \A s \in Sectors : Found(flash, s) \in 0 .. saves
    BY <1>1, IInvFacts DEF Busy
  <1>6. Reliable(flash, A) BY <1>3, <1>5 DEF Reliable
  <1>7. flash \in [Sectors -> [Words -> Content]] BY IInvFacts
  <1>8. /\ Valid(flash') /\ Sound(flash') /\ Keep(flash') = A /\ Recovered(flash') = Found(flash, A)
        /\ Used(flash', B) = 0 /\ Found(flash', B) = 0
        /\ Used(flash', A) = Used(flash, A) /\ Found(flash', A) = Found(flash, A)
    BY <1>1, <1>2, <1>3, <1>4, <1>6, <1>7, OtherErased
  <1> HIDE DEF A, B
  <1>9. Recovered(flash) = saves
    <2>1. /\ Used(flash, A) > 0 /\ Used(flash, A) < Used(flash, B)
          /\ Used(flash, B) > 0 /\ Found(flash, A) # 0
      <3>1. Used(flash, B) \in 0 .. S BY <1>4, IInvFacts
      <3> QED BY <1>3, <1>5, <3>1
    <2>2. Preferred(flash, A) BY <2>1 DEF Preferred, B
    <2>3. Keep(flash) = A BY <1>2, <1>4, <2>2, KeepPreferred
    <2> QED BY <1>3, <2>3, IInvFacts
  <1>10. SectorOf(at') = B /\ Place' = 0 BY <1>1, <1>4 DEF Place
  <1>11. Copying(SectorOf(at), Place)'
    BY <1>1, <1>3, <1>4, <1>8, <1>10 DEF Copying
  <1>12. WriteInv'
    BY <1>1, <1>8, <1>10, <1>11 DEF WriteInv, Part, Level
  <1>13. CallInv' BY <1>1, <1>2 DEF CallInv, Busy
  <1>14. \A s \in Sectors : Found(flash', s) <= saves'
    <2>1. Sectors = {A, B} BY <1>4 DEF B, Other
    <2> QED BY <1>1, <1>3, <1>5, <1>8, <2>1
  <1> QED BY <1>1, <1>3, <1>8, <1>9, <1>12, <1>13, <1>14 DEF IInv, Kept

LEMMA CrashStep ==
  ASSUME StbAssumption, IInv, TypeInv', Crash
  PROVE  IInv' /\ Kept
  <1> USE SectorFacts
  <1>1. /\ f_addr' = Unknown /\ pc' = "off" /\ ret' = "none" /\ saves' = saves /\ since' = since
        /\ flash' = flash \/ \E s \in Erasing : flash' = Filled(flash, s, Junk)
    BY DEF Crash
  <1>2. /\ Valid(flash) /\ Sound(flash) /\ CallInv /\ \A s \in Sectors : Found(flash, s) <= saves
    BY DEF IInv
  <1>3. /\ flash \in [Sectors -> [Words -> Content]] /\ saves \in Nat
        /\ \A s \in Sectors : Used(flash, s) \in 0 .. S /\ Found(flash, s) \in 0 .. saves
    BY IInvFacts
  <1>4. CASE flash' = flash
    BY <1>1, <1>2, <1>4 DEF IInv, CallInv, Busy, Kept
  <1>5. CASE \E s \in Erasing : flash' = Filled(flash, s, Junk)
    <2>1. PICK s \in Erasing : flash' = Filled(flash, s, Junk) BY <1>5
    <2>2. \E A \in Sectors : /\ s = Other(A) /\ Reliable(flash, A) /\ Used(flash, A) > 0
                             /\ Recovered(flash) = Found(flash, A)
      <3>1. CASE pc = "scan" /\ s = Other(Keep(flash)) /\ \A t \in Sectors : Used(flash, t) > 0
        BY <3>1, IInvFacts
      <3>2. CASE pc = "room" /\ ~ Fits(addr) /\ s = IF addr > Sector2 THEN Sector1 ELSE Sector2
        <4> DEFINE A == SectorOf(addr)
        <4>1. addr = f_addr /\ f_addr # Unknown BY <3>2 DEF IInv
        <4>2. Ready(flash, addr) BY <3>2, <4>1 DEF IInv
        <4>3. addr \in 0 .. 2 * S BY IInvFacts
        <4>4. /\ Reliable(flash, A) /\ Recovered(flash) = Found(flash, A)
              /\ A \in Sectors /\ Used(flash, A) = addr - A
          BY <4>2, <4>3, ReadyReliable
        <4>5. addr - A > 0 BY <3>2, <4>3 DEF Fits, SectorOf
        <4>6. s = Other(A) BY <3>2, <4>3, <4>5 DEF Other, SectorOf
        <4> QED BY <4>4, <4>5, <4>6
      <3>3. CASE pc = "erase" /\ s = SectorOf(addr)
        <4> DEFINE A == SectorOf(at)
        <4>1. EraseInv BY <3>3 DEF IInv
        <4>2. /\ SectorOf(addr) = Other(A) /\ Used(flash, Other(A)) > S - R
              /\ Used(flash, A) = R /\ Found(flash, A) = saves
          BY <4>1 DEF EraseInv, Moving
        <4>3. saves > 0 BY <3>3, IInvFacts DEF Busy
        <4>4. A \in Sectors /\ Other(A) # A /\ Other(A) \in Sectors BY DEF SectorOf, Other
        <4>5. Reliable(flash, A) BY <4>2, <4>3 DEF Reliable
        <4>6. Recovered(flash) = Found(flash, A)
          <5>1. Preferred(flash, A) BY <1>3, <4>2, <4>3, <4>4 DEF Preferred
          <5>2. Keep(flash) = A BY <1>2, <4>4, <5>1, KeepPreferred
          <5> QED BY <5>2, IInvFacts
        <4> QED BY <3>3, <4>2, <4>4, <4>5, <4>6
      <3> QED BY <2>1, <3>1, <3>2, <3>3 DEF Erasing
    <2>3. PICK A \in Sectors : /\ s = Other(A) /\ Reliable(flash, A) /\ Used(flash, A) > 0
                               /\ Recovered(flash) = Found(flash, A)
      BY <2>2
    <2>4. /\ Valid(flash') /\ Sound(flash') /\ Recovered(flash') = Found(flash, A)
          /\ \A t \in Sectors : Found(flash', t) \in {0, Found(flash, t)}
      BY <1>2, <1>3, <2>1, <2>3, OtherJunk
    <2>5. \A t \in Sectors : Found(flash', t) <= saves' BY <1>1, <1>3, <2>4
    <2>6. CallInv' BY <1>1, <1>2 DEF CallInv, Busy
    <2> QED BY <1>1, <2>3, <2>4, <2>5, <2>6 DEF IInv, Kept
  <1> QED BY <1>1, <1>4, <1>5

LEMMA IInvInit ==
  ASSUME StbAssumption, Init
  PROVE  IInv /\ Recovered(flash) = 0
  <1> USE SectorFacts
  <1>1. TypeInv BY TypeInit
  <1>2. \A s \in Sectors : Filling(flash[s], 0, 0)
    BY FilledSector DEF Init
  <1>3. \A s \in Sectors : Used(flash, s) = 0 /\ Found(flash, s) = 0
    BY <1>2, ReadSector DEF Found
  <1>4. Valid(flash) BY <1>2, <1>3 DEF Valid
  <1>5. Keep(flash) = Sector1 BY <1>3 DEF Keep
  <1>6. Sound(flash) BY <1>3, <1>5 DEF Sound
  <1>7. Recovered(flash) = 0 BY <1>3, <1>4, <1>5, <1>6, RecoveredKept
  <1>8. saves = 0 /\ pc = "off" /\ f_addr = Unknown /\ ret = "none" BY DEF Init
  <1> QED BY <1>1, <1>3, <1>4, <1>6, <1>7, <1>8 DEF IInv, CallInv, Busy

\* What every step does to the record a restart finds.
StoredStep ==
  Kept \/ (Put /\ Recovered(flash') = saves)

LEMMA IInvStep ==
  ASSUME StbAssumption, IInv, NotFull', [Next]_vars
  PROVE  IInv' /\ StoredStep
  <1>1. TypeInv' 
    BY TypeStep DEF IInv
  <1>2. CASE UNCHANGED vars
    BY <1>1, <1>2 DEF IInv, StoredStep, Kept, vars, ram, CallInv, Busy, WriteInv, EraseInv, Appending,
                      Moving, Copying, Place
  <1>3. CASE Scan BY <1>1, <1>3, ScanStep DEF StoredStep
  <1>4. CASE BeginSave \/ BeginLoad BY <1>1, <1>4, BeginStep DEF StoredStep
  <1>5. CASE MakeRoom BY <1>1, <1>5, MakeRoomStep DEF StoredStep
  <1>6. CASE Put BY <1>1, <1>6, PutStep DEF StoredStep, Kept
  <1>7. CASE EraseOld BY <1>1, <1>7, EraseOldStep DEF StoredStep
  <1>8. CASE Crash BY <1>1, <1>8, CrashStep DEF StoredStep
  <1> QED BY <1>2, <1>3, <1>4, <1>5, <1>6, <1>7, <1>8 DEF Next

LEMMA IInvAlways == Spec /\ []NotFull => []IInv
  <1>1. Init => IInv BY StbAssumption, IInvInit
  <1>2. IInv /\ NotFull' /\ [Next]_vars => IInv' BY StbAssumption, IInvStep
  <1> QED BY <1>1, <1>2, PTL DEF Spec

LEMMA IInvWritable == StbAssumption /\ IInv => NeverRefused
  <1> SUFFICES ASSUME StbAssumption, IInv, pc = "write" PROVE Writable
    BY DEF NeverRefused
  <1> USE SectorFacts
  <1> DEFINE A == SectorOf(at)
  <1>1. /\ WriteInv /\ Valid(flash) BY DEF IInv
  <1>2. at \in 0 .. 2 * S /\ field \in DOMAIN Fields BY IInvFacts
  <1>3. A \in Sectors /\ Place \in Nat BY <1>2 DEF Place, SectorOf
  <1>4. saves \in 1 .. MaxSaves /\ Place + R <= S
    <2>1. Busy BY DEF Busy
    <2>2. saves \in 0 .. MaxSaves /\ saves > 0 BY <2>1, IInvFacts
    <2>3. Place + R <= S BY IInvFacts
    <2> QED BY <2>2, <2>3
  <1>5. Part(flash[A], Place, field, saves) /\ Level(Used(flash, A), Place, field)
    BY <1>1 DEF WriteInv
  <1>6. Filling(flash[A], Used(flash, A), Found(flash, A)) BY <1>1, <1>3 DEF Valid
  <1>7. \A i \in Fields[field] : Place + i \in Words /\ flash[A][Place + i] = Blank
    BY <1>2, <1>3, <1>4, <1>5, <1>6, WriteField
  <1> QED BY <1>7 DEF Writable

\* Unless a record ends with the first sector's last word, no write of a save needs
\* an erase: whatever a power failure left in the flash, a save finds blank words.
THEOREM WritesNotRefused == Spec /\ []NotFull => []NeverRefused
  <1>1. IInv => NeverRefused BY StbAssumption, IInvWritable
  <1> QED BY <1>1, IInvAlways, PTL

LEMMA IInvLoads == StbAssumption /\ IInv => LoadsLast
  <1> SUFFICES ASSUME StbAssumption, IInv, pc = "idle", ret = "ok", f_addr # Unknown
               PROVE  Load(flash, f_addr) = saves
    BY DEF LoadsLast
  <1>1. Ready(flash, f_addr) /\ Recovered(flash) = saves BY DEF IInv
  <1>2. f_addr \in 0 .. 2 * S BY IInvFacts, SectorFacts
  <1>3. /\ Recovered(flash) = Found(flash, SectorOf(f_addr))
        /\ Used(flash, SectorOf(f_addr)) = f_addr - SectorOf(f_addr)
    BY <1>1, <1>2, ReadyReliable
  <1> QED BY <1>1, <1>3 DEF Load, Found

\* Unless a record ends with the first sector's last word, a load finds the record of
\* the save that succeeded before it.
THEOREM LoadFindsLast == Spec /\ []NotFull => []LoadsLast
  <1>1. IInv => LoadsLast BY StbAssumption, IInvLoads
  <1> QED BY <1>1, IInvAlways, PTL

(* The refinement of RecordStore. *)

\* The saves newer than the record q that a restart finds, of those begun since.
Newer(q, from, to) == {r \in from + 1 .. to : r > q}

LEMMA PendingIs ==
  /\ Pending = Newer(Recovered(flash), since, saves)
  /\ Pending' = Newer(Recovered(flash'), since', saves')
  BY DEF Pending, Newer

LEMMA StoreSame ==
  ASSUME Recovered(flash') = Recovered(flash), since' = since, saves' = saves, ret' = ret
  PROVE  UNCHANGED Store!vars
  <1>1. Pending' = Pending BY PendingIs
  <1> QED BY <1>1 DEF Store!vars

\* The newest save takes effect, and nothing newer is pending.
LEMMA NewestStored ==
  ASSUME NEW q, NEW from \in Nat, NEW to \in Nat, q \in 0 .. to, from < to
  PROVE  /\ Newer(to, from, to) = {}
         /\ q # to => to \in Newer(q, from, to)
         /\ {p \in Newer(q, from, to) : p > to} = {}
  BY DEF Newer

LEMMA StoreBegin ==
  ASSUME StbAssumption, IInv, BeginSave, Recovered(flash') = Recovered(flash)
  PROVE  Store!Begin
  <1> DEFINE q == Recovered(flash)
  <1>1. saves \in 0 .. MaxSaves /\ since \in 0 .. saves /\ q \in 0 .. saves BY IInvFacts
  <1>2. MaxSaves \in Nat BY DEF StbAssumption
  <1>3. ret # "busy" BY DEF BeginSave, IInv, CallInv, Busy
  <1>4. saves' = saves + 1 /\ saves < MaxSaves /\ since' = since /\ ret' = "busy" BY DEF BeginSave
  <1>5. saves + 1 \in 1 .. MaxSaves /\ saves + 1 > q BY <1>1, <1>2, <1>4
  <1>6. \A p \in Newer(q, since, saves) : saves + 1 > p BY <1>1, <1>2 DEF Newer
  <1>7. Newer(q, since, saves + 1) = Newer(q, since, saves) \cup {saves + 1}
    BY <1>1, <1>2 DEF Newer
  <1>8. /\ Pending = Newer(q, since, saves)
        /\ Pending' = Newer(q, since, saves + 1)
    BY PendingIs, <1>4
  <1> HIDE DEF q
  <1>9. Recovered(flash') = Recovered(flash) /\ q = Recovered(flash) BY DEF q
  <1> QED BY <1>3, <1>4, <1>5, <1>6, <1>7, <1>8, <1>9 DEF Store!Begin

\* A restart forgets the saves that did not take effect.
LEMMA StoreScan ==
  ASSUME StbAssumption, IInv, Scan, Recovered(flash') = Recovered(flash)
  PROVE  Store!Next \/ UNCHANGED Store!vars
  <1>1. CASE since' = since
    BY <1>1, StoreSame DEF Scan
  <1>2. CASE since' = saves
    <2>1. saves' = saves /\ ret' = ret BY DEF Scan
    <2>2. saves \in Nat BY IInvFacts DEF StbAssumption
    <2>3. Pending' = {} BY <1>2, <2>1, <2>2, PendingIs DEF Newer
    <2> QED BY <2>1, <2>3 DEF Store!Next, Store!Restart
  <1> QED BY <1>1, <1>2 DEF Scan

\* A write commits the record of the save, or none; the last one of a save answers it.
LEMMA StorePut ==
  ASSUME StbAssumption, IInv, IInv', Put,
         Recovered(flash') \in {Recovered(flash), saves}
  PROVE  Store!Next \/ UNCHANGED Store!vars
  <1> DEFINE q == Recovered(flash)
             q2 == Recovered(flash')
  <1>1. saves \in 0 .. MaxSaves /\ since \in 0 .. saves /\ q \in 0 .. saves BY IInvFacts
  <1>2. pc = "write" /\ saves' = saves /\ since' = since BY DEF Put
  <1>3. ret = "busy" /\ since < saves BY <1>2 DEF IInv, CallInv, Busy
  <1>4. since \in Nat /\ saves \in Nat BY <1>1 DEF StbAssumption
  <1>5. /\ Newer(saves, since, saves) = {}
        /\ q # saves => saves \in Newer(q, since, saves)
        /\ {p \in Newer(q, since, saves) : p > saves} = {}
    BY <1>1, <1>3, <1>4, NewestStored
  <1>6. Pending = Newer(q, since, saves) /\ Pending' = Newer(q2, since, saves)
    BY <1>2, PendingIs
  <1>7. q2 = saves => Pending' = {} BY <1>5, <1>6
  <1>8. q2 = saves /\ q # saves => Store!TakesEffect
    BY <1>5, <1>6, <1>7 DEF Store!TakesEffect
  <1>9. CASE ret' = ret
    <2>1. CASE q2 = q BY <1>2, <1>9, <2>1, StoreSame
    <2>2. CASE q2 # q
      <3>1. q2 = saves /\ q # saves BY <2>2
      <3> QED BY <1>8, <1>9, <3>1 DEF Store!Next, Store!Commit
    <2> QED BY <2>1, <2>2
  <1>10. CASE ret' # ret
    <2>1. ret' = "ok" /\ pc' = "idle" BY <1>10, <1>3 DEF Put, Writes
    <2>2. q2 = saves BY <1>2, <2>1 DEF IInv
    <2>3. CASE q = saves
      <3>1. Pending = {} BY <1>5, <1>6, <2>3
      <3>2. UNCHANGED <<Recovered(flash), Pending>> BY <1>7, <2>2, <2>3, <3>1
      <3> QED BY <1>3, <1>7, <2>1, <2>2, <3>2 DEF Store!Next, Store!Succeed
    <2>4. CASE q # saves
      BY <1>3, <1>7, <1>8, <2>1, <2>2, <2>4 DEF Store!Next, Store!Succeed
    <2> QED BY <2>3, <2>4
  <1> QED BY <1>9, <1>10

LEMMA StoreStep ==
  ASSUME StbAssumption, IInv, NotFull', [Next]_vars
  PROVE  Store!Next \/ UNCHANGED Store!vars
  <1>1. TypeInv' BY TypeStep DEF IInv
  <1>2. CASE UNCHANGED vars
    <2>1. Recovered(flash') = Recovered(flash) BY <1>2 DEF vars
    <2> QED BY <1>2, <2>1, StoreSame DEF vars
  <1>3. CASE Scan
    <2>1. Recovered(flash') = Recovered(flash) BY <1>1, <1>3, ScanStep DEF Kept
    <2> QED BY <1>3, <2>1, StoreScan
  <1>4. CASE BeginSave
    <2>1. Recovered(flash') = Recovered(flash) BY <1>4 DEF BeginSave
    <2> QED BY <1>4, <2>1, StoreBegin DEF Store!Next
  <1>5. CASE BeginLoad
    <2>1. Recovered(flash') = Recovered(flash) BY <1>5 DEF BeginLoad
    <2> QED BY <1>5, <2>1, StoreSame DEF BeginLoad
  <1>6. CASE MakeRoom
    <2>1. Recovered(flash') = Recovered(flash) BY <1>1, <1>6, MakeRoomStep DEF Kept
    <2>2. since' = since /\ saves' = saves /\ ret' = ret BY <1>6 DEF MakeRoom
    <2> QED BY <2>1, <2>2, StoreSame
  <1>7. CASE Put
    <2>1. IInv' /\ Recovered(flash') \in {Recovered(flash), saves} BY <1>1, <1>7, PutStep
    <2> QED BY <1>7, <2>1, StorePut
  <1>8. CASE EraseOld
    <2>1. Recovered(flash') = Recovered(flash) BY <1>1, <1>8, EraseOldStep DEF Kept
    <2>2. since' = since /\ saves' = saves /\ ret' = ret BY <1>8 DEF EraseOld
    <2> QED BY <2>1, <2>2, StoreSame
  <1>9. CASE Crash
    <2>1. Recovered(flash') = Recovered(flash) BY <1>1, <1>9, CrashStep DEF Kept
    <2>2. since' = since /\ saves' = saves /\ ret' = "none" BY <1>9 DEF Crash
    <2>3. Pending' = Pending BY <2>1, <2>2, PendingIs
    <2> QED BY <2>1, <2>2, <2>3 DEF Store!Next, Store!PowerOff
  <1> QED BY <1>2, <1>3, <1>4, <1>5, <1>6, <1>7, <1>8, <1>9 DEF Next

LEMMA StoreInit == StbAssumption /\ Init => Store!Init
  <1> SUFFICES ASSUME StbAssumption, Init PROVE Store!Init OBVIOUS
  <1>1. IInv BY IInvInit
  <1>2. saves = 0 /\ since = 0 /\ ret = "none" BY DEF Init, NoRecord
  <1>3. Recovered(flash) = 0 BY <1>1, <1>2, IInvFacts
  <1>4. Pending = {} BY <1>2, PendingIs DEF Newer
  <1> QED BY <1>2, <1>3, <1>4 DEF Store!Init, Store!NoRecord

\* Unless a record ends with the first sector's last word, the two sectors are one
\* record that is replaced as a whole, whenever power fails: a restart finds the last
\* record saved or one whose save had begun and not succeeded, never one that was
\* replaced, and a save that succeeds has stored its record.
THEOREM StoreRefined == Spec /\ []NotFull => SavedSurvives
  <1>1. Init => Store!Init BY StbAssumption, StoreInit
  <1>2. IInv /\ NotFull' /\ [Next]_vars => [Store!Next]_(Store!vars)
    BY StbAssumption, StoreStep
  <1> QED BY <1>1, <1>2, IInvAlways, PTL DEF Spec, SavedSurvives, Store!Spec
=============================================================================
