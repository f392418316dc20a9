---------------------------- MODULE SieRingProofs ----------------------------
(***************************************************************************)
(* Proofs about SieRing for any buffer, any section lengths and any number *)
(* of sections: types, room, and that the ring is a queue.                 *)
(*                                                                         *)
(* The invariant RInv says where the unread sections are: Chain gives the  *)
(* offset of each, the first where read is, each behind the one before or  *)
(* at the start of the buffer, whole, and outside the space the driver     *)
(* writes next; the cursors are taken as the reader will leave them        *)
(* (Settled).  Task ties this to what dispatch_section has in hand, and    *)
(* Passed says why it may read the header of an entry again after the      *)
(* parser accepted it, when the driver is already free to write there:     *)
(* that needs Settles.                                                     *)
(***************************************************************************)
EXTENDS MCSieRing, SequenceTheorems, WellFoundedInduction, TLAPS

(* Entries. *)

\* The space of an entry: whole words, its header at least and a byte.
LEMMA EntryRange ==
  ASSUME RingAssumption, NEW len \in SectionLens
  PROVE  /\ Entry(len) \in Nat /\ Entry(len) % 4 = 0
         /\ HdrLen + len <= Entry(len) /\ 8 <= Entry(len) /\ Entry(len) <= HdrLen + MaxSec
  BY DEF RingAssumption, Entry, HdrLen

\* An entry that may start at an offset ends before the driver's working buffer.
LEMMA EntryInside ==
  ASSUME RingAssumption, NEW x \in Nat, x % 4 = 0, ~ Beyond(x), NEW len \in SectionLens
  PROVE  /\ x + Entry(len) \in Nat /\ (x + Entry(len)) % 4 = 0 /\ x + Entry(len) + MaxSec <= BufLen
         /\ x \div 4 \in Words /\ BodyWords(x, len) \subseteq Words
         /\ \A w \in BodyWords(x, len) : w \in Int /\ w > x \div 4 /\ w < (x + Entry(len)) \div 4
         /\ \A w \in Int : w >= x \div 4 /\ w < (x + Entry(len)) \div 4 =>
                           w = x \div 4 \/ w \in BodyWords(x, len)
  <1> DEFINE e == Entry(len)
  <1>1. e \in Nat /\ e % 4 = 0 /\ 8 <= e /\ e <= HdrLen + MaxSec BY EntryRange
  <1>2. BufLen \in Nat /\ MaxSec \in Nat /\ BufLen % 4 = 0 BY DEF RingAssumption
  <1>3. BodyWords(x, len) = (x \div 4) + 1 .. (x + e) \div 4 - 1 BY DEF BodyWords
  <1> HIDE DEF e
  <1>4. x + e + MaxSec <= BufLen BY <1>1, <1>2 DEF Beyond, HdrLen
  <1>5. x + e \in Nat /\ (x + e) % 4 = 0 /\ (x + e) \div 4 <= BufLen \div 4
    BY <1>1, <1>2, <1>4
  <1>6. x \div 4 \in Nat /\ x \div 4 < (x + e) \div 4 /\ (x + e) \div 4 \in Nat /\ BufLen \div 4 \in Nat
    BY <1>1, <1>2, <1>5
  <1> QED BY <1>3, <1>4, <1>5, <1>6 DEF Words, e

\* The memory by word.
Memory == [Words -> [sec : 0 .. MaxSent, len : {0} \cup SectionLens, full : BOOLEAN]]

\* Section n is whole at offset x.
Holds(m, x, n) ==
  /\ x \in Nat /\ x % 4 = 0 /\ ~ Beyond(x)
  /\ m[x \div 4].sec = n /\ m[x \div 4].len \in SectionLens
  /\ \A w \in BodyWords(x, m[x \div 4].len) : m[w].sec = n

End(m, x) == x + Entry(m[x \div 4].len)

\* Where an entry behind offset x is found when the write pointer is at w.
Wrap(x, w) == IF x # w /\ Beyond(x) THEN 0 ELSE x

\* From x to e is outside the free space from w on to r, or to the end and before r.
Apart(x, e, r, w) == IF w >= r THEN r <= x /\ e <= w ELSE x >= r \/ e <= w

\* The sections behind a up to b are at the offsets o, from r on to w.
Chain(m, o, a, b, r, w) ==
  /\ o \in [a + 1 .. b + 1 -> Nat] /\ o[a + 1] = r /\ o[b + 1] = w
  /\ \A n \in a + 1 .. b :
       /\ o[n] # w /\ Holds(m, o[n], n) /\ Apart(o[n], End(m, o[n]), r, w)
       /\ o[n + 1] = Wrap(End(m, o[n]), w)

\* The headers of sections, and the memory with the section of header h at x.
Headers == [sec : 0 .. MaxSent, len : SectionLens, full : BOOLEAN]

With(m, x, h) ==
  [w \in Words |->
     IF w = x \div 4 THEN h
     ELSE IF w \in BodyWords(x, h.len) THEN [sec |-> h.sec, len |-> 0, full |-> FALSE]
     ELSE m[w]]

\* The memory becomes d when a section is stored at x, where it fits.
StoredAt(m, x, h, d) ==
  /\ m \in Memory /\ x \in Nat /\ x % 4 = 0 /\ ~ Beyond(x) /\ h \in Headers
  /\ d = With(m, x, h)

\* The driver stores a section: it is whole, and an entry elsewhere stays whole.
LEMMA StoredWhole ==
  ASSUME RingAssumption, NEW m, NEW x, NEW h, NEW d, StoredAt(m, x, h, d)
  PROVE  /\ d \in Memory /\ Holds(d, x, h.sec) /\ End(d, x) = x + Entry(h.len)
         /\ d[x \div 4] = h
         /\ \A y \in Nat, k \in Nat :
              Holds(m, y, k) /\ (End(m, y) <= x \/ x + Entry(h.len) <= y) =>
              Holds(d, y, k) /\ End(d, y) = End(m, y) /\ d[y \div 4] = m[y \div 4]
         /\ \A y \in Nat : y % 4 = 0 /\ (y + 8 <= x \/ x + Entry(h.len) <= y) /\ y \div 4 \in Words =>
              d[y \div 4] = m[y \div 4]
  <1> DEFINE len == h.len
             n == h.sec
  <1>a. /\ m \in Memory /\ x \in Nat /\ x % 4 = 0 /\ ~ Beyond(x) /\ h \in Headers
        /\ d = With(m, x, h)
        /\ len \in SectionLens /\ n \in 0 .. MaxSent
    BY DEF StoredAt, Headers
  <1>b. h.len = len /\ h.sec = n OBVIOUS
  <1>g. x \in Nat /\ x % 4 = 0 BY <1>a
  <1> HIDE DEF len, n
  <1>1. /\ x + Entry(len) \in Nat /\ (x + Entry(len)) % 4 = 0
        /\ x \div 4 \in Words /\ BodyWords(x, len) \subseteq Words
        /\ \A w \in BodyWords(x, len) : w \in Int /\ w > x \div 4 /\ w < (x + Entry(len)) \div 4
    BY <1>a, EntryInside
  <1>3. /\ d[x \div 4] = h
        /\ \A w \in BodyWords(x, len) : d[w] = [sec |-> n, len |-> 0, full |-> FALSE]
        /\ \A w \in Words : w # x \div 4 /\ w \notin BodyWords(x, len) => d[w] = m[w]
    BY <1>1, <1>a, <1>b DEF With
  <1>4. d \in Memory
    <2>1. h \in [sec : 0 .. MaxSent, len : {0} \cup SectionLens, full : BOOLEAN] BY <1>a DEF Headers
    <2>2. [sec |-> n, len |-> 0, full |-> FALSE] \in [sec : 0 .. MaxSent, len : {0} \cup SectionLens, full : BOOLEAN]
      BY <1>a
    <2> QED BY <1>a, <1>b, <2>1, <2>2 DEF With, Memory
  <1>5. Holds(d, x, n) /\ End(d, x) = x + Entry(len)
    BY <1>3, <1>a, <1>b DEF Holds, End
  <1>6. ASSUME NEW y \in Nat, y % 4 = 0, y + 8 <= x \/ x + Entry(len) <= y, y \div 4 \in Words
        PROVE  d[y \div 4] = m[y \div 4]
    <2>1. CASE y + 8 <= x
      <3>1. y \div 4 < x \div 4 /\ y \div 4 \in Int BY <1>g, <1>6, <2>1
      <3>2. y \div 4 # x \div 4 /\ y \div 4 \notin BodyWords(x, len) BY <1>g, <1>1, <3>1
      <3> QED BY <1>3, <1>6, <3>2
    <2>2. CASE x + Entry(len) <= y
      <3>1. (x + Entry(len)) \div 4 <= y \div 4 /\ y \div 4 \in Int BY <1>1, <1>6, <2>2
      <3>2. (x + Entry(len)) \div 4 > x \div 4 BY <1>1, <1>a, EntryRange
      <3>3. y \div 4 # x \div 4 /\ y \div 4 \notin BodyWords(x, len) BY <1>1, <3>1, <3>2
      <3> QED BY <1>3, <1>6, <3>3
    <2> QED BY <1>6, <2>1, <2>2
  <1>7. ASSUME NEW y \in Nat, NEW k \in Nat, Holds(m, y, k), End(m, y) <= x \/ x + Entry(len) <= y
        PROVE  Holds(d, y, k) /\ End(d, y) = End(m, y) /\ d[y \div 4] = m[y \div 4]
    <2> DEFINE l == m[y \div 4].len
    <2>1. y % 4 = 0 /\ ~ Beyond(y) /\ l \in SectionLens /\ End(m, y) = y + Entry(l) /\ Entry(l) >= 8
      BY <1>7, EntryRange DEF Holds, End
    <2>2. /\ y + Entry(l) \in Nat /\ (y + Entry(l)) % 4 = 0 /\ y \div 4 \in Words
          /\ BodyWords(y, l) \subseteq Words
          /\ \A w \in BodyWords(y, l) : w \in Int /\ w > y \div 4 /\ w < (y + Entry(l)) \div 4
      <3> HIDE DEF l
      <3> QED BY <2>1, EntryInside
    <2> HIDE DEF l
    <2>3. d[y \div 4] = m[y \div 4]
      <3>1. y + 8 <= x \/ x + Entry(len) <= y BY <1>7, <2>1, <1>a, EntryRange
      <3> QED BY <1>6, <2>1, <2>2, <3>1
    <2>4. \A w \in BodyWords(y, l) : d[w] = m[w]
      <3> SUFFICES ASSUME NEW w \in BodyWords(y, l) PROVE w # x \div 4 /\ w \notin BodyWords(x, len)
        BY <1>3, <2>2
      <3>1. w \in Int /\ w > y \div 4 /\ w < (y + Entry(l)) \div 4 BY <2>2
      <3>2. CASE y + Entry(l) <= x
        <4>1. (y + Entry(l)) \div 4 <= x \div 4 /\ x \div 4 \in Int /\ (y + Entry(l)) \div 4 \in Int
          BY <1>g, <2>2, <3>2
        <4>2. w < x \div 4 BY <3>1, <4>1
        <4> QED BY <1>1, <3>1, <4>1, <4>2
      <3>3. CASE x + Entry(len) <= y
        <4>1. (x + Entry(len)) \div 4 <= y \div 4 /\ (x + Entry(len)) \div 4 \in Int /\ y \div 4 \in Int
          BY <1>1, <3>3
        <4>2. (x + Entry(len)) \div 4 > x \div 4 BY <1>1, <1>a, EntryRange
        <4> QED BY <1>1, <3>1, <4>1, <4>2
      <3> QED BY <1>7, <2>1, <3>2, <3>3
    <2> QED BY <1>7, <2>1, <2>3, <2>4 DEF Holds, End, l
  <1> QED BY <1>3, <1>4, <1>5, <1>6, <1>7, <1>b

(* The unread sections. *)

\* An entry of the chain and what is known of it.
LEMMA ChainEntry ==
  ASSUME RingAssumption, NEW m \in Memory, NEW o, NEW a \in Nat, NEW b \in Nat, NEW r, NEW w,
         Chain(m, o, a, b, r, w), NEW n \in a + 1 .. b
  PROVE  /\ o[n] \in Nat /\ o[n] # w /\ Holds(m, o[n], n) /\ Apart(o[n], End(m, o[n]), r, w)
         /\ o[n + 1] = Wrap(End(m, o[n]), w)
         /\ End(m, o[n]) \in Nat /\ o[n] + 8 <= End(m, o[n]) /\ o[n] \div 4 \in Words
         /\ End(m, o[n]) % 4 = 0 /\ End(m, o[n]) <= BufLen
  <1>1. /\ o[n] # w /\ Holds(m, o[n], n) /\ Apart(o[n], End(m, o[n]), r, w)
        /\ o[n + 1] = Wrap(End(m, o[n]), w)
    BY DEF Chain
  <1> DEFINE x == o[n]
             l == m[x \div 4].len
  <1>2. x \in Nat /\ x % 4 = 0 /\ ~ Beyond(x) /\ l \in SectionLens /\ End(m, x) = x + Entry(l)
    BY <1>1 DEF Holds, End
  <1> HIDE DEF x, l
  <1>3. x + Entry(l) \in Nat /\ (x + Entry(l)) % 4 = 0 /\ x + Entry(l) <= BufLen /\ x \div 4 \in Words
    BY <1>2, EntryInside DEF RingAssumption
  <1>4. 8 <= Entry(l) /\ Entry(l) \in Nat BY <1>2, EntryRange
  <1> QED BY <1>1, <1>2, <1>3, <1>4 DEF x

\* No other entry begins inside one.
LEMMA EntriesApart ==
  ASSUME RingAssumption, NEW m \in Memory, NEW x \in Nat, NEW j, Holds(m, x, j),
         NEW y \in Nat, NEW k, Holds(m, y, k), j # k, x <= y
  PROVE  End(m, x) <= y
  <1> DEFINE l == m[x \div 4].len
  <1>1. x % 4 = 0 /\ ~ Beyond(x) /\ l \in SectionLens /\ End(m, x) = x + Entry(l)
        /\ y % 4 = 0 /\ m[y \div 4].sec = k
        /\ m[x \div 4].sec = j /\ \A w \in BodyWords(x, l) : m[w].sec = j
    BY DEF Holds, End
  <1> HIDE DEF l
  <1>2. /\ x + Entry(l) \in Nat /\ (x + Entry(l)) % 4 = 0
        /\ \A w \in Int : w >= x \div 4 /\ w < (x + Entry(l)) \div 4 => w = x \div 4 \/ w \in BodyWords(x, l)
    BY <1>1, EntryInside
  <1> SUFFICES ASSUME y < x + Entry(l) PROVE FALSE BY <1>1, <1>2
  <1>3. y \div 4 \in Int /\ y \div 4 >= x \div 4 /\ y \div 4 < (x + Entry(l)) \div 4
    BY <1>1, <1>2
  <1> QED BY <1>1, <1>2, <1>3

\* Section b + 1, of header h, goes to w, which has room for it, and the write pointer to v.
PutAfter(a, b, r, w, h, v) ==
  /\ a \in Nat /\ b \in Nat /\ a <= b /\ r \in Nat /\ w \in Nat /\ v \in Nat
  /\ w >= r \/ w + HdrLen + MaxSec < r
  /\ h \in Headers /\ h.sec = b + 1
  /\ v = w + Entry(h.len) \/ (v = 0 /\ Beyond(w + Entry(h.len)) /\ w >= r /\ r > 0)

\* The driver appends a section at w and moves the write pointer on to v.
LEMMA ChainPut ==
  ASSUME RingAssumption, NEW m, NEW o, NEW a, NEW b, NEW r, NEW w, NEW h, NEW v, NEW d,
         Chain(m, o, a, b, r, w), StoredAt(m, w, h, d), PutAfter(a, b, r, w, h, v)
  PROVE  \E p : /\ Chain(d, p, a, b + 1, r, v) /\ p[b + 1] = w /\ d[w \div 4] = h
                /\ \A n \in a + 1 .. b : p[n] = o[n] /\ d[o[n] \div 4] = m[o[n] \div 4]
  <1> DEFINE p == [n \in a + 1 .. (b + 1) + 1 |-> IF n = b + 2 THEN v ELSE o[n]]
             len == h.len
  <1>a. /\ len \in SectionLens /\ h.len = len /\ h.sec = b + 1
        /\ a \in Nat /\ b \in Nat /\ a <= b /\ r \in Nat /\ w \in Nat /\ v \in Nat
        /\ w >= r \/ w + HdrLen + MaxSec < r
        /\ m \in Memory /\ ~ Beyond(w)
    BY DEF Headers, PutAfter, StoredAt
  <1> HIDE DEF len
  <1>b. v = w + Entry(len) \/ (v = 0 /\ Beyond(w + Entry(len)) /\ w >= r /\ r > 0)
    BY <1>a DEF PutAfter
  <1>0. Entry(len) \in Nat /\ 8 <= Entry(len) /\ Entry(len) <= HdrLen + MaxSec /\ MaxSec \in Nat /\ HdrLen = 4
    BY <1>a, EntryRange DEF RingAssumption, HdrLen
  <1>1. o \in [a + 1 .. b + 1 -> Nat] /\ o[a + 1] = r /\ o[b + 1] = w BY <1>a DEF Chain
  <1>2. /\ \A n \in a + 1 .. b + 1 : p[n] = o[n]
        /\ p[b + 2] = v /\ p \in [a + 1 .. (b + 1) + 1 -> Nat]
    BY <1>1, <1>a
  <1>3. /\ Holds(d, w, b + 1) /\ End(d, w) = w + Entry(len) /\ d[w \div 4] = h
        /\ \A y \in Nat, k \in Nat :
             Holds(m, y, k) /\ (End(m, y) <= w \/ w + Entry(len) <= y) =>
             Holds(d, y, k) /\ End(d, y) = End(m, y) /\ d[y \div 4] = m[y \div 4]
    BY <1>a, StoredWhole
  <1> HIDE DEF p
  <1>4. ASSUME NEW n \in a + 1 .. b
        PROVE  /\ o[n] # v /\ Holds(d, o[n], n) /\ Apart(o[n], End(d, o[n]), r, v)
               /\ o[n + 1] = Wrap(End(d, o[n]), v) /\ d[o[n] \div 4] = m[o[n] \div 4]
    <2>1. /\ o[n] \in Nat /\ o[n] # w /\ Holds(m, o[n], n) /\ Apart(o[n], End(m, o[n]), r, w)
          /\ o[n + 1] = Wrap(End(m, o[n]), w)
          /\ End(m, o[n]) \in Nat /\ o[n] + 8 <= End(m, o[n])
      BY <1>a, ChainEntry
    <2>2. End(m, o[n]) <= w \/ w + Entry(len) <= o[n]
      BY <1>a, <1>0, <2>1 DEF Apart
    <2>3. /\ Holds(d, o[n], n) /\ End(d, o[n]) = End(m, o[n])
          /\ d[o[n] \div 4] = m[o[n] \div 4]
      <3>1. n \in Nat BY <1>a
      <3> QED BY <1>3, <2>1, <2>2, <3>1
    <2>4. (o[n] # v /\ End(m, o[n]) # v) \/ (v = 0 /\ r <= o[n])
      BY <1>a, <1>0, <1>b, <2>1, <2>2 DEF Apart
    <2>5. o[n] # v /\ End(m, o[n]) # v BY <1>a, <1>0, <1>b, <2>1, <2>4
    <2>6. Apart(o[n], End(m, o[n]), r, v) BY <1>a, <1>0, <1>b, <2>1 DEF Apart
    <2>7. Wrap(End(m, o[n]), v) = Wrap(End(m, o[n]), w) BY <1>a, <2>5 DEF Wrap
    <2> QED BY <2>1, <2>3, <2>5, <2>6, <2>7
  <1>5. /\ w # v /\ Apart(w, End(d, w), r, v) /\ v = Wrap(End(d, w), v)
    BY <1>a, <1>0, <1>b, <1>3 DEF Apart, Wrap
  <1>6. ASSUME NEW n \in a + 1 .. b + 1
        PROVE  /\ p[n] # v /\ Holds(d, p[n], n) /\ Apart(p[n], End(d, p[n]), r, v)
               /\ p[n + 1] = Wrap(End(d, p[n]), v)
    <2>1. CASE n = b + 1
      <3>1. p[n] = w /\ p[n + 1] = v BY <1>a, <1>1, <1>2, <2>1
      <3> QED BY <1>3, <1>5, <2>1, <3>1
    <2>2. CASE n # b + 1
      <3>1. n \in a + 1 .. b /\ p[n] = o[n] /\ p[n + 1] = o[n + 1] BY <1>a, <1>2, <2>2
      <3> QED BY <1>4, <3>1
    <2> QED BY <2>1, <2>2
  <1>7. Chain(d, p, a, b + 1, r, v) BY <1>a, <1>1, <1>2, <1>6 DEF Chain
  <1>8. p[b + 1] = w /\ d[w \div 4] = h
    <2>1. b + 1 \in a + 1 .. b + 1 BY <1>a
    <2> QED BY <1>1, <1>2, <1>3, <2>1
  <1>9. \A n \in a + 1 .. b : p[n] = o[n] /\ d[o[n] \div 4] = m[o[n] \div 4] BY <1>a, <1>2, <1>4
  <1> QED BY <1>7, <1>8, <1>9

\* The offsets without the first.
Rest(o, a, b) == [n \in a + 2 .. b + 1 |-> o[n]]

\* The reader accepts the first section.
LEMMA ChainNext ==
  ASSUME RingAssumption, NEW m \in Memory, NEW o, NEW a \in Nat, NEW b \in Nat, a < b,
         NEW r \in Nat, NEW w \in Nat, Chain(m, o, a, b, r, w)
  PROVE  /\ Chain(m, Rest(o, a, b), a + 1, b, Wrap(End(m, r), w), w)
         /\ \A n \in a + 2 .. b + 1 : Rest(o, a, b)[n] = o[n]
         /\ Holds(m, r, a + 1) /\ End(m, r) \in Nat /\ r + 8 <= End(m, r)
         /\ w >= r => End(m, r) <= w
  <1> DEFINE p == Rest(o, a, b)
             e == End(m, r)
  <1>1. o \in [a + 1 .. b + 1 -> Nat] /\ o[a + 1] = r /\ o[b + 1] = w BY DEF Chain
  <1>2. a + 1 \in a + 1 .. b /\ (a + 1) + 1 = a + 2 OBVIOUS
  <1>3. /\ Holds(m, r, a + 1) /\ Apart(r, e, r, w) /\ o[a + 2] = Wrap(e, w)
        /\ e \in Nat /\ r + 8 <= e /\ r # w
    <2>1. \A n \in a + 1 .. b :
            /\ o[n] # w /\ Holds(m, o[n], n) /\ Apart(o[n], End(m, o[n]), r, w)
            /\ o[n + 1] = Wrap(End(m, o[n]), w)
            /\ End(m, o[n]) \in Nat /\ o[n] + 8 <= End(m, o[n])
      BY ChainEntry
    <2> QED BY <1>1, <1>2, <2>1
  <1> HIDE DEF e
  <1>4. ASSUME NEW n \in a + 2 .. b
        PROVE  /\ o[n] # w /\ Holds(m, o[n], n) /\ Apart(o[n], End(m, o[n]), Wrap(e, w), w)
               /\ o[n + 1] = Wrap(End(m, o[n]), w)
    <2>1. n \in a + 1 .. b OBVIOUS
    <2>2. /\ o[n] \in Nat /\ o[n] # w /\ Holds(m, o[n], n) /\ Apart(o[n], End(m, o[n]), r, w)
          /\ o[n + 1] = Wrap(End(m, o[n]), w) /\ End(m, o[n]) \in Nat /\ o[n] + 8 <= End(m, o[n])
      BY <2>1, ChainEntry
    <2>3. o[n] >= r => o[n] >= e
      BY <1>3, <2>2, EntriesApart DEF e
    <2>4. ~ Beyond(o[n]) BY <2>2 DEF Holds
    <2>5. Beyond(e) => o[n] < e BY <1>3, <2>2, <2>4 DEF Beyond, RingAssumption, HdrLen
    <2>6. Apart(o[n], End(m, o[n]), Wrap(e, w), w)
      BY <1>3, <2>2, <2>3, <2>5 DEF Apart, Wrap
    <2> QED BY <2>2, <2>6
  <1>5. p \in [(a + 1) + 1 .. b + 1 -> Nat] /\ \A n \in a + 2 .. b + 1 : p[n] = o[n] BY <1>1 DEF Rest
  <1> HIDE DEF p
  <1>6. p[(a + 1) + 1] = Wrap(e, w) /\ p[b + 1] = w BY <1>1, <1>3, <1>5
  <1>7. \A n \in (a + 1) + 1 .. b : p[n] = o[n] /\ p[n + 1] = o[n + 1] /\ n \in a + 2 .. b BY <1>5
  <1>8. Chain(m, p, a + 1, b, Wrap(e, w), w) BY <1>4, <1>5, <1>6, <1>7 DEF Chain
  <1>9. w >= r => e <= w BY <1>3 DEF Apart
  <1> QED BY <1>3, <1>5, <1>8, <1>9 DEF e, p

\* No section is unread.
LEMMA ChainEmpty ==
  ASSUME NEW m, NEW a \in Nat, NEW w \in Nat
  PROVE  \E o : Chain(m, o, a, a, w, w)
  <1> DEFINE o == [n \in a + 1 .. a + 1 |-> w]
  <1>1. o \in [a + 1 .. a + 1 -> Nat] /\ o[a + 1] = w OBVIOUS
  <1> HIDE DEF o
  <1>2. Chain(m, o, a, a, w, w) BY <1>1 DEF Chain
  <1> QED BY <1>2

\* The cursors meet just when no section is unread.
LEMMA ChainEnds ==
  ASSUME NEW m, NEW o, NEW a \in Nat, NEW b \in Nat, a <= b, NEW r, NEW w, Chain(m, o, a, b, r, w)
  PROVE  r = w <=> a = b
  BY DEF Chain

(* The inductive invariant. *)

\* The parser's answer to a time-out gives the request back, and the driver stores at most
\* one section while the reader settles its cursors.
Settles == OnTimeout \subseteq {"freed"} /\ Burst <= 1

\* The unread sections are where the cursors say; only the last may have stopped the
\* driver, and has if the write pointer is beyond the end.
Queued(o) ==
  /\ Chain(mem, o, got, sent, Settled(read), SettledWrite)
  /\ \A n \in got + 1 .. sent :
       /\ At(o[n]).full => n = sent /\ hw # "getting"
       /\ n = sent /\ Beyond(write) => At(o[n]).full

\* The entry in hand has been accepted; its header is read again until the callback's
\* results are settled, and is not overwritten before.
Passed ==
  /\ buffer \in Nat /\ buffer % 4 = 0 /\ ~ Beyond(buffer)
  /\ At(buffer).full => got = sent /\ hw # "getting"
  /\ hw = "getting" /\ burst = 0 =>
       write + HdrLen + MaxSec < buffer \/ (write >= buffer + 8 /\ rpc # "rewind")
  /\ rpc \in {"rewind", "rewindw"} /\ got = sent /\ Beyond(write) => At(buffer).full

\* What the SIE task has in hand.
Task ==
  /\ Beyond(read) <=> rpc = "rewind"
  /\ rpc = "rewindw" => read = 0
  /\ rpc = "take" => got < sent /\ cnt > 0
  /\ (rpc = "parse" /\ status = "RUNNING" /\ buffer # None) \/ rpc = "advance" =>
       got < sent /\ cnt > 0 /\ buffer = read /\ tmp = got + 1
  /\ rpc \in {"advance", "rewind", "rewindw", "loop"} => ret = "started" /\ buffer # None
  /\ rpc \in {"left", "tail"} /\ buffer = None => ret = "freed"
  /\ rpc \in {"rewind", "rewindw", "loop"} \/ (rpc \in {"left", "tail"} /\ ret = "started") => Passed

RInv ==
  /\ TypeOK /\ got <= sent /\ burst \in 0 .. 1
  /\ \E o : Queued(o)
  /\ RoomWhileGetting
  /\ Task

\* What the assumption on the constants says of sizes.
LEMMA RingNumbers ==
  ASSUME RingAssumption
  PROVE  BufLen \in Nat /\ MaxSec \in Nat /\ HdrLen = 4 /\ MaxSent \in Nat /\ ~ Beyond(0) /\ MaxSec > 0
  BY DEF RingAssumption, HdrLen, Beyond

\* A step that leaves the ring alone.
LEMMA CalmStep ==
  ASSUME RingAssumption, RInv, TypeOK', Task', burst' \in 0 .. 1,
         UNCHANGED <<mem, read, write, got, sent>>, rpc # "rewindw", rpc' # "rewindw",
         hw' = "getting" => hw = "getting" \/ (got = sent /\ read = write /\ ~ Beyond(write))
  PROVE  RInv'
  <1>1. Settled(read)' = Settled(read) /\ SettledWrite' = SettledWrite
    BY DEF Settled, SettledWrite
  <1>2. PICK o : Queued(o) BY DEF RInv
  <1>4. Queued(o)'
    <2>1. Chain(mem, o, got, sent, Settled(read), SettledWrite)' BY <1>1, <1>2 DEF Queued
    <2>2. ASSUME NEW n \in got + 1 .. sent
          PROVE  /\ At(o[n])'.full => n = sent' /\ hw' # "getting"
                 /\ n = sent' /\ Beyond(write)' => At(o[n])'.full
      <3>1. At(o[n])' = At(o[n]) BY DEF At
      <3>2. Beyond(write)' = Beyond(write) BY DEF Beyond
      <3>3. /\ At(o[n]).full => n = sent /\ hw # "getting"
            /\ n = sent /\ Beyond(write) => At(o[n]).full
        BY <1>2 DEF Queued
      <3>4. got # sent BY DEF RInv, TypeOK
      <3> QED BY <3>1, <3>2, <3>3, <3>4
    <2>3. got' + 1 .. sent' = got + 1 .. sent OBVIOUS
    <2> QED BY <2>1, <2>2, <2>3 DEF Queued
  <1>5. RoomWhileGetting'
    BY RingNumbers DEF RInv, RoomWhileGetting, Room, Beyond, TypeOK
  <1>6. got' <= sent' BY DEF RInv
  <1> QED BY <1>4, <1>5, <1>6 DEF RInv

\* The same of the accepted entry.
LEMMA PassedKept ==
  ASSUME UNCHANGED <<mem, write, got, sent, buffer>>, Passed,
         hw' = "getting" => hw = "getting" /\ burst' = burst,
         rpc' \notin {"rewind", "rewindw"}
  PROVE  Passed'
  BY DEF Passed, At, Beyond

\* Where no rewind is under way the cursors are where the chain begins and ends.
LEMMA AtRest ==
  ASSUME RingAssumption, RInv, rpc \notin {"rewind", "rewindw"}
  PROVE  /\ Settled(read) = read /\ SettledWrite = write /\ ~ Beyond(read)
         /\ read # write <=> got < sent
         /\ got < sent => /\ Holds(mem, read, got + 1)
                          /\ End(mem, read) \in Nat /\ read + 8 <= End(mem, read)
                          /\ write >= read => End(mem, read) <= write
  <1>1. PICK o : Queued(o) BY DEF RInv
  <1>2. ~ Beyond(read) /\ SettledWrite = write BY DEF RInv, Task, SettledWrite
  <1>3. Settled(read) = read BY <1>2 DEF Settled
  <1>4. got \in Nat /\ sent \in Nat /\ got <= sent /\ read \in Nat /\ write \in Nat /\ mem \in Memory
    BY DEF RInv, TypeOK, Memory
  <1>5. Chain(mem, o, got, sent, read, write) BY <1>1, <1>2, <1>3 DEF Queued
  <1>6. read # write <=> got < sent BY <1>4, <1>5, ChainEnds
  <1> QED BY <1>2, <1>3, <1>4, <1>5, <1>6, ChainNext

\* The steps of the SIE task between requests change no cursor.
LEMMA PollStep ==
  ASSUME RingAssumption, RInv, Poll \/ Clear \/ InspectNothing \/ InspectTimeout \/ InspectHit
  PROVE  RInv'
  <1>1. TypeOK'
    <2>1. TypeOK BY DEF RInv
    <2>2. CASE Poll BY <2>1, <2>2 DEF TypeOK, Poll
    <2>3. CASE Clear BY <2>1, <2>3 DEF TypeOK, Clear
    <2>4. CASE InspectNothing BY <2>1, <2>4 DEF TypeOK, InspectNothing
    <2>5. CASE InspectTimeout BY <2>1, <2>5 DEF TypeOK, InspectTimeout
    <2>6. CASE InspectHit BY <2>1, <2>6 DEF TypeOK, InspectHit
    <2> QED BY <2>2, <2>3, <2>4, <2>5, <2>6
  <1>2. /\ UNCHANGED <<mem, read, write, got, sent, burst, hw>>
        /\ rpc \in {"poll", "clear", "inspect"} /\ rpc' \in {"clear", "inspect", "poll", "parse", "take"}
    BY DEF Poll, Clear, InspectNothing, InspectTimeout, InspectHit
  <1>3. rpc' = "take" => read # write BY DEF Poll, Clear, InspectNothing, InspectTimeout, InspectHit
  <1>4. rpc' = "take" => got < sent BY <1>2, <1>3, AtRest
  <1>5. rpc' = "parse" => buffer' = None BY DEF Poll, Clear, InspectNothing, InspectTimeout, InspectHit
  <1>6. rpc' = "take" => cnt' > 0 BY DEF Poll, Clear, InspectNothing, InspectTimeout, InspectHit
  <1>7. Task'
    BY <1>2, <1>4, <1>5, <1>6 DEF RInv, Task, Beyond
  <1> QED BY <1>1, <1>2, <1>7, CalmStep DEF RInv

\* What is copied into tmp_buffer is the first unread section, whole.
LEMMA TakeStep ==
  ASSUME RingAssumption, RInv, Take
  PROVE  RInv'
  <1>1. TypeOK BY DEF RInv
  <1>2. rpc = "take" /\ rpc' = "parse" /\ buffer' = read /\ status' = "RUNNING"
        /\ UNCHANGED <<mem, read, write, got, sent, burst, hw, cnt>>
    BY DEF Take
  <1>3. got < sent /\ Holds(mem, read, got + 1) /\ ~ Beyond(read)
    BY <1>2, AtRest DEF RInv, Task
  <1>4. Intact(read) /\ At(read).sec = got + 1
    <2> DEFINE l == mem[read \div 4].len
    <2>1. l \in SectionLens /\ read \in Nat /\ read % 4 = 0
      BY <1>3 DEF Holds
    <2> HIDE DEF l
    <2>2. read \div 4 \in Words /\ BodyWords(read, l) \subseteq Words BY <1>3, <2>1, EntryInside
    <2>3. At(read) = mem[read \div 4] BY <2>2 DEF At
    <2>4. l > 0 BY <2>1 DEF RingAssumption
    <2> QED BY <1>3, <2>2, <2>3, <2>4 DEF Holds, Intact, l
  <1>5. tmp' = got + 1 BY <1>4 DEF Take
  <1>6. got + 1 \in 0 .. MaxSent BY <1>1, <1>3, RingNumbers DEF TypeOK
  <1>7. TypeOK' BY <1>1, <1>5, <1>6 DEF TypeOK, Take
  <1>8. Task' BY <1>2, <1>3, <1>5 DEF RInv, Task, Beyond
  <1> QED BY <1>2, <1>7, <1>8, CalmStep DEF RInv

\* The parser's answer says where dispatch_section goes on.
LEMMA ReturnStep ==
  ASSUME RingAssumption, Settles, RInv, Return
  PROVE  RInv'
  <1>1. TypeOK BY DEF RInv
  <1>2. CASE ParserReturnsAborted
    <2>1. TypeOK' BY <1>1, <1>2 DEF TypeOK, ParserReturnsAborted
    <2>2. rpc = "parse" /\ rpc' = "poll" /\ UNCHANGED <<mem, read, write, got, sent, burst, hw>>
      BY <1>2 DEF ParserReturnsAborted
    <2>3. Task' BY <2>2 DEF RInv, Task, Beyond
    <2> QED BY <2>1, <2>2, <2>3, CalmStep DEF RInv
  <1>3. ASSUME NEW r \in {"started", "freed"}, ParserReturns(r) PROVE RInv'
    <2>1. TypeOK' BY <1>1, <1>3 DEF TypeOK, ParserReturns
    <2>2. /\ rpc = "parse" /\ status = "RUNNING" /\ ret' = r /\ burst' = 0
          /\ UNCHANGED <<mem, read, write, got, sent, hw, buffer, tmp, cnt>>
          /\ rpc' = IF buffer = None THEN "tail" ELSE IF r = "started" THEN "advance" ELSE "left"
          /\ buffer = None => r = "freed"
      BY <1>3 DEF ParserReturns, Settles
    <2>3. Task' BY <2>2 DEF RInv, Task, Beyond
    <2> QED BY <2>1, <2>2, <2>3, CalmStep DEF RInv
  <1> QED BY <1>2, <1>3 DEF Return

\* dispatch_section takes another section only when there is one.
LEMMA LoopStep ==
  ASSUME RingAssumption, RInv, Loop
  PROVE  RInv'
  <1>1. TypeOK' BY DEF RInv, TypeOK, Loop
  <1>2. /\ rpc = "loop" /\ rpc' \in {"take", "left"}
        /\ rpc' = "take" => read # write /\ cnt' > 0
        /\ UNCHANGED <<mem, read, write, got, sent, burst, hw, buffer, ret>>
    BY DEF Loop
  <1>3. rpc' = "take" => got < sent BY <1>2, AtRest
  <1>4. Passed' BY <1>2, PassedKept DEF RInv, Task
  <1>5. Task' BY <1>2, <1>3, <1>4 DEF RInv, Task, Beyond
  <1> QED BY <1>1, <1>2, <1>5, CalmStep DEF RInv

\* The task wakes itself for sections left unread.
LEMMA LeftStep ==
  ASSUME RingAssumption, RInv, Left
  PROVE  RInv'
  <1>1. TypeOK' BY DEF RInv, TypeOK, Left
  <1>2. /\ rpc = "left" /\ rpc' = "tail"
        /\ UNCHANGED <<mem, read, write, got, sent, burst, hw, buffer, ret>>
    BY DEF Left
  <1>3. ret = "started" => Passed' BY <1>2, PassedKept DEF RInv, Task
  <1>4. Task' BY <1>2, <1>3 DEF RInv, Task, Beyond
  <1> QED BY <1>1, <1>2, <1>4, CalmStep DEF RInv

\* The filter is requested again only behind the entry that stopped it: then the ring is
\* empty.
LEMMA FinishStep ==
  ASSUME RingAssumption, RInv, Finish
  PROVE  RInv'
  <1>1. TypeOK BY DEF RInv
  <1>2. TypeOK' BY <1>1 DEF TypeOK, Finish
  <1>3. rpc = "tail" /\ rpc' = "poll" /\ UNCHANGED <<mem, read, write, got, sent, burst>>
    BY DEF Finish
  <1>4. Task' BY <1>3 DEF RInv, Task, Beyond
  <1>5. hw' = "getting" => hw = "getting" \/ (got = sent /\ read = write /\ ~ Beyond(write))
    <2> SUFFICES ASSUME hw' = "getting", hw # "getting" PROVE got = sent /\ read = write /\ ~ Beyond(write)
      OBVIOUS
    <2>1. ret = "started" /\ Restart BY DEF Finish
    <2>2. buffer # None /\ Passed BY <1>3, <2>1 DEF RInv, Task
    <2>3. got = sent BY <2>1, <2>2 DEF Restart, Passed
    <2>4. read = write /\ ~ Beyond(read) BY <1>1, <1>3, <2>3, AtRest DEF TypeOK
    <2> QED BY <2>3, <2>4
  <1> QED BY <1>2, <1>3, <1>4, <1>5, CalmStep DEF RInv

\* Another task aborts the request.
LEMMA AbortStep ==
  ASSUME RingAssumption, RInv, Abort
  PROVE  RInv'
  <1>1. TypeOK' BY DEF RInv, TypeOK, Abort, reader
  <1>2. /\ rpc \in {"poll", "clear", "inspect", "parse"} /\ status' = "FREE" /\ hw' = "closed"
        /\ UNCHANGED <<mem, read, write, got, sent, burst, rpc, buffer, tmp, ret, cnt>>
    BY DEF Abort, MutexFree, reader
  <1>3. Task' BY <1>2 DEF RInv, Task, Beyond
  <1> QED BY <1>1, <1>2, <1>3, CalmStep DEF RInv

\* Another task sets the request up anew: the ring is empty.
LEMMA OpenStep ==
  ASSUME RingAssumption, RInv, Open
  PROVE  RInv'
  <1>1. TypeOK BY DEF RInv
  <1>2. /\ rpc \in {"poll", "clear", "inspect", "parse"} /\ status' = "ACTIVE" /\ hw' = "getting"
        /\ read' = 0 /\ write' = 0 /\ got' = sent
        /\ UNCHANGED <<mem, sent, burst, rpc, buffer, tmp, ret, cnt>>
    BY DEF Open, MutexFree, reader
  <1>3. TypeOK'
    <2>1. timed' \in BOOLEAN BY DEF Open, RingAssumption
    <2>2. 0 \in 0 .. BufLen /\ 0 % 4 = 0 BY RingNumbers
    <2>3. /\ UNCHANGED <<wake, cnt>> \/ (wake' = TRUE /\ cnt' = cnt)
          /\ timed' \in BOOLEAN
      BY <2>1 DEF Open, reader
    <2> QED BY <1>1, <1>2, <2>2, <2>3 DEF TypeOK
  <1>4. ~ Beyond(read') /\ ~ Beyond(write') BY <1>2, RingNumbers
  <1>5. Task' BY <1>2, <1>4 DEF RInv, Task, Beyond
  <1>6. (\E o : Queued(o))'
    <2>1. sent \in Nat BY <1>1 DEF TypeOK
    <2>2. PICK o : Chain(mem', o, sent, sent, 0, 0) BY <2>1, ChainEmpty
    <2>3. Settled(read)' = 0 /\ SettledWrite' = 0 BY <1>2, <1>4 DEF Settled, SettledWrite, Beyond
    <2>4. sent + 1 .. sent = {} BY <2>1
    <2>5. Queued(o)' BY <1>2, <2>2, <2>3, <2>4 DEF Queued
    <2> QED BY <2>5
  <1>7. RoomWhileGetting' BY <1>2, <1>4, RingNumbers DEF RoomWhileGetting, Room, Beyond
  <1> QED BY <1>1, <1>2, <1>3, <1>5, <1>6, <1>7 DEF RInv, TypeOK

\* The read pointer passes the section the parser accepted.
LEMMA AdvanceStep ==
  ASSUME RingAssumption, RInv, Advance
  PROVE  RInv'
  <1> DEFINE e == End(mem, read)
  <1>1. TypeOK /\ got <= sent /\ RoomWhileGetting /\ rpc = "advance" BY DEF RInv, Advance
  <1>2. got < sent /\ buffer = read /\ tmp = got + 1 /\ ret = "started" /\ buffer # None /\ ~ Beyond(read)
    BY <1>1 DEF RInv, Task
  <1>3. /\ Settled(read) = read /\ SettledWrite = write
        /\ Holds(mem, read, got + 1) /\ e \in Nat /\ read + 8 <= e
        /\ write >= read => e <= write
    BY <1>1, <1>2, AtRest
  <1>4. mem \in Memory /\ read \in Nat /\ write \in Nat /\ got \in Nat /\ sent \in Nat /\ sent <= MaxSent
    BY <1>1, RingNumbers DEF TypeOK, Memory
  <1>5. read % 4 = 0 /\ read \div 4 \in Words /\ e % 4 = 0 /\ e <= BufLen
    <2> DEFINE l == mem[read \div 4].len
    <2>1. l \in SectionLens /\ read % 4 = 0 BY <1>3 DEF Holds
    <2> HIDE DEF l
    <2>2. /\ read \div 4 \in Words /\ (read + Entry(l)) % 4 = 0 /\ read + Entry(l) + MaxSec <= BufLen
          /\ read + Entry(l) \in Nat
      BY <1>2, <1>4, <2>1, EntryInside
    <2> QED BY <2>1, <2>2, RingNumbers DEF End, l
  <1>6. At(buffer) = mem[read \div 4] BY <1>2, <1>5 DEF At
  <1>7. /\ read' = e /\ got' = got + 1 /\ rpc' = IF Beyond(e) THEN "rewind" ELSE "loop"
        /\ UNCHANGED <<mem, write, status, hw, buffer, ret, burst, sent>>
    BY <1>2, <1>6 DEF Advance, End
  <1> HIDE DEF e
  <1>8. TypeOK'
    <2>1. got' \in 0 .. MaxSent BY <1>2, <1>4, <1>7, RingNumbers
    <2>2. read' \in 0 .. BufLen /\ read' % 4 = 0 BY <1>3, <1>5, <1>7, RingNumbers
    <2>3. cnt > 0 BY <1>1 DEF RInv, Task
    <2>4. cnt' \in 0 .. 2 BY <1>1, <2>3 DEF TypeOK, Advance
    <2> QED BY <1>1, <1>7, <2>1, <2>2, <2>4 DEF TypeOK, Advance
  <1>9. PICK o : Queued(o) BY DEF RInv
  <1>10. Chain(mem, o, got, sent, read, write) BY <1>3, <1>9 DEF Queued
  <1>11. PICK p : /\ Chain(mem, p, got + 1, sent, Wrap(e, write), write)
                  /\ \A n \in got + 2 .. sent + 1 : p[n] = o[n]
    <2>1. /\ Chain(mem, Rest(o, got, sent), got + 1, sent, Wrap(End(mem, read), write), write)
          /\ \A n \in got + 2 .. sent + 1 : Rest(o, got, sent)[n] = o[n]
      <3>1. mem \in Memory BY <1>4
      <3>2. read \in Nat /\ write \in Nat /\ got \in Nat /\ sent \in Nat BY <1>4
      <3>3. got < sent BY <1>2
      <3> QED BY <3>1, <3>2, <3>3, <1>10, ChainNext
    <2> QED BY <2>1 DEF e
  <1>12. Settled(read)' = Wrap(e, write) /\ SettledWrite' = write
    BY <1>7 DEF Settled, SettledWrite, Wrap, Beyond
  <1>13. Queued(p)'
    <2>1. Chain(mem, p, got, sent, Settled(read), SettledWrite)' BY <1>7, <1>11, <1>12
    <2>2. ASSUME NEW n \in got' + 1 .. sent'
          PROVE  /\ At(p[n])'.full => n = sent' /\ hw' # "getting"
                 /\ n = sent' /\ Beyond(write)' => At(p[n])'.full
      <3>1. n \in got + 2 .. sent /\ n \in got + 1 .. sent BY <1>4, <1>7
      <3>2. At(p[n])' = At(o[n]) BY <1>4, <1>7, <1>11, <3>1 DEF At
      <3>3. Beyond(write)' = Beyond(write) BY <1>7 DEF Beyond
      <3> QED BY <1>7, <1>9, <3>1, <3>2, <3>3 DEF Queued
    <2> QED BY <2>1, <2>2 DEF Queued
  <1>14. RoomWhileGetting'
    <2> SUFFICES ASSUME hw = "getting" PROVE Room' BY <1>7 DEF RoomWhileGetting
    <2>1. Room BY <1>1 DEF RoomWhileGetting
    <2> QED BY <1>3, <1>4, <1>7, <2>1, RingNumbers DEF Room
  <1>15. Passed'
    <2>1. At(buffer)' = At(buffer) BY <1>7 DEF At
    <2>2. /\ At(buffer).full => got + 1 = sent /\ hw # "getting"
          /\ got + 1 = sent /\ Beyond(write) => At(buffer).full
      <3>1. got + 1 \in got + 1 .. sent BY <1>2, <1>4
      <3>2. o[got + 1] = read BY <1>10 DEF Chain
      <3> QED BY <1>2, <1>9, <3>1, <3>2 DEF Queued
    <2>3. hw = "getting" =>
            \/ write + HdrLen + MaxSec < buffer
            \/ write >= buffer + 8 /\ ~ Beyond(e)
      <3> SUFFICES ASSUME hw = "getting", write >= read PROVE write >= read + 8 /\ ~ Beyond(e)
        BY <1>1, <1>2, <1>4, RingNumbers DEF RoomWhileGetting, Room
      <3>1. write + HdrLen + MaxSec + MaxSec <= BufLen BY <1>1 DEF RoomWhileGetting, Room
      <3> QED BY <1>3, <1>4, <3>1, RingNumbers DEF Beyond
    <2>4. Beyond(write)' = Beyond(write) BY <1>7 DEF Beyond
    <2>5. buffer \in Nat /\ buffer % 4 = 0 /\ ~ Beyond(buffer) BY <1>2, <1>4, <1>5
    <2>6. ~ Beyond(buffer)' BY <1>7, <2>5 DEF Beyond
    <2> QED BY <1>7, <2>1, <2>2, <2>3, <2>4, <2>5, <2>6 DEF Passed
  <1>16. Task'
    <2>1. Beyond(read)' <=> rpc' = "rewind" BY <1>7 DEF Beyond
    <2> QED BY <1>2, <1>7, <1>15, <2>1 DEF Task
  <1>17. got' <= sent' /\ burst' \in 0 .. 1 BY <1>2, <1>4, <1>7 DEF RInv
  <1> QED BY <1>8, <1>13, <1>14, <1>16, <1>17 DEF RInv

\* Both cursors go back to the start, one after the other.
LEMMA RewindStep ==
  ASSUME RingAssumption, RInv, Rewind
  PROVE  RInv'
  <1>1. TypeOK /\ got <= sent /\ RoomWhileGetting /\ rpc = "rewind" BY DEF RInv, Rewind
  <1>2. Beyond(read) /\ Passed /\ ret = "started" /\ buffer # None BY <1>1 DEF RInv, Task
  <1>3. /\ read' = 0 /\ rpc' = "rewindw"
        /\ UNCHANGED <<mem, write, status, hw, buffer, ret, burst, sent, got>>
    BY DEF Rewind
  <1>4. got \in Nat /\ sent \in Nat /\ write \in Nat /\ write <= BufLen BY <1>1, RingNumbers DEF TypeOK
  <1>5. TypeOK'
    <2>1. 0 \in 0 .. BufLen /\ 0 % 4 = 0 BY RingNumbers
    <2> QED BY <1>1, <1>3, <2>1 DEF TypeOK, Rewind
  <1>6. At(buffer)' = At(buffer) /\ Beyond(write)' = Beyond(write) BY <1>3 DEF At, Beyond
  <1>7. Passed'
    <2>1. hw = "getting" /\ burst = 0 => write + HdrLen + MaxSec < buffer BY <1>1, <1>2 DEF Passed
    <2>2. ~ Beyond(buffer)' BY <1>2, <1>3 DEF Passed, Beyond
    <2>3. got = sent /\ Beyond(write) => At(buffer).full BY <1>1, <1>2 DEF Passed
    <2>4. buffer \in Nat /\ buffer % 4 = 0 /\ (At(buffer).full => got = sent /\ hw # "getting")
      BY <1>2 DEF Passed
    <2> QED BY <1>3, <1>6, <2>1, <2>2, <2>3, <2>4 DEF Passed
  <1>8. Task'
    <2>1. ~ Beyond(read)' BY <1>3, RingNumbers DEF Beyond
    <2> QED BY <1>2, <1>3, <1>7, <2>1 DEF Task
  <1>9. PICK o : Queued(o) BY DEF RInv
  <1>10. SettledWrite = write /\ Settled(read) = (IF read = write THEN write ELSE 0)
    BY <1>1, <1>2 DEF SettledWrite, Settled
  <1>11. Settled(read)' = 0
    BY <1>3, RingNumbers DEF Settled, Beyond
  <1>12. (\E p : Queued(p))'
    <2>1. CASE got = sent
      <3>1. Settled(read) = write BY <1>4, <1>9, <1>10, <2>1, ChainEnds DEF Queued
      <3>2. SettledWrite' = 0
        <4>1. CASE Beyond(write) BY <1>2, <1>3, <1>6, <2>1, <4>1, <1>1 DEF Passed, SettledWrite
        <4>2. CASE ~ Beyond(write)
          <5>1. write = 0 BY <1>2, <1>10, <3>1, <4>2
          <5> QED BY <1>3, <5>1 DEF SettledWrite
        <4> QED BY <4>1, <4>2
      <3>3. PICK p : Chain(mem', p, got', sent', 0, 0) BY <1>3, <1>4, <2>1, ChainEmpty
      <3>4. got' + 1 .. sent' = {} BY <1>3, <1>4, <2>1
      <3>5. Queued(p)' BY <1>11, <3>2, <3>3, <3>4 DEF Queued
      <3> QED BY <3>5
    <2>2. CASE got # sent
      <3>1. Settled(read) = 0 /\ Settled(read) # write
        BY <1>1, <1>4, <1>9, <1>10, <2>2, ChainEnds DEF Queued
      <3>2. SettledWrite' = write BY <1>2, <1>3, <1>6, <2>2 DEF Passed, SettledWrite
      <3>3. Chain(mem, o, got, sent, Settled(read), SettledWrite)'
        BY <1>3, <1>9, <1>10, <1>11, <3>1, <3>2 DEF Queued
      <3>4. ASSUME NEW n \in got' + 1 .. sent'
            PROVE  /\ At(o[n])'.full => n = sent' /\ hw' # "getting"
                   /\ n = sent' /\ Beyond(write)' => At(o[n])'.full
        <4>1. At(o[n])' = At(o[n]) BY <1>3 DEF At
        <4> QED BY <1>3, <1>6, <1>9, <4>1 DEF Queued
      <3>5. Queued(o)' BY <3>3, <3>4 DEF Queued
      <3> QED BY <3>5
    <2> QED BY <2>1, <2>2
  <1>13. RoomWhileGetting'
    BY <1>1, <1>3, <1>4 DEF RoomWhileGetting, Room
  <1>14. got' <= sent' /\ burst' \in 0 .. 1 BY <1>3 DEF RInv
  <1> QED BY <1>5, <1>8, <1>12, <1>13, <1>14 DEF RInv

\* The write pointer follows the read pointer to the start if the driver stopped at the end.
LEMMA RewindWriteStep ==
  ASSUME RingAssumption, RInv, RewindWrite
  PROVE  RInv'
  <1>1. TypeOK /\ got <= sent /\ RoomWhileGetting /\ rpc = "rewindw" BY DEF RInv, RewindWrite
  <1>2. read = 0 /\ Passed /\ ret = "started" /\ buffer # None BY <1>1 DEF RInv, Task
  <1>3. /\ write' = SettledWrite /\ rpc' = "loop"
        /\ UNCHANGED <<mem, read, status, hw, buffer, ret, burst, sent, got>>
    BY <1>1 DEF RewindWrite, SettledWrite
  <1>4. got \in Nat /\ sent \in Nat /\ write \in Nat BY <1>1, RingNumbers DEF TypeOK
  <1>5. write' = write \/ (write' = 0 /\ At(buffer).full /\ Beyond(write))
    BY DEF RewindWrite
  <1>6. TypeOK'
    <2>1. write' \in 0 .. BufLen /\ write' % 4 = 0 BY <1>1, <1>5, RingNumbers DEF TypeOK
    <2> QED BY <1>1, <1>3, <2>1 DEF TypeOK, RewindWrite
  <1>7. At(buffer).full => got = sent /\ hw # "getting" BY <1>2 DEF Passed
  <1>8. At(buffer)' = At(buffer) BY <1>3 DEF At
  <1>9. Passed'
    <2>1. ~ Beyond(buffer)' /\ buffer \in Nat /\ buffer % 4 = 0 BY <1>2, <1>3 DEF Passed, Beyond
    <2>2. hw = "getting" => write' = write BY <1>5, <1>7
    <2>3. hw = "getting" /\ burst = 0 => write + HdrLen + MaxSec < buffer \/ write >= buffer + 8
      BY <1>2 DEF Passed
    <2> QED BY <1>3, <1>7, <1>8, <2>1, <2>2, <2>3 DEF Passed
  <1>10. Task'
    <2>1. ~ Beyond(read)' BY <1>2, <1>3, RingNumbers DEF Beyond
    <2> QED BY <1>2, <1>3, <1>9, <2>1 DEF Task
  <1>11. PICK o : Queued(o) BY DEF RInv
  <1>12. Settled(read)' = Settled(read) /\ SettledWrite' = SettledWrite
    BY <1>2, <1>3, RingNumbers DEF Settled, SettledWrite, Beyond
  <1>13. Queued(o)'
    <2>1. Chain(mem, o, got, sent, Settled(read), SettledWrite)'
      BY <1>3, <1>11, <1>12 DEF Queued
    <2>2. ASSUME NEW n \in got' + 1 .. sent'
          PROVE  /\ At(o[n])'.full => n = sent' /\ hw' # "getting"
                 /\ n = sent' /\ Beyond(write)' => At(o[n])'.full
      <3>1. At(o[n])' = At(o[n]) BY <1>3 DEF At
      <3>2. got # sent BY <1>3, <1>4
      <3>3. write' = write BY <1>5, <1>7, <3>2
      <3>4. Beyond(write)' = Beyond(write) BY <3>3 DEF Beyond
      <3> QED BY <1>3, <1>11, <3>1, <3>4 DEF Queued
    <2> QED BY <2>1, <2>2 DEF Queued
  <1>14. RoomWhileGetting'
    BY <1>1, <1>3, <1>5, <1>7 DEF RoomWhileGetting, Room
  <1>15. got' <= sent' /\ burst' \in 0 .. 1 BY <1>3 DEF RInv
  <1> QED BY <1>6, <1>10, <1>13, <1>14, <1>15 DEF RInv

\* The driver stores a section where there is room for it, behind all that are unread.
LEMMA PutStep ==
  ASSUME RingAssumption, Settles, RInv, OnDmxEvent
  PROVE  RInv'
  <1>1. TypeOK /\ got <= sent /\ burst \in 0 .. 1 /\ Room /\ hw = "getting" /\ Task
    BY DEF RInv, OnDmxEvent, RoomWhileGetting
  <1>2. PICK len \in SectionLens :
          LET w == NextWrite(len)
          IN  /\ mem' = Stored(write, len, RingFull(w))
              /\ write' = w
              /\ hw' = IF RingFull(w) THEN "stopped" ELSE "getting"
    BY DEF OnDmxEvent
  <1>a. PICK full \in BOOLEAN : full = RingFull(NextWrite(len)) BY DEF RingFull
  <1>3. /\ write' = NextWrite(len) /\ mem' = With(mem, write, [sec |-> sent + 1, len |-> len, full |-> full])
        /\ hw' = IF full THEN "stopped" ELSE "getting"
        /\ sent' = sent + 1 /\ sent < MaxSent
        /\ UNCHANGED <<timed, read, status, rpc, buffer, cnt, ret, tmp, got>>
        /\ wake' = TRUE
    BY <1>2, <1>a DEF OnDmxEvent, Stored, With
  <1>4. /\ mem \in Memory /\ read \in Nat /\ write \in Nat /\ got \in Nat /\ sent \in Nat
        /\ write % 4 = 0 /\ read <= BufLen
    BY <1>1, RingNumbers DEF TypeOK, Memory
  <1>5. ~ Beyond(write) /\ (write >= read \/ write + HdrLen + MaxSec < read)
    BY <1>1, <1>4, RingNumbers DEF Room, Beyond
  <1>6. Entry(len) \in Nat /\ 8 <= Entry(len) /\ Entry(len) <= HdrLen + MaxSec /\ Entry(len) % 4 = 0
    BY EntryRange
  <1>7. burst' \in 0 .. 1 /\ (Settling => burst = 0 /\ burst' = 1)
    BY <1>1, RingNumbers DEF OnDmxEvent, Settles, RingAssumption
  <1>8. full \in BOOLEAN /\ (Beyond(write') => full) /\ (hw' = "getting" => ~ full)
    BY <1>3, <1>a DEF RingFull
  <1>9. /\ rpc = "rewind" => write + HdrLen + MaxSec < buffer /\ ~ Beyond(buffer) /\ buffer \in Nat
        /\ rpc \in {"rewind", "rewindw", "loop"} \/ (rpc \in {"left", "tail"} /\ ret = "started") =>
             Passed /\ ~ At(buffer).full /\ burst = 0 /\ burst' = 1
    BY <1>1, <1>7 DEF Task, Passed, Settling
  <1>b. PICK r, v : r = Settled(read) /\ v = NextWrite(len) OBVIOUS
  <1>10. SettledWrite = write /\ (rpc # "rewind" => r = read) /\ (rpc = "rewind" => r = 0)
    BY <1>1, <1>5, <1>9, <1>b, RingNumbers DEF Task, SettledWrite, Settled
  <1>11. /\ v = write + Entry(len) \/ (v = 0 /\ Beyond(write + Entry(len)) /\ write >= r /\ r > 0)
         /\ rpc = "rewind" => ~ Beyond(v)
    <2>1. ASSUME rpc = "rewind" PROVE ~ Beyond(write + Entry(len))
      <3>1. write + HdrLen + MaxSec < buffer /\ ~ Beyond(buffer) /\ buffer \in Nat BY <1>9, <2>1
      <3>2. write + Entry(len) < buffer BY <1>4, <1>6, <3>1, RingNumbers
      <3>3. ~ (buffer + HdrLen + MaxSec + MaxSec > BufLen) BY <3>1 DEF Beyond
      <3>4. ~ (write + Entry(len) + HdrLen + MaxSec + MaxSec > BufLen)
        BY <1>4, <1>6, <3>1, <3>2, <3>3, RingNumbers
      <3> QED BY <3>4 DEF Beyond
    <2>2. ASSUME rpc # "rewind", Beyond(write + Entry(len)), read > 0 PROVE write >= read
      <3>1. ~ Beyond(read) BY <1>1, <2>2 DEF Task
      <3> SUFFICES ASSUME write + HdrLen + MaxSec < read PROVE FALSE BY <1>5
      <3>2. write + Entry(len) < read BY <1>4, <1>6, RingNumbers
      <3>3. ~ (read + HdrLen + MaxSec + MaxSec > BufLen) BY <3>1 DEF Beyond
      <3>4. ~ (write + Entry(len) + HdrLen + MaxSec + MaxSec > BufLen)
        <4>1. read \in Nat /\ write + Entry(len) \in Nat BY <1>4, <1>6
        <4> QED BY <3>2, <3>3, <4>1, RingNumbers
      <3> QED BY <2>2, <3>4 DEF Beyond
    <2> QED BY <1>4, <1>10, <1>b, <2>1, <2>2 DEF NextWrite
  <1>12. v \in Nat /\ v % 4 = 0 /\ v <= BufLen /\ r \in Nat
    <2>1. write + Entry(len) + MaxSec <= BufLen /\ (write + Entry(len)) % 4 = 0
      BY <1>4, <1>5, EntryInside
    <2> QED BY <1>4, <1>6, <1>10, <1>11, <2>1, RingNumbers
  <1>13. PICK o : Queued(o) BY <1>1 DEF RInv
  <1>14. Chain(mem, o, got, sent, r, write) BY <1>10, <1>13, <1>b DEF Queued
  <1>15. write >= r \/ write + HdrLen + MaxSec < r BY <1>4, <1>5, <1>10
  <1>16. sent + 1 \in 1 .. MaxSent BY <1>3, <1>4, RingNumbers
  <1>c. PICK h : h = [sec |-> sent + 1, len |-> len, full |-> full] OBVIOUS
  <1>d. h \in Headers /\ h.sec = sent + 1 /\ h.len = len /\ h.full = full BY <1>c, <1>16 DEF Headers
  <1>e. PICK d : d = mem' OBVIOUS
  <1>f. d = With(mem, write, h) BY <1>3, <1>c, <1>e
  <1>17. PICK p : /\ Chain(mem', p, got, sent + 1, r, v) /\ p[sent + 1] = write /\ mem'[write \div 4] = h
                  /\ \A n \in got + 1 .. sent : p[n] = o[n] /\ mem'[o[n] \div 4] = mem[o[n] \div 4]
    <2>1. got <= sent BY <1>1
    <2>2. StoredAt(mem, write, h, d) BY <1>4, <1>5, <1>d, <1>f DEF StoredAt
    <2>3. PutAfter(got, sent, r, write, h, v) BY <1>4, <1>11, <1>12, <1>15, <1>d, <2>1 DEF PutAfter
    <2>9. \E p : /\ Chain(d, p, got, sent + 1, r, v) /\ p[sent + 1] = write /\ d[write \div 4] = h
                 /\ \A n \in got + 1 .. sent : p[n] = o[n] /\ d[o[n] \div 4] = mem[o[n] \div 4]
      BY <1>14, <2>2, <2>3, ChainPut
    <2> QED BY <1>e, <2>9
  <1>18. mem' \in Memory /\ (buffer \in Nat /\ buffer % 4 = 0 /\ ~ Beyond(buffer)
                             /\ (buffer + 8 <= write \/ write + Entry(len) <= buffer)
                             => mem'[buffer \div 4] = mem[buffer \div 4] /\ buffer \div 4 \in Words)
    <2>1. StoredAt(mem, write, h, d) BY <1>4, <1>5, <1>d, <1>f DEF StoredAt
    <2>2. /\ d \in Memory
          /\ \A y \in Nat : y % 4 = 0 /\ (y + 8 <= write \/ write + Entry(h.len) <= y) /\ y \div 4 \in Words =>
               d[y \div 4] = mem[y \div 4]
      BY <2>1, StoredWhole
    <2>3. \A y \in Nat : y % 4 = 0 /\ ~ Beyond(y) => y \div 4 \in Words
      BY EntryInside
    <2> QED BY <1>d, <1>e, <2>2, <2>3
  <1>19. rpc \in {"rewind", "rewindw", "loop"} \/ (rpc \in {"left", "tail"} /\ ret = "started") =>
           At(buffer)' = At(buffer)
    <2> SUFFICES ASSUME rpc \in {"rewind", "rewindw", "loop"} \/ (rpc \in {"left", "tail"} /\ ret = "started")
                 PROVE  At(buffer)' = At(buffer)
      OBVIOUS
    <2>1. /\ buffer \in Nat /\ buffer % 4 = 0 /\ ~ Beyond(buffer)
          /\ write + HdrLen + MaxSec < buffer \/ write >= buffer + 8
      BY <1>1, <1>9 DEF Passed
    <2>2. buffer + 8 <= write \/ write + Entry(len) <= buffer
      BY <1>4, <1>6, <2>1, RingNumbers
    <2>3. mem'[buffer \div 4] = mem[buffer \div 4] /\ buffer \div 4 \in Words BY <1>18, <2>1, <2>2
    <2> QED BY <1>3, <2>3 DEF At
  <1>20. TypeOK'
    <2>1. sent' \in 0 .. MaxSent BY <1>3, <1>16
    <2>2. write' \in 0 .. BufLen /\ write' % 4 = 0 BY <1>3, <1>12, <1>b, RingNumbers
    <2>3. hw' \in {"getting", "stopped", "closed"} BY <1>3
    <2> QED BY <1>1, <1>3, <1>18, <2>1, <2>2, <2>3 DEF TypeOK, Memory
  <1>21. SettledWrite' = v /\ Settled(read)' = r
    <2>1. rpc' = "rewindw" => ~ At(buffer)'.full BY <1>3, <1>9, <1>19
    <2>2. SettledWrite' = v BY <1>3, <1>b, <2>1 DEF SettledWrite
    <2>3. rpc # "rewind" => ~ Beyond(read) BY <1>1 DEF Task
    <2>4. rpc = "rewind" => Beyond(read) /\ read # v
      BY <1>1, <1>11 DEF Task
    <2>5. rpc # "rewind" => Settled(read)' = r BY <1>3, <1>10, <2>3 DEF Settled, Beyond
    <2>6. rpc = "rewind" => Settled(read)' = r BY <1>3, <1>10, <2>2, <2>4 DEF Settled, Beyond
    <2> QED BY <2>2, <2>5, <2>6
  <1>22. Queued(p)'
    <2>1. Chain(mem, p, got, sent, Settled(read), SettledWrite)' BY <1>3, <1>17, <1>21
    <2>2. ASSUME NEW n \in got' + 1 .. sent'
          PROVE  /\ At(p[n])'.full => n = sent' /\ hw' # "getting"
                 /\ n = sent' /\ Beyond(write)' => At(p[n])'.full
      <3>1. CASE n = sent + 1
        <4>1. write \div 4 \in Words BY <1>4, <1>5, EntryInside
        <4>2. At(p[n])' = mem'[write \div 4] BY <1>17, <3>1, <4>1 DEF At
        <4>3. Beyond(write)' => full BY <1>3, <1>8 DEF Beyond
        <4> QED BY <1>3, <1>8, <1>17, <1>d, <3>1, <4>2, <4>3
      <3>2. CASE n # sent + 1
        <4>1. n \in got + 1 .. sent BY <1>3, <1>4, <3>2
        <4>2. At(p[n])' = At(o[n]) BY <1>17, <4>1 DEF At
        <4>3. ~ At(o[n]).full BY <1>1, <1>13, <4>1 DEF Queued
        <4> QED BY <1>3, <3>2, <4>2, <4>3
      <3> QED BY <3>1, <3>2
    <2> QED BY <2>1, <2>2 DEF Queued
  <1>23. RoomWhileGetting'
    <2> SUFFICES ASSUME hw' = "getting" PROVE Room' BY DEF RoomWhileGetting
    <2>1. ~ RingFull(v) /\ write' = v BY <1>3, <1>8, <1>a, <1>b
    <2> QED BY <1>3, <1>4, <1>12, <2>1, RingNumbers DEF RingFull, Room, Beyond
  <1>24. Task'
    <2>1. Beyond(read)' <=> Beyond(read) BY <1>3 DEF Beyond
    <2>2. ASSUME rpc \in {"rewind", "rewindw", "loop"} \/ (rpc \in {"left", "tail"} /\ ret = "started")
          PROVE  Passed'
      <3>1. Passed /\ ~ At(buffer).full /\ burst' = 1 /\ At(buffer)' = At(buffer) BY <1>9, <1>19, <2>2
      <3>2. got' < sent' BY <1>1, <1>3, <1>4
      <3>3. ~ Beyond(buffer)' BY <1>3, <3>1 DEF Passed, Beyond
      <3> QED BY <1>3, <3>1, <3>2, <3>3 DEF Passed
    <2>3. got < sent => got' < sent' BY <1>1, <1>3, <1>4
    <2> QED BY <1>1, <1>3, <2>1, <2>2, <2>3 DEF Task
  <1>25. got' <= sent' BY <1>1, <1>3, <1>4
  <1> QED BY <1>7, <1>20, <1>22, <1>23, <1>24, <1>25 DEF RInv

\* The invariant holds in the beginning.
LEMMA InitHolds ==
  ASSUME RingAssumption, Init
  PROVE  RInv
  <1>1. 0 \in 0 .. BufLen /\ 0 % 4 = 0 /\ 0 \in 0 .. MaxSent BY RingNumbers
  <1>2. mem \in Memory
    <2>1. Blank \in [sec : 0 .. MaxSent, len : {0} \cup SectionLens, full : BOOLEAN] BY <1>1 DEF Blank
    <2> QED BY <2>1 DEF Init, Memory
  <1>3. TypeOK
    <2>1. /\ read = 0 /\ write = 0 /\ status = "FREE" /\ timed = FALSE /\ hw = "closed" /\ wake = FALSE
          /\ rpc = "poll" /\ buffer = None /\ cnt = 0 /\ ret = "started" /\ tmp = 0
          /\ sent = 0 /\ got = 0
      BY DEF Init
    <2>2. wake \in BOOLEAN /\ timed \in BOOLEAN BY <2>1
    <2> QED BY <1>1, <1>2, <2>1, <2>2 DEF TypeOK, Memory
  <1>4. Settled(read) = 0 /\ SettledWrite = 0 BY DEF Init, Settled, SettledWrite
  <1>5. PICK o : Chain(mem, o, 0, 0, 0, 0) BY ChainEmpty
  <1>6. Queued(o)
    <2>1. got + 1 .. sent = {} BY DEF Init
    <2> QED BY <1>4, <1>5, <2>1 DEF Queued, Init
  <1>7. ~ Beyond(read) BY RingNumbers DEF Init
  <1>8. Task BY <1>7 DEF Init, Task
  <1> QED BY <1>3, <1>6, <1>8 DEF RInv, Init, RoomWhileGetting

\* It holds when nothing happens.
LEMMA StutterStep ==
  ASSUME RInv, UNCHANGED vars
  PROVE  RInv'
  <1>1. TypeOK' BY DEF RInv, TypeOK, vars
  <1>2. PICK o : Queued(o) BY DEF RInv
  <1>3. Queued(o)' BY <1>2 DEF Queued, Settled, SettledWrite, Beyond, At, vars
  <1>4. RoomWhileGetting' BY DEF RInv, RoomWhileGetting, Room, vars
  <1>5. Passed => Passed' BY DEF Passed, Beyond, At, vars
  <1>6. Beyond(read)' <=> Beyond(read) BY DEF Beyond, vars
  <1>7. Task' BY <1>5, <1>6 DEF RInv, Task, vars
  <1>8. got' <= sent' /\ burst' \in 0 .. 1 BY DEF RInv, vars
  <1> QED BY <1>1, <1>3, <1>4, <1>7, <1>8 DEF RInv

\* It is inductive: one lemma for each action.
LEMMA RInvStep ==
  ASSUME RingAssumption, Settles, RInv, [Next]_vars
  PROVE  RInv'
  <1>1. CASE OnDmxEvent BY <1>1, PutStep
  <1>2. CASE Poll \/ Clear \/ Inspect BY <1>2, PollStep DEF Inspect
  <1>3. CASE Return BY <1>3, ReturnStep
  <1>4. CASE Dispatch
    BY <1>4, TakeStep, AdvanceStep, RewindStep, RewindWriteStep, LoopStep, LeftStep, FinishStep DEF Dispatch
  <1>5. CASE Abort BY <1>5, AbortStep
  <1>6. CASE Open BY <1>6, OpenStep
  <1>7. CASE UNCHANGED vars BY <1>7, StutterStep
  <1> QED BY <1>1, <1>2, <1>3, <1>4, <1>5, <1>6, <1>7 DEF Next, SieTask

\* It holds in every behaviour.
LEMMA RInvAlways ==
  ASSUME Settles
  PROVE  Spec => []RInv
  <1>1. Init => RInv BY RingAssumption, InitHolds
  <1>2. RInv /\ [Next]_vars => RInv' BY RingAssumption, RInvStep
  <1> QED BY <1>1, <1>2, PTL DEF Spec

\* The cursors stay inside the buffer and aligned, and the locals of the SIE task in range
\* (section_cnt never goes below zero), for every buffer size and choice of section lengths.
THEOREM RingTypes ==
  ASSUME Settles
  PROVE  Spec => []TypeOK
  <1>1. RInv => TypeOK BY DEF RInv
  <1> QED BY <1>1, RInvAlways, PTL

\* on_dmx_event copies a section without looking whether it fits; there is room for one of
\* the maximum length whenever the filter is getting sections.
THEOREM RoomForNext ==
  ASSUME Settles
  PROVE  Spec => []RoomWhileGetting
  <1>1. RInv => RoomWhileGetting BY DEF RInv
  <1> QED BY <1>1, RInvAlways, PTL

\* dispatch_section requests a stopped filter again only when the ring has room.
THEOREM RequestedWithRoom ==
  ASSUME Settles
  PROVE  Spec => RestartsWithRoom
  <1>1. RInv' => (hw = "stopped" /\ hw' = "getting" => Room') BY DEF RInv, RoomWhileGetting
  <1> QED BY <1>1, RInvAlways, PTL DEF RestartsWithRoom, Spec

(* The ring implements SectionQueue. *)

\* A set of natural numbers has a least element.
LEMMA LeastNat ==
  ASSUME NEW T, T \subseteq Nat, T # {}
  PROVE  \E x \in T : \A y \in T : x <= y
  <1> DEFINE Rel == OpToRel(<, Nat)
  <1>1. IsWellFoundedOn(Rel, Nat)
    BY NatLessThanWellFounded
  <1>2. \A x, y \in Nat : y < x => <<y, x>> \in Rel
    BY DEF OpToRel
  <1>3. \E x \in T : \A y \in T : <<y, x>> \notin Rel
    BY <1>1, WFMin, Zenon
  <1>4. \E x \in T : \A y \in T : ~ (y < x)
    <2> HIDE DEF Rel
    <2> QED BY <1>2, <1>3, Zenon
  <1> QED BY <1>4

\* What Unread finds from an offset within a number of sections, given what it finds within
\* one less.
Row(g, k) ==
  [offset \in 0 .. BufLen |->
     IF offset = SettledWrite \/ k = 0 THEN <<>>
     ELSE <<At(offset).sec>> \o g[k - 1][Behind(offset)]]

\* Its recursion defines a function.
LEMMA RowsDefined ==
  ASSUME MaxSent \in Nat
  PROVE  \E g : g = [k \in 0 .. MaxSent |-> Row(g, k)]
  <1> DEFINE P(n) == \E g : g = [k \in 0 .. n |-> Row(g, k)]
             T == {n \in 0 .. MaxSent : ~ P(n)}
  <1> SUFFICES ASSUME T # {} PROVE FALSE
    <2>1. MaxSent \notin T OBVIOUS
    <2> QED BY <2>1
  <1>1. PICK m \in T : \A n \in T : m <= n
    <2>1. T \subseteq Nat OBVIOUS
    <2> HIDE DEF T
    <2> QED BY <2>1, LeastNat
  <1>2. ASSUME NEW g, NEW f, NEW k \in Nat, k # 0 => f[k - 1] = g[k - 1]
        PROVE  Row(g, k) = Row(f, k)
    BY <1>2 DEF Row
  <1>3. m \in 0 .. MaxSent /\ ~ P(m)
    OBVIOUS
  <1>4. m # 0
    <2> SUFFICES ASSUME m = 0 PROVE FALSE OBVIOUS
    <2> DEFINE g == [k \in 0 .. 0 |-> [offset \in 0 .. BufLen |-> <<>>]]
    <2>1. Row(g, 0) = [offset \in 0 .. BufLen |-> <<>>] BY DEF Row
    <2>2. g = [k \in 0 .. 0 |-> Row(g, k)]
      BY <2>1
    <2> HIDE DEF g
    <2>3. P(0) BY <2>2
    <2> QED BY <1>3, <2>3
  <1>5. m - 1 \in 0 .. MaxSent /\ P(m - 1)
    <2>1. m - 1 \in 0 .. MaxSent /\ m - 1 \notin T BY <1>1, <1>4
    <2> QED BY <2>1
  <1> HIDE DEF T
  <1>6. PICK g : g = [k \in 0 .. m - 1 |-> Row(g, k)]
    BY <1>5
  <1> DEFINE f == [k \in 0 .. m |-> Row(g, k)]
  <1>7. \A k \in 0 .. m - 1 : g[k] = Row(g, k) /\ f[k] = Row(g, k)
    <2>1. \A k \in 0 .. m - 1 : [c \in 0 .. m - 1 |-> Row(g, c)][k] = Row(g, k)
      OBVIOUS
    <2>2. \A k \in 0 .. m - 1 : f[k] = Row(g, k)
      BY <1>3
    <2> QED BY <1>6, <2>1, <2>2, Zenon
  <1>8. \A k \in 0 .. m : Row(g, k) = Row(f, k)
    <2> HIDE DEF f
    <2> TAKE k \in 0 .. m
    <2>1. k # 0 => k - 1 \in 0 .. m - 1 BY <1>3
    <2>2. k # 0 => f[k - 1] = g[k - 1]
      BY <1>7, <2>1
    <2> QED BY <1>2, <1>3, <2>2
  <1>9. f = [k \in 0 .. m |-> Row(f, k)]
    BY <1>8
  <1>10. P(m)
    <2> HIDE DEF f
    <2> QED BY <1>9
  <1> QED BY <1>3, <1>10

\* The numbers behind a up to b.
Numbers(a, b) == [i \in 1 .. b - a |-> a + i]

\* They are a sequence.
LEMMA NumbersSeq ==
  ASSUME NEW a \in Nat, NEW b \in Nat, a <= b
  PROVE  /\ Numbers(a, b) \in Seq(Nat) /\ Len(Numbers(a, b)) = b - a
         /\ \A i \in 1 .. b - a : Numbers(a, b)[i] = a + i
  <1>1. Numbers(a, b) \in [1 .. b - a -> Nat] BY DEF Numbers
  <1>2. b - a \in Nat OBVIOUS
  <1> QED BY <1>1, <1>2 DEF Numbers

\* The first of them and the rest.
LEMMA NumbersCons ==
  ASSUME NEW a \in Nat, NEW b \in Nat, a < b
  PROVE  /\ <<a + 1>> \o Numbers(a + 1, b) = Numbers(a, b)
         /\ Numbers(a, b) # <<>> /\ Head(Numbers(a, b)) = a + 1 /\ Tail(Numbers(a, b)) = Numbers(a + 1, b)
  <1> DEFINE s == <<a + 1>>
             t == Numbers(a + 1, b)
             u == Numbers(a, b)
  <1>1. s \in Seq(Nat) /\ Len(s) = 1 /\ s[1] = a + 1 OBVIOUS
  <1>2. /\ t \in Seq(Nat) /\ Len(t) = b - a - 1 /\ \A i \in 1 .. b - a - 1 : t[i] = a + 1 + i
        /\ u \in Seq(Nat) /\ Len(u) = b - a /\ \A i \in 1 .. b - a : u[i] = a + i
    <2> HIDE DEF t, u
    <2> DEFINE c == a + 1
    <2>1. c \in Nat /\ c <= b /\ a <= b /\ b - c = b - a - 1 OBVIOUS
    <2>2. t = Numbers(c, b) BY DEF t
    <2> HIDE DEF c
    <2>3. Numbers(c, b) \in Seq(Nat) /\ Len(Numbers(c, b)) = b - c
          /\ \A i \in 1 .. b - c : Numbers(c, b)[i] = c + i
      BY <2>1, NumbersSeq
    <2>4. u \in Seq(Nat) /\ Len(u) = b - a /\ \A i \in 1 .. b - a : u[i] = a + i
      BY <2>1, NumbersSeq DEF u
    <2>5. \A i \in 1 .. b - a - 1 : t[i] = a + 1 + i BY <2>1, <2>2, <2>3 DEF c
    <2> QED BY <2>1, <2>2, <2>3, <2>4, <2>5
  <1> HIDE DEF s, t, u
  <1>3. s \o t = u
    <2>1. /\ s \o t \in Seq(Nat) /\ Len(s \o t) = Len(s) + Len(t)
          /\ \A i \in 1 .. Len(s) + Len(t) : (s \o t)[i] = IF i <= Len(s) THEN s[i] ELSE t[i - Len(s)]
      BY <1>1, <1>2, ConcatProperties
    <2>2. ASSUME NEW i \in 1 .. Len(u) PROVE (s \o t)[i] = u[i]
      <3>1. CASE i = 1 BY <1>1, <1>2, <2>1, <3>1
      <3>2. CASE i # 1
        <4>1. i \in 1 .. b - a /\ i - 1 \in 1 .. b - a - 1 BY <1>2, <3>2
        <4>2. t[i - 1] = a + i /\ u[i] = a + i BY <1>2, <4>1
        <4>3. (s \o t)[i] = t[i - 1]
          <5>1. i \in 1 .. Len(s) + Len(t) /\ ~ (i <= Len(s)) /\ i - Len(s) = i - 1 BY <1>1, <1>2, <3>2, <4>1
          <5> QED BY <2>1, <5>1
        <4> QED BY <4>2, <4>3
      <3> QED BY <3>1, <3>2
    <2>3. Len(s \o t) = Len(u) BY <1>1, <1>2, <2>1
    <2> QED BY <1>2, <2>1, <2>2, <2>3, SeqEqual
  <1>4. u # <<>> BY <1>2
  <1>5. Head(u) = a + 1
    <2>1. Head(u) = u[1] BY <1>2, <1>4, HeadTailProperties
    <2> QED BY <1>2, <2>1
  <1>6. Tail(u) = t
    <2>1. /\ Tail(u) \in Seq(Nat) /\ Len(Tail(u)) = Len(u) - 1
          /\ \A i \in 1 .. Len(Tail(u)) : Tail(u)[i] = u[i + 1]
      BY <1>2, <1>4, HeadTailProperties
    <2>2. ASSUME NEW i \in 1 .. Len(Tail(u)) PROVE Tail(u)[i] = t[i]
      <3>1. i \in 1 .. b - a - 1 /\ i + 1 \in 1 .. b - a BY <1>2, <2>1
      <3> QED BY <1>2, <2>1, <3>1
    <2>3. Len(Tail(u)) = Len(t) BY <1>2, <2>1
    <2> QED BY <1>2, <2>1, <2>2, <2>3, SeqEqual
  <1> QED BY <1>3, <1>4, <1>5, <1>6 DEF s, t, u

\* One more.
LEMMA NumbersAppend ==
  ASSUME NEW a \in Nat, NEW b \in Nat, a <= b
  PROVE  Append(Numbers(a, b), b + 1) = Numbers(a, b + 1)
  <1> DEFINE t == Numbers(a, b)
             u == Numbers(a, b + 1)
  <1>1. /\ t \in Seq(Nat) /\ Len(t) = b - a /\ \A i \in 1 .. b - a : t[i] = a + i
        /\ u \in Seq(Nat) /\ Len(u) = b + 1 - a /\ \A i \in 1 .. b + 1 - a : u[i] = a + i
    <2> HIDE DEF t, u
    <2> DEFINE c == b + 1
    <2>1. c \in Nat /\ a <= c /\ c - a = b + 1 - a OBVIOUS
    <2>2. u = Numbers(a, c) BY DEF u
    <2> HIDE DEF c
    <2>3. t \in Seq(Nat) /\ Len(t) = b - a /\ \A i \in 1 .. b - a : t[i] = a + i BY NumbersSeq DEF t
    <2>4. u \in Seq(Nat) /\ Len(u) = c - a /\ \A i \in 1 .. c - a : u[i] = a + i BY <2>1, <2>2, NumbersSeq
    <2> QED BY <2>1, <2>3, <2>4
  <1> HIDE DEF t, u
  <1>2. b + 1 \in Nat OBVIOUS
  <1>3. /\ Append(t, b + 1) \in Seq(Nat) /\ Len(Append(t, b + 1)) = Len(t) + 1
        /\ \A i \in 1 .. Len(t) : Append(t, b + 1)[i] = t[i]
        /\ Append(t, b + 1)[Len(t) + 1] = b + 1
    <2> DEFINE c == b + 1
    <2>1. c \in Nat BY <1>2
    <2> HIDE DEF c
    <2>2. /\ Append(t, c) \in Seq(Nat) /\ Len(Append(t, c)) = Len(t) + 1
          /\ \A i \in 1 .. Len(t) : Append(t, c)[i] = t[i]
          /\ Append(t, c)[Len(t) + 1] = c
      BY <1>1, <2>1, AppendProperties
    <2> QED BY <2>2 DEF c
  <1>4. ASSUME NEW i \in 1 .. Len(u) PROVE Append(t, b + 1)[i] = u[i]
    <2>1. CASE i = Len(t) + 1 BY <1>1, <1>3, <2>1
    <2>2. CASE i # Len(t) + 1
      <3>1. i \in 1 .. Len(t) BY <1>1, <2>2
      <3> QED BY <1>1, <1>3, <3>1
    <2> QED BY <2>1, <2>2
  <1>5. Len(Append(t, b + 1)) = Len(u) BY <1>1, <1>3
  <1> QED BY <1>1, <1>3, <1>4, <1>5, SeqEqual DEF t, u

\* What the recursion of Unread computes, one round of it.
LEMMA RowAt ==
  ASSUME RingAssumption
  PROVE  \E g : /\ Unread = g[MaxSent][Settled(read)]
                /\ \A k \in 0 .. MaxSent : \A x \in 0 .. BufLen : x = SettledWrite => g[k][x] = <<>>
                /\ \A k \in 1 .. MaxSent : \A x \in 0 .. BufLen :
                     x # SettledWrite => g[k][x] = <<At(x).sec>> \o g[k - 1][Behind(x)]
  <1> DEFINE g == CHOOSE f : f = [k \in 0 .. MaxSent |-> Row(f, k)]
  <1>1. MaxSent \in Nat BY RingNumbers
  <1>2. g = [k \in 0 .. MaxSent |-> Row(g, k)] BY <1>1, RowsDefined, Zenon
  <1>3. Unread = g[MaxSent][Settled(read)] BY Zenon DEF Unread, Row
  <1>4. ASSUME NEW k \in 0 .. MaxSent PROVE g[k] = Row(g, k)
    <2>1. [c \in 0 .. MaxSent |-> Row(g, c)][k] = Row(g, k) OBVIOUS
    <2> HIDE DEF g
    <2> QED BY <1>2, <2>1, Zenon
  <1> HIDE DEF g
  <1>5. \A k \in 0 .. MaxSent : \A x \in 0 .. BufLen : x = SettledWrite => g[k][x] = <<>>
    BY <1>4 DEF Row
  <1>6. ASSUME NEW k \in 1 .. MaxSent, NEW x \in 0 .. BufLen, x # SettledWrite
        PROVE  g[k][x] = <<At(x).sec>> \o g[k - 1][Behind(x)]
    <2>1. k \in 0 .. MaxSent /\ k # 0 BY <1>1
    <2>2. Row(g, k)[x] = <<At(x).sec>> \o g[k - 1][Behind(x)] BY <1>6, <2>1, Zenon DEF Row
    <2> QED BY <1>4, <2>1, <2>2, Zenon
  <1> QED BY <1>3, <1>5, <1>6, Zenon

\* The unread sections are all those stored and not yet accepted, in order.
LEMMA UnreadNumbers ==
  ASSUME RingAssumption, RInv
  PROVE  Unread = Numbers(got, sent)
  <1>1. PICK o : Queued(o) BY DEF RInv
  <1>2. PICK g : /\ Unread = g[MaxSent][Settled(read)]
                 /\ \A k \in 0 .. MaxSent : \A x \in 0 .. BufLen : x = SettledWrite => g[k][x] = <<>>
                 /\ \A k \in 1 .. MaxSent : \A x \in 0 .. BufLen :
                      x # SettledWrite => g[k][x] = <<At(x).sec>> \o g[k - 1][Behind(x)]
    BY RowAt
  <1>3. /\ mem \in Memory /\ got \in Nat /\ sent \in Nat /\ got <= sent /\ sent <= MaxSent
        /\ MaxSent \in Nat /\ BufLen \in Nat
    BY RingNumbers DEF RInv, TypeOK, Memory
  <1>4. Chain(mem, o, got, sent, Settled(read), SettledWrite) BY <1>1 DEF Queued
  <1>5. o[sent + 1] = SettledWrite /\ o[got + 1] = Settled(read) BY <1>4 DEF Chain
  <1>6. SettledWrite \in 0 .. BufLen BY RingNumbers DEF RInv, TypeOK, SettledWrite
  <1>7. ASSUME NEW n \in got + 1 .. sent
        PROVE  o[n] \in 0 .. BufLen /\ o[n] # SettledWrite /\ At(o[n]).sec = n /\ Behind(o[n]) = o[n + 1]
    <2>1. /\ o[n] \in Nat /\ o[n] # SettledWrite /\ Holds(mem, o[n], n)
          /\ o[n + 1] = Wrap(End(mem, o[n]), SettledWrite)
          /\ o[n] \div 4 \in Words /\ End(mem, o[n]) \in Nat /\ o[n] + 8 <= End(mem, o[n])
          /\ End(mem, o[n]) <= BufLen
      BY <1>3, <1>4, ChainEntry
    <2>2. At(o[n]) = mem[o[n] \div 4] BY <2>1 DEF At
    <2>3. Behind(o[n]) = o[n + 1] BY <2>1, <2>2 DEF Behind, Settled, Wrap, End
    <2>4. o[n] \in 0 .. BufLen BY <1>3, <2>1
    <2> QED BY <2>1, <2>2, <2>3, <2>4 DEF Holds
  <1> DEFINE Found(j) == \A k \in j .. MaxSent : g[k][o[sent + 1 - j]] = Numbers(sent - j, sent)
             T == {j \in 0 .. sent - got : ~ Found(j)}
  <1>8. ASSUME T # {} PROVE FALSE
    <2>1. PICK m \in T : \A j \in T : m <= j
      <3>1. T \subseteq Nat OBVIOUS
      <3> HIDE DEF T
      <3> QED BY <1>8, <3>1, LeastNat
    <2>2. m \in 0 .. sent - got /\ ~ Found(m) OBVIOUS
    <2>3. CASE m = 0
      <3>1. Numbers(sent, sent) = <<>> BY <1>3 DEF Numbers
      <3>2. sent + 1 - m = sent + 1 /\ sent - m = sent BY <1>3, <2>3
      <3>3. Found(m)
        <4> SUFFICES ASSUME NEW k \in m .. MaxSent PROVE g[k][o[sent + 1 - m]] = Numbers(sent - m, sent)
          OBVIOUS
        <4>1. k \in 0 .. MaxSent BY <2>3
        <4> QED BY <1>2, <1>5, <1>6, <3>1, <3>2, <4>1
      <3> QED BY <2>2, <3>3
    <2>4. CASE m # 0
      <3>1. m - 1 \in 0 .. sent - got /\ m - 1 \notin T BY <1>3, <2>1, <2>2, <2>4
      <3>2. Found(m - 1) BY <3>1
      <3> DEFINE n == sent + 1 - m
      <3>3. /\ n \in got + 1 .. sent /\ n + 1 = sent + 1 - (m - 1) /\ sent - (m - 1) = n
            /\ sent - m = n - 1 /\ n - 1 \in Nat /\ n - 1 < sent
        BY <1>3, <2>2, <2>4
      <3>4. \A k \in m - 1 .. MaxSent : g[k][o[n + 1]] = Numbers(n, sent)
        BY <3>2, <3>3
      <3> HIDE DEF n
      <3>5. <<n>> \o Numbers(n, sent) = Numbers(n - 1, sent)
        <4>1. (n - 1) + 1 = n BY <3>3
        <4>2. <<(n - 1) + 1>> \o Numbers((n - 1) + 1, sent) = Numbers(n - 1, sent) BY <1>3, <3>3, NumbersCons
        <4> QED BY <4>1, <4>2
      <3>6. ASSUME NEW k \in m .. MaxSent PROVE g[k][o[n]] = Numbers(n - 1, sent)
        <4>1. k \in 1 .. MaxSent /\ k - 1 \in m - 1 .. MaxSent BY <1>3, <2>2, <2>4
        <4>a. o[n] \in 0 .. BufLen /\ o[n] # SettledWrite /\ At(o[n]).sec = n /\ Behind(o[n]) = o[n + 1]
          BY <1>7, <3>3
        <4>b. g[k][o[n]] = <<At(o[n]).sec>> \o g[k - 1][Behind(o[n])] BY <1>2, <4>1, <4>a
        <4>2. g[k][o[n]] = <<n>> \o g[k - 1][o[n + 1]] BY <4>a, <4>b
        <4> QED BY <3>4, <3>5, <4>1, <4>2
      <3>7. Found(m) BY <3>3, <3>6 DEF n
      <3> QED BY <2>2, <3>7
    <2> QED BY <2>3, <2>4
  <1>9. Found(sent - got)
    <2>1. sent - got \in 0 .. sent - got /\ sent - got \notin T BY <1>3, <1>8
    <2> QED BY <2>1
  <1>10. sent + 1 - (sent - got) = got + 1 /\ sent - (sent - got) = got /\ MaxSent \in sent - got .. MaxSent
    BY <1>3
  <1> QED BY <1>2, <1>5, <1>9, <1>10

\* The same after a step.
LEMMA UnreadNext == RInv' => Unread' = Numbers(got', sent')
  <1> DEFINE P == Unread = Numbers(got, sent)
  <1>1. RInv => P BY RingAssumption, UnreadNumbers
  <1> HIDE DEF P
  <1>2. RInv' => P' BY <1>1, PTL
  <1> QED BY <1>2 DEF P, Numbers

\* Every step of the ring is a step of the queue, or none.
LEMMA QueueStep ==
  ASSUME RingAssumption, Settles, RInv, [Next]_vars
  PROVE  [Queue!Next]_(Queue!qvars)
  <1>1. RInv' BY RInvStep
  <1>2. got \in Nat /\ sent \in Nat /\ got <= sent /\ got' \in Nat /\ sent' \in Nat
    BY <1>1, RingNumbers DEF RInv, TypeOK
  <1>3. Unread = Numbers(got, sent) BY UnreadNumbers
  <1>4. Unread' = Numbers(got', sent') BY <1>1, UnreadNext
  <1>5. CASE OnDmxEvent
    <2>1. sent' = sent + 1 /\ got' = got BY <1>5 DEF OnDmxEvent
    <2>2. Unread' = Append(Unread, sent') BY <1>2, <1>3, <1>4, <2>1, NumbersAppend
    <2>3. Queue!Put BY <2>1, <2>2 DEF Queue!Put
    <2> QED BY <2>3 DEF Queue!Next
  <1>6. CASE Advance
    <2>1. got < sent /\ tmp = got + 1 BY <1>6 DEF RInv, Task, Advance
    <2>2. got' = got + 1 /\ sent' = sent BY <1>6, <2>1 DEF Advance
    <2>3. Unread # <<>> /\ got' = Head(Unread) /\ Unread' = Tail(Unread)
      BY <1>2, <1>3, <1>4, <2>1, <2>2, NumbersCons
    <2>4. Queue!Accept BY <2>2, <2>3 DEF Queue!Accept
    <2> QED BY <2>4 DEF Queue!Next
  <1>7. CASE Open
    <2>1. got' = sent /\ sent' = sent BY <1>7 DEF Open
    <2>2. Numbers(sent, sent) = <<>> BY <1>2 DEF Numbers
    <2>3. Queue!Drop BY <1>4, <2>1, <2>2 DEF Queue!Drop
    <2> QED BY <2>3 DEF Queue!Next
  <1>8. CASE UNCHANGED <<got, sent>>
    <2>1. Unread' = Unread BY <1>3, <1>4, <1>8
    <2> QED BY <1>8, <2>1 DEF Queue!qvars
  <1>9. OnDmxEvent \/ Advance \/ Open \/ UNCHANGED <<got, sent>>
    BY DEF Next, SieTask, Inspect, Return, Dispatch, Poll, Clear, InspectTimeout, InspectHit,
           InspectNothing, ParserReturns, ParserReturnsAborted, Take, Rewind, RewindWrite, Loop, Left,
           Finish, Abort, vars
  <1> QED BY <1>5, <1>6, <1>7, <1>8, <1>9

\* Sections reach the parser once each, whole and in order: the ring implements SectionQueue,
\* every step of the driver, of the SIE task and of the other tasks being one of the queue or
\* none.
THEOREM RingIsQueue ==
  ASSUME Settles
  PROVE  Spec => FifoDelivery
  <1>1. Init => Queue!Init
    <2> SUFFICES ASSUME Init PROVE Queue!Init OBVIOUS
    <2>1. Unread = Numbers(got, sent) BY RingAssumption, InitHolds, UnreadNumbers
    <2>2. got = 0 /\ sent = 0 /\ Numbers(0, 0) = <<>> BY DEF Init, Numbers
    <2> QED BY <2>1, <2>2 DEF Queue!Init
  <1>2. RInv /\ [Next]_vars => [Queue!Next]_(Queue!qvars)
    BY RingAssumption, QueueStep
  <1> QED BY <1>1, <1>2, RInvAlways, PTL DEF Spec, FifoDelivery, Queue!Spec
=============================================================================
