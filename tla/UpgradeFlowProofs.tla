-------------------------- MODULE UpgradeFlowProofs --------------------------
(***************************************************************************)
(* Upgrades over the air, for chunks of any lengths, any streams on air    *)
(* and any number of power failures.                                       *)
(***************************************************************************)
EXTENDS MCUpgradeFlow, SequenceTheorems, WellFoundedInduction, TLAPS
------------------------------------------------------------------------------
(***************************************************************************)
(* An upgrade loader can always be started: the loader or its backup is    *)
(* whole, whatever is being written and wherever power fails.              *)
(*                                                                         *)
(* LoaderSafe is not inductive.  Which of the two copies may be written at *)
(* a place depends on what the boot loader found and repaired before: the  *)
(* upgrade loader only runs with a whole backup (Guarded), a copy in       *)
(* progress leaves its source alone and comes from a whole one (Writing),  *)
(* and no sector of the backup ever holds another chunk's header (Shape).  *)
(***************************************************************************)

\* A copy of the upgrade loader, in memory or in flash.
Loader(m, a) == \A n \in 1 .. LoaderLen : m[a + n - 1] = Sector("loader", m[a].ver, n)

\* The backup's first sector holds a header of the loader's, or none.
Shape ==
  /\ flash = [i \in 1 .. NorSize |-> flash[i]]
  /\ flash[BackupAt].id \in {"loader", "blank"}

Rec(r) == r = [state |-> r.state, needbackup |-> r.needbackup, forbidden |-> r.forbidden,
               trigger |-> r.trigger, sw |-> r.sw, table |-> r.table]

\* Nobody has had to forbid upgrades.
Allowed ==
  /\ Rec(stb) /\ ~stb.forbidden
  /\ stored # NoRecord => Rec(stored) /\ ~stored.forbidden

\* Where the boot loader has seen to it that the backup is whole, or is about to.
Repaired == {"restored", "start", "loader", "ota", "prompt", "begin", "download", "burn", "chunks", "burnt", "done"}
Guarded ==
  /\ pc \in Repaired => Loader(flash, BackupAt)
  /\ pc = "completed" => job.then = "run" \/ (job.then = "ota" /\ Loader(flash, BackupAt))
  /\ pc = "spare" => Loader(flash, BackupAt) \/ (~seen.bad /\ seen.differ)
  /\ pc = "burn" => offer \in Streams
  /\ seen = [bad |-> seen.bad, differ |-> seen.differ, whole |-> seen.whole, back |-> seen.back]

\* What is copied: the loader to the backup, the backup to the loader, or an
\* image that ends below the backup.
ToSpare ==
  /\ job.to = BackupAt /\ DOMAIN job.src = 1 .. LoaderLen /\ Loader(job.src, 1)
  /\ job.then \in {"flagged", "start", "run"} /\ Loader(flash, 1)
  /\ \A k \in 1 .. job.n - 1 : flash[BackupAt + k - 1] = job.src[k]
FromSpare == job.to = 1 /\ DOMAIN job.src = 1 .. LoaderLen /\ job.then = "restored" /\ Loader(flash, BackupAt)
Part ==
  /\ job.to = 1 /\ (\E l \in 1 .. BackupAt - 1 : DOMAIN job.src = 1 .. l)
  /\ job.then \in {"burnt", "chunks"} /\ Loader(flash, BackupAt)

Writing ==
  /\ job = [src |-> job.src, to |-> job.to, n |-> job.n, then |-> job.then]
  /\ pc = "write" => job.n \in 1 .. Len(job.src) /\ job.src \in Seq({job.src[i] : i \in DOMAIN job.src})
                     /\ (ToSpare \/ FromSpare \/ Part)

Safe == Loader(flash, 1) \/ Loader(flash, BackupAt)

UInv == Shape /\ Allowed /\ Guarded /\ Writing /\ Safe
------------------------------------------------------------------------------
\* The backup lies behind everything that is burnt, and in the flash.
LEMMA Places ==
  /\ LoaderLen \in Nat \ {0} /\ NorSize \in Nat /\ BackupAt \in Nat
  /\ LoaderLen < BackupAt /\ BackupAt + LoaderLen - 1 = NorSize
  <1>1. 0 \in Versions /\ MainLen[0] \in Nat /\ RscLen \in Nat /\ UserLen \in Nat /\ LoaderLen \in Nat \ {0} /\ NorSize \in Nat
    BY UpgradeFlowAssumption
  <1>2. LoaderLen + MainLen[0] + RscLen + UserLen < BackupAt
    BY <1>1, UpgradeFlowAssumption
  <1> QED BY <1>1, <1>2 DEF BackupAt

\* What the boot loader's checks of the two copies say.
LEMMA WholeIsLoader ==
  ASSUME Shape
  PROVE  (LoaderWhole <=> Loader(flash, 1)) /\ (BackupWhole <=> Loader(flash, BackupAt))
  <1>1. /\ 1 \in DOMAIN flash /\ BackupAt \in DOMAIN flash
        /\ \A n \in 1 .. LoaderLen : 1 + n - 1 \in DOMAIN flash /\ BackupAt + n - 1 \in DOMAIN flash
    BY Places DEF Shape
  <1>2. \A v : Lens("loader", v) = LoaderLen
    BY DEF Lens
  <1>3. ASSUME NEW a \in {1, BackupAt}, Loader(flash, a) PROVE Whole(flash, a) /\ flash[a].id = "loader"
    <2>1. flash[a] = Sector("loader", flash[a].ver, 1)
      BY <1>3, Places DEF Loader
    <2>2. flash[a].id = "loader" /\ flash[a].part = 1
      BY <2>1 DEF Sector
    <2>3. \A n \in 1 .. LoaderLen : flash[a + n - 1] = Sector(flash[a].id, flash[a].ver, n)
      BY <1>3, <2>2 DEF Loader
    <2> QED BY <1>1, <1>2, <2>2, <2>3 DEF Whole, IsHead, Ids
  <1>4. ASSUME NEW a \in {1, BackupAt}, Whole(flash, a), flash[a].id = "loader" PROVE Loader(flash, a)
    BY <1>2, <1>4 DEF Whole, Loader
  <1>5. BackupWhole => flash[BackupAt].id = "loader"
    BY DEF BackupWhole, Whole, IsHead, Ids, Shape
  <1> QED BY <1>3, <1>4, <1>5 DEF LoaderWhole, BackupWhole

\* A sequence made by enumeration has its length.
LEMMA Enumerated ==
  ASSUME NEW l \in Nat, NEW s, s = [i \in 1 .. l |-> s[i]]
  PROVE  s \in Seq({s[i] : i \in DOMAIN s}) /\ Len(s) = l /\ DOMAIN s = 1 .. l
  <1>1. s \in [1 .. l -> {s[i] : i \in 1 .. l}] /\ DOMAIN s = 1 .. l
    OBVIOUS
  <1>2. s \in Seq({s[i] : i \in 1 .. l})
    BY <1>1, IsASeq
  <1>3. Len(s) = l
    BY <1>1, <1>2, LenProperties
  <1> QED BY <1>1, <1>2, <1>3

\* Starting a copy of the loader over the backup.
LEMMA BackupStarts ==
  ASSUME Shape, Loader(flash, 1), NEW then \in {"flagged", "start", "run"}, Backup(then), flash' = flash
  PROVE  pc' = "write" /\ Writing'
  <1>1. LoaderData = [n \in 1 .. LoaderLen |-> LoaderData[n]] /\ \A n \in 1 .. LoaderLen : LoaderData[n] = flash[n]
    BY DEF LoaderData
  <1>2. LoaderData \in Seq({LoaderData[i] : i \in DOMAIN LoaderData}) /\ Len(LoaderData) = LoaderLen
        /\ DOMAIN LoaderData = 1 .. LoaderLen
    BY <1>1, Enumerated, Places
  <1>3. Loader(LoaderData, 1)
    BY <1>1, Places DEF Loader
  <1>4. pc' = "write" /\ job' = [src |-> LoaderData, to |-> BackupAt, n |-> 1, then |-> then]
    BY DEF Backup, Copy
  <1>5. ToSpare'
    BY <1>2, <1>3, <1>4 DEF ToSpare, Loader
  <1> QED BY <1>2, <1>4, <1>5, Places DEF Writing

\* And of the backup over the loader.
LEMMA RestoreStarts ==
  ASSUME Shape, Loader(flash, BackupAt), Restore("restored"), flash' = flash
  PROVE  pc' = "write" /\ Writing'
  <1>1. BackupData = [n \in 1 .. LoaderLen |-> BackupData[n]]
    BY DEF BackupData
  <1>2. BackupData \in Seq({BackupData[i] : i \in DOMAIN BackupData}) /\ Len(BackupData) = LoaderLen
        /\ DOMAIN BackupData = 1 .. LoaderLen
    BY <1>1, Enumerated, Places
  <1>4. pc' = "write" /\ job' = [src |-> BackupData, to |-> 1, n |-> 1, then |-> "restored"]
    BY DEF Restore, Copy
  <1>5. FromSpare'
    BY <1>2, <1>4 DEF FromSpare, Loader
  <1> QED BY <1>2, <1>4, <1>5, Places DEF Writing

\* And of an image that is to be burnt.
LEMMA BurnStarts ==
  ASSUME Shape, Loader(flash, BackupAt), NEW img, NEW l \in 1 .. BackupAt - 1, img = [i \in 1 .. l |-> img[i]],
         NEW then \in {"burnt", "chunks"}, Copy(img, 1, then), flash' = flash
  PROVE  pc' = "write" /\ Writing'
  <1>1. l \in Nat \ {0}
    BY Places
  <1>2. img \in Seq({img[i] : i \in DOMAIN img}) /\ Len(img) = l /\ DOMAIN img = 1 .. l
    BY <1>1, Enumerated
  <1>4. pc' = "write" /\ job' = [src |-> img, to |-> 1, n |-> 1, then |-> then]
    BY DEF Copy
  <1>5. Part'
    BY <1>2, <1>4 DEF Part, Loader
  <1> QED BY <1>1, <1>2, <1>4, <1>5 DEF Writing
------------------------------------------------------------------------------
(* The image of a stream. *)

\* What is put behind a sequence leaves its beginning alone.
Joined(S, s, t, u) ==
  /\ u \in Seq(S) /\ Len(s) \in Nat /\ Len(t) \in Nat /\ Len(u) = Len(s) + Len(t)
  /\ \A i \in 1 .. Len(s) : u[i] = s[i]

LEMMA Joins ==
  ASSUME NEW S, NEW s \in Seq(S), NEW t \in Seq(S)
  PROVE  Joined(S, s, t, s \o t)
  <1>1. /\ s \o t \in Seq(S) /\ Len(s \o t) = Len(s) + Len(t)
        /\ \A i \in 1 .. Len(s) + Len(t) : (s \o t)[i] = IF i <= Len(s) THEN s[i] ELSE t[i - Len(s)]
    BY ConcatProperties
  <1>2. Len(s) \in Nat /\ Len(t) \in Nat
    BY LenProperties
  <1>3. \A i \in 1 .. Len(s) : i \in 1 .. Len(s) + Len(t) /\ i <= Len(s)
    BY <1>2
  <1> QED BY <1>1, <1>2, <1>3 DEF Joined

\* Four sequences in a row: their length, and the first one's place.
InRow(a, b, c, d, h) ==
  /\ h = [i \in 1 .. Len(a) + Len(b) + Len(c) + Len(d) |-> h[i]]
  /\ \A n \in 1 .. Len(a) : h[n] = a[n]

LEMMA FourChunks ==
  ASSUME NEW S, NEW a \in Seq(S), NEW b \in Seq(S), NEW c \in Seq(S), NEW d \in Seq(S)
  PROVE  InRow(a, b, c, d, a \o b \o c \o d)
  <1> DEFINE e == a \o b
             g == e \o c
             h == g \o d
  <1>1. Joined(S, a, b, e)
    BY Joins
  <1> HIDE DEF e
  <1>2. Joined(S, e, c, g)
    BY <1>1, Joins DEF Joined
  <1> HIDE DEF g
  <1>3. Joined(S, g, d, h)
    BY <1>2, Joins DEF Joined
  <1> HIDE DEF h
  <1>4. h = [i \in 1 .. Len(h) |-> h[i]]
    BY <1>3, LenProperties DEF Joined
  <1>5. Len(h) = Len(a) + Len(b) + Len(c) + Len(d)
    BY <1>1, <1>2, <1>3 DEF Joined
  <1>6. \A n \in 1 .. Len(a) : h[n] = a[n]
    <2>1. \A n \in 1 .. Len(a) : n \in 1 .. Len(e) /\ n \in 1 .. Len(g)
      BY <1>1, <1>2, <1>3 DEF Joined
    <2> QED BY <1>1, <1>2, <1>3, <2>1 DEF Joined
  <1>7. InRow(a, b, c, d, h)
    BY <1>4, <1>5, <1>6 DEF InRow
  <1> QED BY <1>7 DEF h, g, e

\* It has the length of its chunks, and begins with the loader.
LEMMA ImageShape ==
  ASSUME NEW v \in Versions, NEW user
  PROVE  \E l \in 1 .. BackupAt - 1 :
           /\ Image(v, user) = [i \in 1 .. l |-> Image(v, user)[i]]
           /\ LoaderLen <= l /\ \A n \in 1 .. LoaderLen : Image(v, user)[n] = Sector("loader", v, n)
  <1> DEFINE S == [id : Ids, ver : {v, user}, part : Nat]
             M == MainLen[v]
             A == Sectors("loader", v)
             B == Sectors("main", v)
             C == Sectors("rsc", v)
             D == Sectors("user", user)
  <1>1. LoaderLen \in Nat \ {0} /\ M \in Nat \ {0} /\ RscLen \in Nat \ {0} /\ UserLen \in Nat \ {0}
        /\ LoaderLen + M + RscLen + UserLen < BackupAt
    BY UpgradeFlowAssumption
  <1>2. /\ Lens("loader", v) = LoaderLen /\ Lens("main", v) = M
        /\ Lens("rsc", v) = RscLen /\ Lens("user", user) = UserLen
    BY DEF Lens
  <1>3. ASSUME NEW id \in Ids, NEW w \in {v, user}, NEW l \in Nat, Lens(id, w) = l
        PROVE  Sectors(id, w) \in Seq(S) /\ Len(Sectors(id, w)) = l
    <2>1. \A n \in 1 .. l : Sector(id, w, n) \in S
      BY DEF Sector
    <2>2. Sectors(id, w) = [n \in 1 .. l |-> Sector(id, w, n)] /\ Sectors(id, w) \in [1 .. l -> S]
      BY <1>3, <2>1 DEF Sectors
    <2>3. Sectors(id, w) \in Seq(S)
      BY <2>2, IsASeq
    <2> QED BY <2>2, <2>3, LenProperties
  <1>4. /\ A \in Seq(S) /\ B \in Seq(S) /\ C \in Seq(S) /\ D \in Seq(S)
        /\ Len(A) = LoaderLen /\ Len(B) = M /\ Len(C) = RscLen /\ Len(D) = UserLen
    <2> HIDE DEF S
    <2> QED BY <1>1, <1>2, <1>3 DEF Ids
  <1>5. \A n \in 1 .. LoaderLen : A[n] = Sector("loader", v, n)
    BY <1>2 DEF Sectors
  <1>6. Image(v, user) = A \o B \o C \o D
    BY DEF Image
  <1> DEFINE l == LoaderLen + M + RscLen + UserLen
             I == Image(v, user)
  <1>7. I = [i \in 1 .. l |-> I[i]] /\ \A n \in 1 .. LoaderLen : I[n] = A[n]
    <2>1. I = A \o B \o C \o D
      BY <1>6
    <2> HIDE DEF S, A, B, C, D, I, M
    <2>2. InRow(A, B, C, D, I)
      BY <1>4, <2>1, FourChunks
    <2> QED BY <1>4, <2>2 DEF InRow
  <1>8. l \in 1 .. BackupAt - 1 /\ LoaderLen <= l
    <2> HIDE DEF M
    <2> QED BY <1>1, Places
  <1> HIDE DEF l
  <1> QED BY <1>5, <1>7, <1>8

\* The user data kept change nothing of its length.
LEMMA KeptShape ==
  ASSUME NEW l, NEW img, img = [i \in 1 .. l |-> img[i]]
  PROVE  Kept(img) = [i \in 1 .. l |-> Kept(img)[i]]
  <1> DEFINE m == Buffer(img)
             old == OldUser(m)
             new == Found(img, "user")
             K(i) == IF i \in new .. new + UserLen - 1
                     THEN IF old + i - new \in DOMAIN m THEN m[old + i - new] ELSE Junk
                     ELSE img[i]
  <1>1. Kept(img) = [i \in DOMAIN img |-> K(i)] \/ Kept(img) = img
    BY DEF Kept
  <1> HIDE DEF K
  <1>2. DOMAIN img = 1 .. l
    OBVIOUS
  <1> QED BY <1>1, <1>2
------------------------------------------------------------------------------
(* The flash while it is written. *)

LEMMA SameLength ==
  ASSUME NEW k \in Nat, NEW l \in Nat, 1 .. k = 1 .. l PROVE k = l
  <1>1. (k >= 1 => k \in 1 .. l) /\ (l >= 1 => l \in 1 .. k)
    OBVIOUS
  <1> QED BY <1>1

\* A step of a copy leaves the other copy of the loader alone.
LEMMA WriteFrame ==
  ASSUME Shape, Writing, pc = "write", NEW x, flash' = [flash EXCEPT ![Here] = x],
         ToSpare /\ Here = BackupAt => x.id \in {"loader", "blank"}
  PROVE  /\ Shape' /\ (ToSpare => Loader(flash', 1)) /\ (FromSpare \/ Part => Loader(flash', BackupAt))
         /\ ToSpare => \A k \in 1 .. job.n - 1 : flash'[BackupAt + k - 1] = job.src[k]
  <1>1. job.n \in 1 .. Len(job.src) /\ job.src \in Seq({job.src[i] : i \in DOMAIN job.src})
    BY DEF Writing
  <1>6. DOMAIN flash = 1 .. NorSize /\ flash' = [i \in 1 .. NorSize |-> flash'[i]]
        /\ (Here \in 1 .. NorSize => flash'[Here] = x)
    BY DEF Shape
  <1>2. Len(job.src) \in Nat /\ DOMAIN job.src = 1 .. Len(job.src)
    BY <1>1, LenProperties
  <1>3. \A i \in 1 .. NorSize : i # Here => flash'[i] = flash[i]
    BY <1>6
  <1>4. CASE ToSpare
    <2>0. Len(job.src) = LoaderLen
      BY <1>2, <1>4, SameLength, Places DEF ToSpare
    <2>1. Here \in BackupAt .. NorSize /\ \A k \in 1 .. job.n - 1 : BackupAt + k - 1 # Here /\ BackupAt + k - 1 \in 1 .. NorSize
      BY <1>1, <1>2, <1>4, <2>0, Places DEF Here, ToSpare
    <2>2. Shape'
      BY <1>3, <1>4, <1>6, Places DEF Shape
    <2>3. Loader(flash', 1)
      BY <1>3, <1>4, <2>1, Places DEF ToSpare, Loader
    <2>4. \A k \in 1 .. job.n - 1 : flash'[BackupAt + k - 1] = job.src[k]
      BY <1>3, <1>4, <2>1 DEF ToSpare
    <2>5. ~FromSpare /\ ~Part
      BY <1>4, Places DEF ToSpare, FromSpare, Part
    <2> QED BY <2>2, <2>3, <2>4, <2>5
  <1>5. CASE FromSpare \/ Part
    <2>0. Len(job.src) \in 1 .. BackupAt - 1
      <3>1. PICK l \in 1 .. BackupAt - 1 : DOMAIN job.src = 1 .. l
        BY <1>5, Places DEF FromSpare, Part
      <3> QED BY <1>2, <3>1, SameLength, Places
    <2>1. Here \in 1 .. BackupAt - 1
      BY <1>1, <1>2, <1>5, <2>0, Places DEF Here, FromSpare, Part
    <2>2. Shape'
      BY <1>3, <1>6, <2>1, Places DEF Shape
    <2>3. Loader(flash', BackupAt)
      BY <1>3, <1>5, <2>1, Places DEF FromSpare, Part, Loader
    <2>4. ~ToSpare
      BY <1>5, Places DEF ToSpare, FromSpare, Part
    <2> QED BY <2>2, <2>3, <2>4
  <1> QED BY <1>4, <1>5 DEF Writing

\* A step that neither writes nor starts to.
LEMMA Quiet ==
  ASSUME UInv, flash' = flash, NEW t, job' = [NoJob EXCEPT !.then = t], pc' # "write"
  PROVE  /\ Shape' /\ Safe' /\ Writing' /\ job'.then = t
         /\ (Loader(flash, 1)' <=> Loader(flash, 1)) /\ (Loader(flash, BackupAt)' <=> Loader(flash, BackupAt))
  <1>1. (Loader(flash, 1)' <=> Loader(flash, 1)) /\ (Loader(flash, BackupAt)' <=> Loader(flash, BackupAt))
    BY DEF Loader
  <1>2. Shape' /\ Safe'
    BY <1>1 DEF UInv, Shape, Safe
  <1>3. Writing' /\ job'.then = t
    BY DEF Writing, NoJob
  <1> QED BY <1>1, <1>2, <1>3

LEMMA QuietMove ==
  ASSUME UInv, flash' = flash, NEW p, Goes(p), p # "write"
  PROVE  /\ Shape' /\ Safe' /\ Writing' /\ pc' = p
         /\ (Loader(flash, 1)' <=> Loader(flash, 1)) /\ (Loader(flash, BackupAt)' <=> Loader(flash, BackupAt))
  <1>1. job' = [NoJob EXCEPT !.then = "off"] /\ pc' = p
    BY DEF Goes, NoJob
  <1> QED BY <1>1, Quiet

\* What is saved has not been forbidden anything either.
LEMMA Saved ==
  ASSUME Allowed, Rec(stb'), ~stb'.forbidden, stored' = stored \/ Save
  PROVE  Allowed'
  BY DEF Allowed, Save, Rec

\* A loader or a backup that is being written comes from the other one.
LEMMA WritingIsSafe ==
  ASSUME Writing', pc' = "write" PROVE Safe'
  BY DEF Writing, ToSpare, FromSpare, Part, Safe

\* Neither does the writing of a sector.
LEMMA HeadIsLoader ==
  ASSUME Writing, pc = "write", ToSpare, Here = BackupAt
  PROVE  job.src[job.n] = Sector("loader", job.src[1].ver, 1)
  <1>1. job.n \in Nat
    <2>1. Len(job.src) \in Nat
      BY LenProperties DEF Writing
    <2> QED BY <2>1 DEF Writing
  <1>2. job.n = 1
    BY <1>1, Places DEF Here, ToSpare
  <1> QED BY <1>2, Places DEF ToSpare, Loader

LEMMA WriteKeeps ==
  ASSUME UInv, pc = "write", NEW x, flash' = [flash EXCEPT ![Here] = x],
         ToSpare /\ Here = BackupAt => x.id \in {"loader", "blank"}
  PROVE  Shape' /\ Safe' /\ (UNCHANGED <<pc, job>> => Writing')
  <1>1. /\ Shape' /\ (ToSpare => Loader(flash', 1)) /\ (FromSpare \/ Part => Loader(flash', BackupAt))
        /\ ToSpare => \A k \in 1 .. job.n - 1 : flash'[BackupAt + k - 1] = job.src[k]
    BY WriteFrame DEF UInv
  <1>2. ToSpare \/ FromSpare \/ Part
    BY DEF UInv, Writing
  <1>3. Loader(flash, 1)' = Loader(flash', 1) /\ Loader(flash, BackupAt)' = Loader(flash', BackupAt)
    BY DEF Loader
  <1>4. Safe'
    BY <1>1, <1>2, <1>3 DEF Safe
  <1>5. ASSUME UNCHANGED <<pc, job>> PROVE Writing'
    <2>1. CASE ToSpare
      BY <1>1, <1>3, <1>5, <2>1 DEF UInv, Writing, ToSpare
    <2>2. CASE FromSpare
      BY <1>1, <1>3, <1>5, <2>2 DEF UInv, Writing, FromSpare
    <2>3. CASE Part
      BY <1>1, <1>3, <1>5, <2>3 DEF UInv, Writing, Part
    <2> QED BY <1>2, <2>1, <2>2, <2>3
  <1> QED BY <1>1, <1>4, <1>5
------------------------------------------------------------------------------
\* Writing, a sector at a time.
LEMMA VerifiedKeeps ==
  ASSUME UInv, Verified PROVE UInv'
  <1>1. /\ pc = "write" /\ flash[Here] = job.src[job.n] /\ flash' = flash
        /\ UNCHANGED <<stored, stb, own, seen, offer>>
        /\ job' = [job EXCEPT !.n = @ + 1] /\ pc' = IF job.n = Len(job.src) THEN job.then ELSE pc
    BY DEF Verified, Differs
  <1>2. job.n \in 1 .. Len(job.src) /\ job.src \in Seq({job.src[i] : i \in DOMAIN job.src})
        /\ (ToSpare \/ FromSpare \/ Part)
    BY <1>1 DEF UInv, Writing
  <1>3. Len(job.src) \in Nat /\ DOMAIN job.src = 1 .. Len(job.src)
    BY <1>2, LenProperties
  <1>4. job' = [src |-> job.src, to |-> job.to, n |-> job.n + 1, then |-> job.then]
    BY <1>1 DEF UInv, Writing
  <1>5. (Loader(flash, 1)' <=> Loader(flash, 1)) /\ (Loader(flash, BackupAt)' <=> Loader(flash, BackupAt))
    BY <1>1 DEF Loader
  <1>0. ASSUME ToSpare, NEW k \in 1 .. job.n PROVE flash[BackupAt + k - 1] = job.src[k]
    <2>1. CASE k = job.n
      BY <1>0, <1>1, <2>1 DEF ToSpare, Here
    <2>2. CASE k # job.n
      <3>1. k \in 1 .. job.n - 1
        BY <1>2, <1>3, <2>2
      <3> QED BY <1>0, <3>1 DEF ToSpare
    <2> QED BY <2>1, <2>2
  <1>6. Shape' /\ Safe' /\ Allowed'
    BY <1>1, <1>5 DEF UInv, Shape, Safe, Allowed, Rec
  <1>7. /\ ToSpare => ToSpare'
        /\ FromSpare => FromSpare'
        /\ Part => Part'
    <2>1. ASSUME ToSpare PROVE ToSpare'
      <3>1. job'.src = job.src /\ job'.to = job.to /\ job'.then = job.then /\ job'.n = job.n + 1
        BY <1>4
      <3>2. \A k \in 1 .. job'.n - 1 : k \in 1 .. job.n
        BY <1>2, <1>3, <3>1
      <3>3. Loader(job.src, 1)'
        BY <2>1, <3>1 DEF ToSpare, Loader
      <3> QED BY <1>0, <1>1, <1>5, <2>1, <3>1, <3>2, <3>3 DEF ToSpare
    <2>2. ToSpare => ToSpare'
      BY <2>1
    <2> QED BY <1>1, <1>4, <1>5, <2>2 DEF FromSpare, Part
  <1>8. Writing'
    <2>1. CASE job.n = Len(job.src)
      <3>1. pc' # "write"
        BY <1>1, <1>2, <2>1 DEF ToSpare, FromSpare, Part
      <3> QED BY <1>4, <3>1 DEF Writing
    <2>2. CASE job.n # Len(job.src)
      <3>1. job.n + 1 \in 1 .. Len(job.src)
        BY <1>2, <1>3, <2>2
      <3> QED BY <1>2, <1>4, <1>7, <3>1 DEF Writing
    <2> QED BY <2>1, <2>2
  <1>9. Guarded'
    <2>1. CASE job.n # Len(job.src)
      <3>1. pc' = "write"
        BY <1>1, <2>1
      <3> QED BY <1>1, <3>1 DEF UInv, Guarded, Repaired
    <2>2. CASE job.n = Len(job.src) /\ ToSpare
      <3>1. Len(job.src) = LoaderLen
        BY <1>3, <2>2, SameLength, Places DEF ToSpare
      <3>2. \A k \in 1 .. LoaderLen : flash[BackupAt + k - 1] = job.src[k]
        BY <1>0, <2>2, <3>1
      <3>3. Loader(flash, BackupAt)
        <4>1. flash[BackupAt] = job.src[1]
          BY <3>2, Places
        <4>2. \A k \in 1 .. LoaderLen : job.src[k] = Sector("loader", job.src[1].ver, k)
          BY <2>2, Places DEF ToSpare, Loader
        <4> QED BY <3>2, <4>1, <4>2 DEF Loader
      <3>4. pc' \in {"flagged", "start", "run"}
        BY <1>1, <2>2 DEF ToSpare
      <3> QED BY <1>1, <1>5, <3>3, <3>4 DEF UInv, Guarded, Repaired
    <2>3. CASE job.n = Len(job.src) /\ (FromSpare \/ Part)
      <3>1. Loader(flash, BackupAt) /\ pc' \in {"restored", "burnt", "chunks"}
        BY <1>1, <2>3 DEF FromSpare, Part
      <3> QED BY <1>1, <1>5, <3>1 DEF UInv, Guarded, Repaired
    <2> QED BY <1>2, <2>1, <2>2, <2>3
  <1> QED BY <1>6, <1>8, <1>9 DEF UInv

LEMMA EraseKeeps ==
  ASSUME UInv, Erase PROVE UInv'
  <1>1. pc = "write" /\ flash' = [flash EXCEPT ![Here] = Blank] /\ UNCHANGED <<stored, pc, ram>>
    BY DEF Erase
  <1>2. Shape' /\ Safe' /\ Writing'
    BY <1>1, WriteKeeps DEF Blank, Sector, ram
  <1>3. Allowed' /\ Guarded'
    BY <1>1 DEF UInv, Allowed, Rec, Guarded, Repaired, ram
  <1> QED BY <1>2, <1>3 DEF UInv

LEMMA FillKeeps ==
  ASSUME UInv, Fill PROVE UInv'
  <1>1. pc = "write" /\ flash' = [flash EXCEPT ![Here] = job.src[job.n]] /\ UNCHANGED <<stored, pc, ram>>
    BY DEF Fill
  <1>2. ToSpare /\ Here = BackupAt => job.src[job.n].id = "loader"
    BY <1>1, HeadIsLoader DEF UInv, Sector
  <1>3. Shape' /\ Safe' /\ Writing'
    BY <1>1, <1>2, WriteKeeps DEF ram
  <1>4. Allowed' /\ Guarded'
    BY <1>1 DEF UInv, Allowed, Rec, Guarded, Repaired, ram
  <1> QED BY <1>3, <1>4 DEF UInv

LEMMA PowerOffKeeps ==
  ASSUME UInv, PowerOff PROVE UInv'
  <1>1. /\ flash' \in Torn /\ pc' = "off" /\ job' = NoJob /\ stb' = Default /\ own' = FALSE
        /\ seen' = Unseen /\ offer' = NoOffer /\ UNCHANGED stored
    BY DEF PowerOff, Reboot, Goes
  <1>2. Shape' /\ Safe'
    <2>1. CASE flash' = flash
      BY <2>1 DEF UInv, Shape, Safe, Loader
    <2>2. CASE /\ pc = "write" /\ IsHead(job.src[job.n])
               /\ flash' = [flash EXCEPT ![Here] = [job.src[job.n] EXCEPT !.part = 0]]
      <3>1. ToSpare /\ Here = BackupAt => [job.src[job.n] EXCEPT !.part = 0].id = "loader"
        BY <2>2, HeadIsLoader DEF UInv, Sector
      <3> QED BY <2>2, <3>1, WriteKeeps
    <2> QED BY <1>1, <2>1, <2>2 DEF Torn
  <1>3. Allowed' /\ Guarded' /\ Writing'
    BY <1>1 DEF UInv, Allowed, Rec, Default, Guarded, Repaired, Unseen, Writing, NoJob
  <1> QED BY <1>2, <1>3 DEF UInv
------------------------------------------------------------------------------
\* The boot loader.
LEMMA LoadsRecord ==
  ASSUME NEW r, Loads(r) PROVE r # NoRecord
  BY DEF Loads

LEMMA PowerOnKeeps ==
  ASSUME UInv, PowerOn PROVE UInv'
  <1>1. /\ flash' = flash /\ stored' = stored /\ offer' = offer
        /\ stb' = (IF own' THEN stored ELSE Default) /\ (own' => stored # NoRecord)
        /\ seen' = [Unseen EXCEPT !.whole = CrcOk]
        /\ (LoaderWhole /\ Backup("flagged")) \/ Goes("flagged") \/ Goes("decide")
    BY LoadsRecord DEF PowerOn
  <1>2. Allowed'
    BY <1>1 DEF UInv, Allowed, Rec, Default
  <1>3. CASE LoaderWhole /\ Backup("flagged")
    <2>1. pc' = "write" /\ Writing'
      BY <1>1, <1>3, WholeIsLoader, BackupStarts DEF UInv
    <2>2. Shape' /\ Safe'
      BY <1>1, <2>1, WritingIsSafe DEF UInv, Shape
    <2>3. Guarded'
      BY <1>1, <2>1 DEF Guarded, Repaired, Unseen
    <2> QED BY <1>2, <2>1, <2>2, <2>3 DEF UInv
  <1>4. ASSUME NEW p \in {"flagged", "decide"}, Goes(p) PROVE UInv'
    <2>1. Shape' /\ Safe' /\ Writing' /\ pc' = p
      BY <1>1, <1>4, QuietMove
    <2>2. Guarded'
      BY <1>1, <2>1 DEF Guarded, Repaired, Unseen
    <2> QED BY <1>2, <2>1, <2>2 DEF UInv
  <1> QED BY <1>1, <1>3, <1>4

LEMMA FlaggedKeeps ==
  ASSUME UInv, Flagged PROVE UInv'
  <1>1. /\ Goes("decide") /\ flash' = flash /\ seen' = seen /\ Save
        /\ stb' = [stb EXCEPT !.needbackup = FALSE]
    BY DEF Flagged
  <1>2. Shape' /\ Safe' /\ Writing' /\ pc' = "decide"
    BY <1>1, QuietMove
  <1>3. Rec(stb') /\ ~stb'.forbidden
    BY <1>1 DEF UInv, Allowed, Rec
  <1>4. Allowed' /\ Guarded'
    BY <1>1, <1>2, <1>3, Saved DEF UInv, Guarded, Repaired
  <1> QED BY <1>2, <1>4 DEF UInv

LEMMA DecideKeeps ==
  ASSUME UInv, Decide PROVE UInv'
  <1>1. /\ flash' = flash /\ stored' = stored /\ seen' = seen
        /\ Goes("main") \/ Goes("dead") \/ Goes("enter")
    BY DEF Decide, StartMain
  <1>2. \E key \in BOOLEAN : stb' = [stb EXCEPT !.trigger = Trigger(key)]
    BY DEF Decide, UInv, Allowed
  <1>3. PICK p \in {"main", "dead", "enter"} : Goes(p)
    BY <1>1
  <1>4. Shape' /\ Safe' /\ Writing' /\ pc' = p
    BY <1>1, <1>3, QuietMove
  <1>5. Rec(stb') /\ ~stb'.forbidden
    BY <1>2 DEF UInv, Allowed, Rec
  <1>6. Allowed' /\ Guarded'
    BY <1>1, <1>4, <1>5, Saved DEF UInv, Guarded, Repaired
  <1> QED BY <1>4, <1>6 DEF UInv

LEMMA EnterKeeps ==
  ASSUME UInv, Enter PROVE UInv'
  <1>1. (LoaderWhole <=> Loader(flash, 1)) /\ (BackupWhole <=> Loader(flash, BackupAt))
    BY WholeIsLoader DEF UInv
  <1>2. LoaderWhole \/ BackupWhole
    BY <1>1 DEF UInv, Safe
  <1>3. /\ flash' = flash /\ UNCHANGED <<stb, stored>>
        /\ seen' = [seen EXCEPT !.bad = ~LoaderWhole, !.differ = ~BackupWhole \/ flash[1] # flash[BackupAt]]
        /\ (BackupWhole /\ Restore("restored")) \/ Goes("spare")
    BY <1>2 DEF Enter
  <1>4. /\ seen'.bad = ~LoaderWhole /\ (~BackupWhole => seen'.differ)
        /\ seen' = [bad |-> seen'.bad, differ |-> seen'.differ, whole |-> seen'.whole, back |-> seen'.back]
    BY <1>3 DEF UInv, Guarded
  <1>5. Allowed'
    BY <1>3 DEF UInv, Allowed, Rec
  <1>6. CASE BackupWhole /\ Restore("restored")
    <2>1. pc' = "write" /\ Writing'
      BY <1>1, <1>3, <1>6, RestoreStarts DEF UInv
    <2>2. Shape' /\ Safe'
      BY <1>3, <2>1, WritingIsSafe DEF UInv, Shape
    <2>3. Guarded'
      BY <1>4, <2>1 DEF Guarded, Repaired
    <2> QED BY <1>5, <2>1, <2>2, <2>3 DEF UInv
  <1>7. CASE Goes("spare")
    <2>1. Shape' /\ Safe' /\ Writing' /\ pc' = "spare" /\ (Loader(flash, BackupAt)' <=> Loader(flash, BackupAt))
      BY <1>3, <1>7, QuietMove
    <2>2. Loader(flash, BackupAt)' \/ (~seen'.bad /\ seen'.differ)
      BY <1>1, <1>2, <1>4, <2>1
    <2>3. Guarded'
      BY <1>4, <2>1, <2>2 DEF Guarded, Repaired
    <2> QED BY <1>5, <2>1, <2>3 DEF UInv
  <1> QED BY <1>3, <1>6, <1>7

LEMMA RestoredKeeps ==
  ASSUME UInv, Restored PROVE UInv'
  <1>1. /\ Goes("spare") /\ flash' = flash /\ stored' = stored /\ pc = "restored"
        /\ stb' = [stb EXCEPT !.needbackup = FALSE]
        /\ \E b : seen' = [seen EXCEPT !.back = b]
    BY DEF Restored
  <1>2. Shape' /\ Safe' /\ Writing' /\ pc' = "spare" /\ (Loader(flash, BackupAt)' <=> Loader(flash, BackupAt))
    BY <1>1, QuietMove
  <1>3. Allowed'
    BY <1>1 DEF UInv, Allowed, Rec
  <1>4. Guarded'
    <2>1. Loader(flash, BackupAt)
      BY <1>1 DEF UInv, Guarded, Repaired
    <2>2. seen' = [bad |-> seen'.bad, differ |-> seen'.differ, whole |-> seen'.whole, back |-> seen'.back]
      BY <1>1 DEF UInv, Guarded
    <2> QED BY <1>2, <2>1, <2>2 DEF Guarded, Repaired
  <1> QED BY <1>2, <1>3, <1>4 DEF UInv

LEMMA SpareKeeps ==
  ASSUME UInv, Spare PROVE UInv'
  <1>1. /\ flash' = flash /\ UNCHANGED <<stb, stored, seen, offer>> /\ pc = "spare"
        /\ \/ LoaderWhole /\ Backup("start")
           \/ Goes("dead")
           \/ ~(~seen.bad /\ seen.differ) /\ Goes("start")
    BY DEF Spare
  <1>2. Allowed'
    BY <1>1 DEF UInv, Allowed, Rec
  <1>3. CASE LoaderWhole /\ Backup("start")
    <2>1. pc' = "write" /\ Writing'
      BY <1>1, <1>3, WholeIsLoader, BackupStarts DEF UInv
    <2>2. Shape' /\ Safe'
      BY <1>1, <2>1, WritingIsSafe DEF UInv, Shape
    <2>3. Guarded'
      BY <1>1, <2>1 DEF UInv, Guarded, Repaired
    <2> QED BY <1>2, <2>1, <2>2, <2>3 DEF UInv
  <1>4. CASE Goes("dead")
    <2>1. Shape' /\ Safe' /\ Writing' /\ pc' = "dead"
      BY <1>1, <1>4, QuietMove
    <2>2. Guarded'
      BY <1>1, <2>1 DEF UInv, Guarded, Repaired
    <2> QED BY <1>2, <2>1, <2>2 DEF UInv
  <1>5. CASE ~(~seen.bad /\ seen.differ) /\ Goes("start")
    <2>1. Shape' /\ Safe' /\ Writing' /\ pc' = "start" /\ (Loader(flash, BackupAt)' <=> Loader(flash, BackupAt))
      BY <1>1, <1>5, QuietMove
    <2>2. Guarded'
      BY <1>1, <1>5, <2>1 DEF UInv, Guarded, Repaired
    <2> QED BY <1>2, <2>1, <2>2 DEF UInv
  <1> QED BY <1>1, <1>3, <1>4, <1>5

LEMMA StartKeeps ==
  ASSUME UInv, Start PROVE UInv'
  <1>1. /\ flash' = flash /\ UNCHANGED <<stb, seen>> /\ Save /\ pc = "start"
        /\ Goes("main") \/ Goes("loader") \/ Goes("dead")
    BY DEF Start
  <1>2. PICK p \in {"main", "loader", "dead"} : Goes(p)
    BY <1>1
  <1>3. Shape' /\ Safe' /\ Writing' /\ pc' = p /\ (Loader(flash, BackupAt)' <=> Loader(flash, BackupAt))
    BY <1>1, <1>2, QuietMove
  <1>4. Rec(stb') /\ ~stb'.forbidden
    BY <1>1 DEF UInv, Allowed, Rec
  <1>5. Allowed' /\ Guarded'
    BY <1>1, <1>3, <1>4, Saved DEF UInv, Guarded, Repaired
  <1> QED BY <1>3, <1>5 DEF UInv
------------------------------------------------------------------------------
\* Settings at the start of an application.
LEMMA FactoryInitKeeps ==
  ASSUME UInv, FactoryInit PROVE UInv'
  <1>1. /\ flash' = flash /\ seen' = seen /\ Save
        /\ stb' = [Default EXCEPT !.table = Scanned(<<>>)]
        /\ \/ LoaderWhole /\ Backup("run")
           \/ Goes("run")
           \/ pc = "loader" /\ Goes("ota")
    BY DEF FactoryInit
  <1>2. Rec(stb') /\ ~stb'.forbidden
    BY <1>1 DEF Rec, Default
  <1>3. Allowed'
    BY <1>1, <1>2, Saved DEF UInv
  <1>4. CASE LoaderWhole /\ Backup("run")
    <2>1. pc' = "write" /\ Writing'
      BY <1>1, <1>4, WholeIsLoader, BackupStarts DEF UInv
    <2>2. Shape' /\ Safe'
      BY <1>1, <2>1, WritingIsSafe DEF UInv, Shape
    <2>3. Guarded'
      BY <1>1, <2>1 DEF UInv, Guarded, Repaired
    <2> QED BY <1>3, <2>1, <2>2, <2>3 DEF UInv
  <1>5. ASSUME NEW p \in {"run", "ota"}, Goes(p), p = "ota" => pc = "loader" PROVE UInv'
    <2>1. Shape' /\ Safe' /\ Writing' /\ pc' = p /\ (Loader(flash, BackupAt)' <=> Loader(flash, BackupAt))
      BY <1>1, <1>5, QuietMove
    <2>2. Guarded'
      BY <1>1, <1>5, <2>1 DEF UInv, Guarded, Repaired
    <2> QED BY <1>3, <2>1, <2>2 DEF UInv
  <1> QED BY <1>1, <1>4, <1>5

LEMMA CompleteKeeps ==
  ASSUME UInv, Complete PROVE UInv'
  <1>1. /\ flash' = flash /\ seen' = seen /\ Save /\ stored # NoRecord /\ pc \in {"main", "loader"}
        /\ stb' = [stored EXCEPT !.table = Scanned(@)]
        /\ pc' = "completed" /\ job' = [NoJob EXCEPT !.then = IF pc = "main" THEN "run" ELSE "ota"]
    BY LoadsRecord DEF Complete
  <1>2. /\ Shape' /\ Safe' /\ Writing' /\ job'.then = (IF pc = "main" THEN "run" ELSE "ota")
        /\ (Loader(flash, BackupAt)' <=> Loader(flash, BackupAt))
    BY <1>1, Quiet
  <1>3. Rec(stb') /\ ~stb'.forbidden
    BY <1>1 DEF UInv, Allowed, Rec
  <1>4. Allowed' /\ Guarded'
    BY <1>1, <1>2, <1>3, Saved DEF UInv, Guarded, Repaired
  <1> QED BY <1>2, <1>4 DEF UInv

LEMMA CompletedKeeps ==
  ASSUME UInv, Completed PROVE UInv'
  <1>1. /\ flash' = flash /\ seen' = seen /\ Save /\ pc = "completed" /\ Goes(job.then)
        /\ stb' = [stb EXCEPT !.state = "normal"]
    BY DEF Completed
  <1>2. job.then = "run" \/ (job.then = "ota" /\ Loader(flash, BackupAt))
    BY <1>1 DEF UInv, Guarded
  <1>3. Shape' /\ Safe' /\ Writing' /\ pc' = job.then /\ (Loader(flash, BackupAt)' <=> Loader(flash, BackupAt))
    BY <1>1, <1>2, QuietMove
  <1>4. Rec(stb') /\ ~stb'.forbidden
    BY <1>1 DEF UInv, Allowed, Rec
  <1>5. Allowed' /\ Guarded'
    BY <1>1, <1>2, <1>3, <1>4, Saved DEF UInv, Guarded, Repaired
  <1> QED BY <1>3, <1>5 DEF UInv

LEMMA LoadSettingsKeeps ==
  ASSUME UInv, LoadSettings PROVE UInv'
  <1>1. /\ flash' = flash /\ UNCHANGED <<stored, seen>> /\ stored # NoRecord /\ stb' = stored
        /\ \E p \in {"run", "ota"} : Goes(p) /\ (p = "ota" => pc = "loader")
    BY LoadsRecord DEF LoadSettings, Load
  <1>2. PICK p \in {"run", "ota"} : Goes(p) /\ (p = "ota" => pc = "loader")
    BY <1>1
  <1>3. Shape' /\ Safe' /\ Writing' /\ pc' = p /\ (Loader(flash, BackupAt)' <=> Loader(flash, BackupAt))
    BY <1>1, <1>2, QuietMove
  <1>4. Allowed' /\ Guarded'
    BY <1>1, <1>2, <1>3 DEF UInv, Allowed, Rec, Guarded, Repaired
  <1> QED BY <1>3, <1>4 DEF UInv

\* Reboots: asked for by the main application, or by the user of the loader.
LEMMA RebootKeeps ==
  ASSUME UInv, Reboot, flash' = flash, stored' = stored \/ (\E t : stored' = [stb EXCEPT !.trigger = t])
  PROVE  UInv'
  <1>1. Goes("off") /\ stb' = Default /\ seen' = Unseen
    BY DEF Reboot
  <1>2. Shape' /\ Safe' /\ Writing' /\ pc' = "off"
    BY <1>1, QuietMove
  <1>3. Allowed' /\ Guarded'
    BY <1>1, <1>2 DEF UInv, Allowed, Rec, Default, Guarded, Repaired, Unseen
  <1> QED BY <1>2, <1>3 DEF UInv
------------------------------------------------------------------------------
\* The upgrade loader, except where it starts to burn.
LEMMA LoaderMoves ==
  ASSUME UInv, flash' = flash, seen' = seen, pc \in Repaired, NEW p \in {"prompt", "begin", "download", "burn", "burnt", "done", "dead"}, Goes(p),
         Rec(stb'), ~stb'.forbidden, stored' = stored \/ Save, p = "burn" => offer' \in Streams
  PROVE  UInv'
  <1>1. Shape' /\ Safe' /\ Writing' /\ pc' = p /\ (Loader(flash, BackupAt)' <=> Loader(flash, BackupAt))
    BY QuietMove
  <1>2. Allowed'
    BY Saved DEF UInv
  <1>3. Guarded'
    BY <1>1 DEF UInv, Guarded, Repaired
  <1> QED BY <1>1, <1>2, <1>3 DEF UInv

LEMMA LoaderKeeps ==
  ASSUME UInv, Ota \/ Confirm \/ Cancel \/ Begin \/ NoDownload \/ Download \/ UpdatePart \/ Burnt \/ Done
  PROVE  UInv'
  <1> DEFINE Moved == flash' = flash /\ seen' = seen /\ (stored' = stored \/ Save)
  <1>1. Rec(stb) /\ ~stb.forbidden
    BY DEF UInv, Allowed
  <1>2. CASE Ota
    <2>1. /\ Moved /\ pc = "ota" /\ stb' = stb
          /\ \E p \in {"prompt", "begin"} : Goes(p)
      BY <1>2 DEF Ota
    <2> QED BY <1>1, <2>1, LoaderMoves DEF Repaired, Rec
  <1>3. CASE Confirm
    <2>1. Moved /\ pc = "prompt" /\ stb' = stb /\ Goes("begin")
      BY <1>3 DEF Confirm
    <2> QED BY <1>1, <2>1, LoaderMoves DEF Repaired, Rec
  <1>4. CASE Cancel
    BY <1>4, RebootKeeps DEF Cancel
  <1>5. CASE Begin
    <2>1. Moved /\ pc = "begin" /\ stb' = [stb EXCEPT !.trigger = "none"] /\ Goes("download")
      BY <1>5 DEF Begin
    <2>2. Rec(stb') /\ ~stb'.forbidden
      BY <1>1, <2>1 DEF Rec
    <2> QED BY <2>1, <2>2, LoaderMoves DEF Repaired
  <1>6. CASE NoDownload
    <2>1. Moved /\ pc = "download" /\ stb' = stb /\ Goes("prompt")
      BY <1>6 DEF NoDownload
    <2> QED BY <1>1, <2>1, LoaderMoves DEF Repaired, Rec
  <1>7. CASE Download
    <2>1. Moved /\ pc = "download" /\ stb' = [stb EXCEPT !.state = "preburn"] /\ Goes("burn") /\ offer' \in Streams
      BY <1>7 DEF Download
    <2>2. Rec(stb') /\ ~stb'.forbidden
      BY <1>1, <2>1 DEF Rec
    <2> QED BY <2>1, <2>2, LoaderMoves DEF Repaired
  <1>8. CASE UpdatePart
    <2>1. Moved /\ pc = "chunks" /\ stb' = [stb EXCEPT !.table = NewTable] /\ Goes("burnt")
      BY <1>8 DEF UpdatePart
    <2>2. Rec(stb') /\ ~stb'.forbidden
      BY <1>1, <2>1 DEF Rec
    <2> QED BY <2>1, <2>2, LoaderMoves DEF Repaired
  <1>9. CASE Burnt
    <2>1. /\ Moved /\ pc = "burnt" /\ Goes("done")
          /\ \/ stb' = [stb EXCEPT !.sw = offer.sw, !.state = "reset", !.table = <<>>]
             \/ stb' = [stb EXCEPT !.sw = offer.sw, !.state = "normal"]
      BY <1>9 DEF Burnt
    <2>2. Rec(stb') /\ ~stb'.forbidden
      BY <1>1, <2>1 DEF Rec
    <2> QED BY <2>1, <2>2, LoaderMoves DEF Repaired
  <1>10. CASE Done
    <2>1. CASE Reboot
      BY <1>10, <2>1, RebootKeeps DEF Done
    <2>2. CASE Goes("dead") /\ UNCHANGED <<stb, own, seen, offer>>
      <3>1. Moved /\ pc = "done" /\ stb' = stb /\ Goes("dead")
        BY <1>10, <2>2 DEF Done
      <3> QED BY <1>1, <3>1, LoaderMoves DEF Repaired, Rec
    <2> QED BY <1>10, <2>1, <2>2 DEF Done
  <1> QED BY <1>2, <1>3, <1>4, <1>5, <1>6, <1>7, <1>8, <1>9, <1>10

\* It starts to burn: everything, or some chunks.
LEMMA BurnKeeps ==
  ASSUME UInv, pc = "burn", flash' = flash, seen' = seen, Rec(stb'), ~stb'.forbidden, Save,
         NEW img, NEW l \in 1 .. BackupAt - 1, img = [i \in 1 .. l |-> img[i]],
         NEW then \in {"burnt", "chunks"}, Copy(img, 1, then)
  PROVE  UInv'
  <1>1. Shape /\ Loader(flash, BackupAt)
    BY DEF UInv, Guarded, Repaired
  <1>2. pc' = "write" /\ Writing'
    BY <1>1, BurnStarts
  <1>3. Shape' /\ Safe'
    BY <1>1, <1>2, WritingIsSafe DEF Shape
  <1>4. Allowed' /\ Guarded'
    BY <1>2, Saved DEF UInv, Guarded, Repaired
  <1> QED BY <1>2, <1>3, <1>4 DEF UInv

LEMMA BurnAllKeeps ==
  ASSUME UInv, BurnAll PROVE UInv'
  <1> DEFINE img == Image(offer.sw, offer.sw)
  <1>1. /\ pc = "burn" /\ flash' = flash /\ seen' = seen /\ Save
        /\ stb' = [stb EXCEPT !.needbackup = TRUE] /\ Copy(Kept(img), 1, "burnt")
    BY DEF BurnAll
  <1>2. offer.sw \in Versions
    BY <1>1, UpgradeFlowAssumption DEF UInv, Guarded
  <1>3. PICK l \in 1 .. BackupAt - 1 : img = [i \in 1 .. l |-> img[i]]
    BY <1>2, ImageShape
  <1> HIDE DEF img
  <1>4. Kept(img) = [i \in 1 .. l |-> Kept(img)[i]]
    BY <1>3, KeptShape
  <1>5. Rec(stb') /\ ~stb'.forbidden
    BY <1>1 DEF UInv, Allowed, Rec
  <1> QED BY <1>1, <1>4, <1>5, BurnKeeps

LEMMA BurnChunksKeeps ==
  ASSUME UInv, TableBelow, BurnChunks PROVE UInv'
  <1>1. /\ pc = "burn" /\ flash' = flash /\ seen' = seen
        /\ \/ UNCHANGED <<stb, stored>> /\ \E p \in {"prompt", "burnt"} : Goes(p)
           \/ /\ Size(stb.table) <= NorSize /\ Save
              /\ stb' = stb \/ stb' = [stb EXCEPT !.needbackup = TRUE]
              /\ Copy(Reorganised, 1, "chunks")
    BY DEF BurnChunks, BurnFails, Fits
  <1>2. Rec(stb) /\ ~stb.forbidden
    BY DEF UInv, Allowed
  <1>3. CASE UNCHANGED <<stb, stored>> /\ \E p \in {"prompt", "burnt"} : Goes(p)
    BY <1>1, <1>2, <1>3, LoaderMoves DEF Repaired, Rec
  <1>4. CASE /\ Size(stb.table) <= NorSize /\ Save
             /\ stb' = stb \/ stb' = [stb EXCEPT !.needbackup = TRUE]
             /\ Copy(Reorganised, 1, "chunks")
    <2>1. Size(stb.table) \in 1 .. BackupAt - 1
      BY <1>1, <1>4, Places DEF TableBelow
    <2>2. Reorganised = [i \in 1 .. Size(stb.table) |-> Reorganised[i]]
      BY DEF Reorganised
    <2>3. Rec(stb') /\ ~stb'.forbidden
      BY <1>2, <1>4 DEF Rec
    <2> QED BY <1>1, <1>4, <2>1, <2>2, <2>3, BurnKeeps
  <1> QED BY <1>1, <1>3, <1>4
------------------------------------------------------------------------------
\* As it left the factory, the box has a whole loader and no backup.
LEMMA InitUInv ==
  ASSUME Init PROVE UInv
  <1> DEFINE I == Image(0, Mine)
  <1>1. 0 \in Versions
    BY UpgradeFlowAssumption
  <1>2. PICK l \in 1 .. BackupAt - 1 :
          /\ I = [i \in 1 .. l |-> I[i]]
          /\ LoaderLen <= l /\ \A n \in 1 .. LoaderLen : I[n] = Sector("loader", 0, n)
    BY <1>1, ImageShape
  <1>3. flash = [i \in 1 .. NorSize |-> IF i \in DOMAIN I THEN I[i] ELSE Blank]
    BY DEF Init
  <1> HIDE DEF I
  <1>4. DOMAIN I = 1 .. l
    BY <1>2
  <1>5. \A n \in 1 .. LoaderLen : n \in 1 .. l /\ n \in 1 .. NorSize /\ 1 + n - 1 = n
    BY <1>2, Places
  <1>6. \A n \in 1 .. LoaderLen : flash[1 + n - 1] = Sector("loader", 0, n)
    BY <1>2, <1>3, <1>4, <1>5
  <1>7. flash[1].ver = 0
    <2>1. 1 \in 1 .. LoaderLen /\ 1 + 1 - 1 = 1
      BY Places
    <2>2. flash[1] = Sector("loader", 0, 1)
      BY <1>6, <2>1
    <2> QED BY <2>2 DEF Sector
  <1>8. Loader(flash, 1)
    BY <1>6, <1>7 DEF Loader
  <1>9. flash[BackupAt] = Blank
    <2>1. BackupAt \in 1 .. NorSize /\ BackupAt \notin 1 .. l
      BY Places
    <2> QED BY <1>3, <1>4, <2>1
  <1>10. Shape
    BY <1>3, <1>9 DEF Shape, Blank, Sector
  <1>11. pc = "off" /\ stb = Default /\ stored = NoRecord /\ seen = Unseen /\ job = NoJob
    BY DEF Init
  <1>12. Allowed /\ Guarded /\ Writing
    BY <1>11 DEF Allowed, Rec, Default, Guarded, Repaired, Unseen, Writing, NoJob
  <1> QED BY <1>8, <1>10, <1>12 DEF UInv, Safe

\* A step that changes nothing.
LEMMA StutterKeeps ==
  ASSUME UInv, UNCHANGED vars PROVE UInv'
  <1>1. flash' = flash /\ UNCHANGED <<stored, stb, own, pc, job, seen, offer>>
    BY DEF vars, ram
  <1>2. /\ (Loader(flash, 1)' <=> Loader(flash, 1)) /\ (Loader(flash, BackupAt)' <=> Loader(flash, BackupAt))
        /\ (Loader(job.src, 1)' <=> Loader(job.src, 1))
    BY <1>1 DEF Loader
  <1>3. (ToSpare' <=> ToSpare) /\ (FromSpare' <=> FromSpare) /\ (Part' <=> Part)
    BY <1>1, <1>2 DEF ToSpare, FromSpare, Part
  <1>4. Shape' /\ Safe' /\ Writing'
    BY <1>1, <1>2, <1>3 DEF UInv, Shape, Safe, Writing
  <1>5. Allowed' /\ Guarded'
    BY <1>1, <1>2 DEF UInv, Allowed, Rec, Guarded, Repaired
  <1> QED BY <1>4, <1>5 DEF UInv

LEMMA NextUInv ==
  ASSUME UInv, TableBelow, [Next]_vars PROVE UInv'
  <1>1. CASE Boot
    BY <1>1, PowerOnKeeps, FlaggedKeeps, DecideKeeps, EnterKeeps, RestoredKeeps, SpareKeeps, StartKeeps DEF Boot
  <1>2. CASE Settings
    BY <1>2, FactoryInitKeeps, CompleteKeeps, CompletedKeeps, LoadSettingsKeeps DEF Settings
  <1>3. CASE Upgrade
    BY <1>3, LoaderKeeps, BurnAllKeeps, BurnChunksKeeps DEF Upgrade
  <1>4. CASE Write
    BY <1>4, VerifiedKeeps, EraseKeeps, FillKeeps DEF Write
  <1>5. CASE Request
    <2>1. Reboot /\ flash' = flash /\ \E t : stored' = [stb EXCEPT !.trigger = t]
      BY <1>5 DEF Request
    <2> QED BY <2>1, RebootKeeps
  <1>6. CASE PowerOff
    BY <1>6, PowerOffKeeps
  <1>7. CASE UNCHANGED vars
    BY <1>7, StutterKeeps
  <1> QED BY <1>1, <1>2, <1>3, <1>4, <1>5, <1>6, <1>7 DEF Next

\* The boot loader's answer to a whole copy is never to forbid upgrades.
LEMMA UInvIsSafe ==
  ASSUME UInv PROVE LoaderSafe
  BY WholeIsLoader DEF UInv, Safe, Allowed, LoaderSafe

\* Wherever power fails, the upgrade loader or its backup (libupg4, backup_loader.c) is
\* whole, as long as the tables that pass the size check end below the backup.
THEOREM LoaderIsSafe == Spec /\ []TableBelow => []LoaderSafe
  <1>1. Init => UInv
    BY InitUInv
  <1>2. UInv /\ TableBelow /\ [Next]_vars => UInv'
    BY NextUInv
  <1>3. UInv => LoaderSafe
    BY UInvIsSafe
  <1> QED BY <1>1, <1>2, <1>3, PTL DEF Spec
------------------------------------------------------------------------------
(***************************************************************************)
(* An upgrade, however often it is interrupted, ends with a whole set of   *)
(* chunks and the owner's data: for streams on air that keep to the        *)
(* hypotheses below.                                                       *)
(*                                                                         *)
(* RunsOneVersion, PrivateKept and NeverDead are not inductive.  The flash *)
(* is only whole while the settings do not say "preburn" (Records); the    *)
(* boot loader and the applications have to know what they say (Sync); a   *)
(* burn in progress brings a whole set that ends where the flash's does    *)
(* and holds the owner's data already there (Copying), so that no sector   *)
(* of theirs is ever rewritten (Proper); and that set is found by walking  *)
(* the table, which lists the chunks of the flash once or twice (TableOk). *)
(***************************************************************************)

\* The chunks keep their lengths.  Configuration MCUpgradeFlowMove shows the owner's data
\* lost without it.
FixedLayout == \A v \in Versions : MainLen[v] = MainLen[0]

\* A stream that upgrades chunks asks for main code and resources.  Of a chunk that it
\* does not ask for and that an earlier burn left bad, it would bring a header only.
AsksForBoth ==
  \A s \in Streams : s.mode = "chunk" => s.flag["main"] # 0 /\ s.flag["rsc"] # 0

\* Where it asks for a chunk only if that is newer (flag 1), nothing newer was on air
\* before: else one of the two chunks would stay newer than the other.
Newest ==
  \A s \in Streams : s.mode = "chunk" /\ (s.flag["main"] = 1 \/ s.flag["rsc"] = 1) =>
    \A v \in Versions : v <= s.sw

\* Where the chunks lie.
Place(id) ==
  CASE id = "loader" -> 1 [] id = "main" -> LoaderLen + 1
    [] id = "rsc" -> LoaderLen + MainLen[0] + 1 [] id = "user" -> LoaderLen + MainLen[0] + RscLen + 1
Top == LoaderLen + MainLen[0] + RscLen + UserLen

\* All of a chunk, in its place.
Holds(m, id, v) == \A n \in 1 .. Lens(id, 0) : m[Place(id) + n - 1] = Sector(id, v, n)

\* Sectors as the programs write them: only the owner's data have no version.
Kind == {c \in Content : c.id = "user" \/ c.ver \in Versions}

\* A whole loader, and main code and resources of one upgrade.
Intact(m) ==
  \E l, v, w \in Versions :
    Holds(m, "loader", l) /\ Holds(m, "main", v) /\ Holds(m, "rsc", w) /\ (Newest => v = w)

\* The owner's data.
Owners(m) == Holds(m, "user", Mine)

\* Where a header is looked for there is none of another chunk.
Headed(m) == \A id \in {"loader", "main", "rsc"} : m[Place(id)].id \in {id, "blank"}

\* Of the flash, whatever is being written.
Proper == flash \in [1 .. NorSize -> Kind] /\ Owners(flash) /\ Headed(flash)

\* Tables of chunks: none, each chunk once, or (see TableOnce) what was appended to that.
FourOf(t, n) == \A k \in 1 .. 4 : n + k \in DOMAIN t /\ t[n + k].id = Order[k]
Entry == {c \in Chunk : c.id = "user" \/ c.ver \in Versions}
TableOk(t) ==
  /\ t \in Seq(Entry)
  /\ t = <<>> \/ (FourOf(t, 0) /\ (Len(t) = 4 \/ FourOf(t, 4)))

\* The settings.
Good(r) == r \in Record /\ TableOk(r.table)

\* The settings do not say that an upgrade was begun.
Settled == stored = NoRecord \/ stored.state # "preburn"

Records ==
  /\ Good(stb) /\ own \in BOOLEAN
  /\ stored # NoRecord => Good(stored) /\ (stored.state # "reset" => stored.table # <<>>)
  /\ Settled => Intact(flash)

\* Where the box is, or will be when the copy in progress ends.
At(places) == pc \in places \/ (pc = "write" /\ job.then \in places)

BootPlaces == {"flagged", "decide", "enter", "restored", "spare", "start"}
AppPlaces == {"completed", "run", "ota", "prompt", "begin", "download", "burn", "chunks", "burnt", "done"}

\* What the program has loaded is what is stored.
Sync ==
  /\ At(BootPlaces) =>
       IF own THEN stored # NoRecord /\ stb.state = stored.state /\ stb.table = stored.table
       ELSE stb.state # "preburn" /\ Settled
  /\ At(AppPlaces) => own /\ stored = stb

\* What has been found out on the way to a place.
Course ==
  /\ At({"restored"}) => own /\ stb.state = "preburn"
  /\ ~seen.back
  /\ pc = "main" => Settled
  /\ pc = "completed" => stb.state = "reset" /\ stb.table # <<>>
  /\ At({"run"}) => stb.state = "normal"
  /\ pc \in {"ota", "prompt", "begin", "download"} => stb.state # "reset"
  /\ At({"burn", "chunks", "burnt"}) => stb.state = "preburn" /\ offer \in Streams
  /\ pc = "done" => stb.state # "preburn"
  /\ pc \in {"restored", "spare", "start", "loader", "ota", "prompt", "begin", "download", "burn"} =>
       Loader(flash, 1)
  /\ pc \in {"chunks", "burnt"} => Intact(flash)
  /\ pc # "dead"

\* What is being copied.
Copying ==
  /\ job.src \in Seq(Kind)
  /\ pc = "write" =>
       /\ \A k \in 1 .. job.n - 1 : flash[job.to + k - 1] = job.src[k]
       /\ FromSpare => Loader(job.src, 1)
       /\ Part => DOMAIN job.src = 1 .. Top /\ Intact(job.src) /\ Owners(job.src)

\* Types of the rest.
Ranges ==
  /\ pc \in {"off", "flagged", "decide", "enter", "restored", "spare", "start", "main", "loader", "completed",
             "run", "ota", "prompt", "begin", "download", "burn", "chunks", "burnt", "done", "write"}
  /\ seen \in [bad : BOOLEAN, differ : BOOLEAN, whole : BOOLEAN, back : BOOLEAN]
  /\ offer \in Streams \cup {NoOffer}
  /\ crashes \in 0 .. MaxCrashes /\ keys \in 0 .. MaxKeys /\ refusals \in 0 .. MaxRefusals

VInv == Proper /\ Records /\ Sync /\ Course /\ Copying /\ Ranges
------------------------------------------------------------------------------
\* Every set of naturals has a least element.
LEMMA LeastOf ==
  ASSUME NEW R, IsWellFoundedOn(R, Nat), NEW T \in SUBSET Nat, T # {},
         \A x, y \in Nat : y < x => <<y, x>> \in R
  PROVE  \E x \in T : \A y \in T : x <= y
  <1>1. PICK x \in T : \A y \in T : ~ (<<y, x>> \in R)
    BY WFMin
  <1>2. \A y \in T : x \in Nat /\ y \in Nat /\ ~(y < x)
    BY <1>1
  <1> QED BY <1>2

\* So has every non-empty set of naturals, with the order of the library.
LEMMA Least ==
  ASSUME NEW T \in SUBSET Nat, T # {}
  PROVE  \E x \in T : \A y \in T : x <= y
  <1>1. IsWellFoundedOn(OpToRel(<, Nat), Nat)
    BY NatLessThanWellFounded
  <1>2. \A x, y \in Nat : y < x => <<y, x>> \in OpToRel(<, Nat)
    BY DEF OpToRel
  <1> QED BY <1>1, <1>2, LeastOf

\* So what holds of 0, and of n + 1 with n, holds up to any bound.
LEMMA UpTo ==
  ASSUME NEW b \in Nat, NEW P, 0 \in P, \A n \in 0 .. b - 1 : n \in P => n + 1 \in P
  PROVE  0 .. b \subseteq P
  <1> DEFINE T == {n \in Nat : n <= b /\ n \notin P}
  <1>1. CASE T = {}
    BY <1>1
  <1>2. CASE T # {}
    <2>1. PICK x \in T : \A y \in T : x <= y
      <3>1. T \in SUBSET Nat
        OBVIOUS
      <3> HIDE DEF T
      <3> QED BY <1>2, <3>1, Least
    <2>2. x \in Nat /\ x <= b /\ x \notin P
      OBVIOUS
    <2>3. x # 0
      BY <2>2
    <2>4. x - 1 \in 0 .. b - 1 /\ x - 1 \in Nat /\ x - 1 < x /\ x - 1 + 1 = x
      BY <2>2, <2>3
    <2>5. x - 1 \in P
      BY <2>1, <2>4
    <2> QED BY <2>2, <2>4, <2>5
  <1> QED BY <1>1, <1>2
------------------------------------------------------------------------------
\* Where the chunks lie.
LEMMA Layout ==
  /\ LoaderLen \in Nat \ {0} /\ MainLen[0] \in Nat \ {0} /\ RscLen \in Nat \ {0} /\ UserLen \in Nat \ {0}
  /\ NorSize \in Nat /\ BackupAt \in Nat /\ BackupAt + LoaderLen - 1 = NorSize
  /\ Lens("loader", 0) = LoaderLen /\ Lens("main", 0) = MainLen[0]
  /\ Lens("rsc", 0) = RscLen /\ Lens("user", 0) = UserLen
  /\ Place("loader") = 1 /\ Place("main") = LoaderLen + 1 /\ Place("rsc") = LoaderLen + MainLen[0] + 1
  /\ Place("user") = LoaderLen + MainLen[0] + RscLen + 1
  /\ Top = LoaderLen + MainLen[0] + RscLen + UserLen
  /\ Top < BackupAt /\ NorSize < 2 * Top
  <1>1. 0 \in Versions
    BY UpgradeFlowAssumption
  <1>2. LoaderLen + MainLen[0] + RscLen + UserLen < BackupAt /\ 2 * (LoaderLen + MainLen[0] + RscLen + UserLen) > NorSize
    BY <1>1, UpgradeFlowAssumption
  <1>3. /\ LoaderLen \in Nat \ {0} /\ MainLen[0] \in Nat \ {0} /\ RscLen \in Nat \ {0} /\ UserLen \in Nat \ {0}
        /\ NorSize \in Nat
    BY <1>1, UpgradeFlowAssumption
  <1>4. /\ Lens("loader", 0) = LoaderLen /\ Lens("main", 0) = MainLen[0]
        /\ Lens("rsc", 0) = RscLen /\ Lens("user", 0) = UserLen
    BY DEF Lens
  <1>5. /\ Place("loader") = 1 /\ Place("main") = LoaderLen + 1 /\ Place("rsc") = LoaderLen + MainLen[0] + 1
        /\ Place("user") = LoaderLen + MainLen[0] + RscLen + 1
    BY DEF Place
  <1> QED BY <1>2, <1>3, <1>4, <1>5, Places DEF Top

\* Every chunk ends below the backup.
LEMMA Spots ==
  /\ Top \in Nat /\ Top < BackupAt /\ BackupAt <= NorSize /\ 1 .. Top \subseteq 1 .. NorSize
  /\ \A id \in Ids : /\ Place(id) \in 1 .. Top /\ Place(id) # 0 /\ Lens(id, 0) \in Nat \ {0}
                     /\ \A n \in 1 .. Lens(id, 0) : Place(id) + n - 1 \in 1 .. Top
  <1>1. Top \in Nat /\ Top < BackupAt /\ BackupAt <= NorSize
    BY Layout
  <1>2. 1 .. Top \subseteq 1 .. NorSize
    BY <1>1, Layout
  <1>3. ASSUME NEW id \in Ids
        PROVE  Place(id) \in Nat \ {0} /\ Lens(id, 0) \in Nat \ {0} /\ Place(id) + Lens(id, 0) - 1 <= Top
    <2>1. id = "loader" \/ id = "main" \/ id = "rsc" \/ id = "user"
      BY DEF Ids
    <2> QED BY <2>1, Layout
  <1>4. ASSUME NEW id \in Ids
        PROVE  Place(id) \in 1 .. Top /\ \A n \in 1 .. Lens(id, 0) : Place(id) + n - 1 \in 1 .. Top
    BY <1>1, <1>3
  <1> QED BY <1>1, <1>2, <1>3, <1>4

\* In a fixed layout a chunk's length does not depend on its version.
LEMMA SameLens ==
  ASSUME FixedLayout, NEW id \in Ids, NEW v, id = "main" => v \in Versions
  PROVE  Lens(id, v) = Lens(id, 0)
  BY DEF Lens, FixedLayout, Ids

\* The walk over the headers, unrolled.
Heads(m, k, s) == {a \in s : a \in DOMAIN m /\ IsHead(m[a]) /\ m[a].id = Order[k]}
Behind(m, s) == {b + Lens(m[b].id, m[b].ver) : b \in s}

\* The walk looks at address 1, then behind each chunk it found.
LEMMA WalkIs ==
  ASSUME NEW m
  PROVE  /\ Walk(m)[1] = Heads(m, 1, {1})
         /\ \A k \in 2 .. 4 : Walk(m)[k] = Heads(m, k, Behind(m, Walk(m)[k - 1]))
  <1> DEFINE s1 == Heads(m, 1, {1})
             s2 == Heads(m, 2, Behind(m, s1))
             s3 == Heads(m, 3, Behind(m, s2))
             s4 == Heads(m, 4, Behind(m, s3))
             F(at) == [k \in 1 .. 4 |-> Heads(m, k, IF k = 1 THEN {1} ELSE Behind(m, at[k - 1]))]
             g == [k \in 1 .. 4 |-> IF k = 1 THEN s1 ELSE IF k = 2 THEN s2 ELSE IF k = 3 THEN s3 ELSE s4]
  <1>1. g = F(g)
    <2>1. /\ g[1] = s1 /\ g[2] = s2 /\ g[3] = s3 /\ g[4] = s4
      OBVIOUS
    <2> QED BY <2>1
  <1>2. Len(Order) = 4
    BY DEF Order
  <1>3. Walk(m) = CHOOSE at : at = F(at)
    BY <1>2 DEF Walk, Heads, Behind
  <1> HIDE DEF g
  <1>4. Walk(m) = F(Walk(m))
    BY <1>1, <1>3
  <1> QED BY <1>4

\* What is found is what the walk finds.
LEMMA FoundWalk ==
  ASSUME NEW m, NEW j \in 1 .. 4
  PROVE  Found(m, Order[j]) = IF Walk(m)[j] = {} THEN 0 ELSE CHOOSE a \in Walk(m)[j] : TRUE
  <1> DEFINE J == {k \in 1 .. Len(Order) : Order[k] = Order[j]}
             places == UNION {Walk(m)[k] : k \in J}
  <1>1. J = {j}
    BY DEF Order
  <1>2. places = Walk(m)[j]
    <2> HIDE DEF J
    <2> QED BY <1>1
  <1>3. Found(m, Order[j]) = IF places = {} THEN 0 ELSE CHOOSE a \in places : TRUE
    BY DEF Found
  <1> HIDE DEF places
  <1> QED BY <1>2, <1>3

Slots == {"loader", "main", "rsc"}

\* A flash or a buffer in which no header of another chunk lies where one is looked for.
Placed(m) ==
  /\ 1 .. Top \subseteq DOMAIN m /\ Headed(m)
  /\ \A id \in Slots : m[Place(id)].ver \in Versions
  /\ \E u : m[Place("user")] = Sector("user", u, 1)

\* A chunk is found in its place, or not.
LEMMA FoundInPlace ==
  ASSUME FixedLayout, NEW m, Placed(m)
  PROVE  /\ \A id \in Ids : Found(m, id) \in {0, Place(id)}
         /\ (\A id \in Slots : IsHead(m[Place(id)])) => \A id \in Ids : Found(m, id) = Place(id)
  <1>1. /\ Order[1] = "loader" /\ Order[2] = "main" /\ Order[3] = "rsc" /\ Order[4] = "user"
        /\ 1 = Place(Order[1]) /\ \A k \in 1 .. 4 : Order[k] \in Ids
        /\ \A id \in Ids : \E k \in 1 .. 4 : id = Order[k]
    BY Layout DEF Order, Ids
  <1>2. ASSUME NEW k \in 1 .. 3 PROVE Place(Order[k]) + Lens(Order[k], 0) = Place(Order[k + 1])
    <2>1. k = 1 \/ k = 2 \/ k = 3
      OBVIOUS
    <2> QED BY <1>1, <2>1, Layout
  <1>3. ASSUME NEW k \in 1 .. 4 PROVE Place(Order[k]) \in DOMAIN m
    <2>1. k = 1 \/ k = 2 \/ k = 3 \/ k = 4
      OBVIOUS
    <2>2. Place(Order[k]) \in 1 .. Top
      BY <1>1, <2>1, Layout
    <2> QED BY <2>2 DEF Placed
  <1>4. IsHead(m[Place("user")]) /\ m[Place("user")].id = "user"
    BY DEF Placed, Sector, IsHead, Ids
  <1>5. ASSUME NEW k \in 1 .. 3, NEW s, s \subseteq {Place(Order[k])}
        PROVE  Behind(m, Heads(m, k, s)) \subseteq {Place(Order[k + 1])}
    <2> SUFFICES ASSUME NEW b \in Heads(m, k, s) PROVE b + Lens(m[b].id, m[b].ver) = Place(Order[k + 1])
      BY DEF Behind
    <2>1. b = Place(Order[k]) /\ m[b].id = Order[k]
      BY <1>5 DEF Heads
    <2>2. Order[k] \in Slots
      BY <1>1 DEF Slots
    <2>3. m[b].ver \in Versions
      BY <2>1, <2>2 DEF Placed
    <2>4. Lens(m[b].id, m[b].ver) = Lens(Order[k], 0)
      BY <1>1, <2>1, <2>3, SameLens
    <2> QED BY <1>2, <2>1, <2>4
  <1>6. \A k \in 1 .. 4 : Walk(m)[k] \subseteq {Place(Order[k])}
    <2>1. Walk(m)[1] \subseteq {Place(Order[1])} /\ Walk(m)[1] = Heads(m, 1, {1})
      BY <1>1, WalkIs DEF Heads
    <2>2. Walk(m)[2] = Heads(m, 2, Behind(m, Walk(m)[1])) /\ Behind(m, Walk(m)[1]) \subseteq {Place(Order[2])}
      BY <1>1, <1>5, <2>1, WalkIs
    <2>3. Walk(m)[3] = Heads(m, 3, Behind(m, Walk(m)[2])) /\ Behind(m, Walk(m)[2]) \subseteq {Place(Order[3])}
      BY <1>5, <2>2, WalkIs
    <2>4. Walk(m)[4] = Heads(m, 4, Behind(m, Walk(m)[3])) /\ Behind(m, Walk(m)[3]) \subseteq {Place(Order[4])}
      BY <1>5, <2>3, WalkIs
    <2>5. \A k \in 1 .. 4 : k = 1 \/ k = 2 \/ k = 3 \/ k = 4
      OBVIOUS
    <2> QED BY <2>1, <2>2, <2>3, <2>4, <2>5 DEF Heads
  <1>7. \A k \in 1 .. 4 : Found(m, Order[k]) \in {0, Place(Order[k])}
    BY <1>6, FoundWalk
  <1>8. ASSUME \A id \in Slots : IsHead(m[Place(id)]), NEW k \in 1 .. 4
        PROVE  Found(m, Order[k]) = Place(Order[k])
    <2>1. \A id \in Ids : IsHead(m[Place(id)]) /\ m[Place(id)].id = id
      <3>1. \A id \in Slots : m[Place(id)].id = id
        BY <1>8 DEF Placed, Headed, Slots, IsHead, Ids
      <3>2. \A id \in Ids : id \in Slots \/ id = "user"
        BY DEF Ids, Slots
      <3> QED BY <1>4, <1>8, <3>1, <3>2
    <2>2. ASSUME NEW j \in 1 .. 4, NEW s, s = {Place(Order[j])} PROVE Heads(m, j, s) = s
      BY <1>1, <1>3, <2>1, <2>2 DEF Heads
    <2>3. ASSUME NEW j \in 1 .. 3, NEW s, s = {Place(Order[j])} PROVE Behind(m, s) = {Place(Order[j + 1])}
      <3>1. Heads(m, j, s) = s
        BY <2>2, <2>3
      <3>2. Behind(m, s) \subseteq {Place(Order[j + 1])}
        BY <1>5, <2>3, <3>1
      <3> QED BY <2>3, <3>2 DEF Behind
    <2>4. Walk(m)[1] = {Place(Order[1])}
      BY <1>1, <2>2, WalkIs
    <2>5. Walk(m)[2] = {Place(Order[2])}
      BY <2>2, <2>3, <2>4, WalkIs
    <2>6. Walk(m)[3] = {Place(Order[3])}
      BY <2>2, <2>3, <2>5, WalkIs
    <2>7. Walk(m)[4] = {Place(Order[4])}
      BY <2>2, <2>3, <2>6, WalkIs
    <2>8. Walk(m)[k] = {Place(Order[k])}
      <3>1. k = 1 \/ k = 2 \/ k = 3 \/ k = 4
        OBVIOUS
      <3> QED BY <2>4, <2>5, <2>6, <2>7, <3>1
    <2> QED BY <2>8, FoundWalk
  <1> QED BY <1>1, <1>7, <1>8

\* The header of a chunk that is held.
LEMMA HeldHead ==
  ASSUME NEW id \in Ids, NEW m, NEW v, Holds(m, id, v)
  PROVE  m[Place(id)] = Sector(id, v, 1)
  <1>1. Lens(id, 0) \in Nat \ {0} /\ Place(id) \in Nat
    BY Layout DEF Ids
  <1>2. 1 \in 1 .. Lens(id, 0) /\ Place(id) + 1 - 1 = Place(id)
    BY <1>1
  <1> QED BY <1>2 DEF Holds

\* A whole set of chunks has its headers where they are looked for.
LEMMA IntactPlaced ==
  ASSUME NEW m, 1 .. Top \subseteq DOMAIN m, Intact(m), Owners(m)
  PROVE  Placed(m) /\ \A id \in Slots : IsHead(m[Place(id)])
  <1>1. PICK l \in Versions, v \in Versions, w \in Versions :
          Holds(m, "loader", l) /\ Holds(m, "main", v) /\ Holds(m, "rsc", w)
    BY DEF Intact
  <1>2. /\ m[Place("loader")] = Sector("loader", l, 1) /\ m[Place("main")] = Sector("main", v, 1)
        /\ m[Place("rsc")] = Sector("rsc", w, 1) /\ m[Place("user")] = Sector("user", Mine, 1)
    BY <1>1, HeldHead DEF Owners, Ids
  <1>3. \A id \in Slots : \E x \in Versions : m[Place(id)] = Sector(id, x, 1)
    BY <1>2 DEF Slots
  <1> QED BY <1>2, <1>3 DEF Placed, Headed, IsHead, Sector, Slots, Ids

\* The flash never has another chunk's header there.
LEMMA ProperPlaced ==
  ASSUME Proper PROVE Placed(flash)
  <1>1. /\ DOMAIN flash = 1 .. NorSize /\ 1 .. Top \subseteq 1 .. NorSize
        /\ \A id \in Ids : Place(id) \in 1 .. NorSize
    BY Spots DEF Proper
  <1>2. \A id \in Slots : flash[Place(id)] \in Kind /\ flash[Place(id)].id \in {id, "blank"}
    BY <1>1 DEF Proper, Headed, Slots, Ids
  <1>3. \A id \in Slots : flash[Place(id)].ver \in Versions
    BY <1>2 DEF Kind, Slots
  <1>4. flash[Place("user")] = Sector("user", Mine, 1)
    BY HeldHead DEF Proper, Owners, Ids
  <1> QED BY <1>1, <1>3, <1>4 DEF Placed, Proper

\* A whole set of chunks passes the boot loader's check.
LEMMA IntactPasses ==
  ASSUME FixedLayout, Proper, Intact(flash)
  PROVE  /\ CrcOk /\ Loader(flash, 1) /\ \A id \in Ids : Found(flash, id) = Place(id)
         /\ Newest => flash[Place("main")].ver = flash[Place("rsc")].ver
  <1>1. PICK l \in Versions, v \in Versions, w \in Versions :
          Holds(flash, "loader", l) /\ Holds(flash, "main", v) /\ Holds(flash, "rsc", w) /\ (Newest => v = w)
    BY DEF Intact
  <1>2. /\ DOMAIN flash = 1 .. NorSize /\ 1 .. Top \subseteq 1 .. NorSize
        /\ \A id \in Ids : Place(id) \in 1 .. NorSize /\ Place(id) # 0
        /\ \A id \in Ids : \A n \in 1 .. Lens(id, 0) : Place(id) + n - 1 \in 1 .. NorSize
    BY Spots DEF Proper
  <1>3. \A id \in Ids : Found(flash, id) = Place(id)
    BY <1>2, IntactPlaced, FoundInPlace DEF Proper
  <1>4. ASSUME NEW id \in Slots, NEW x \in Versions, Holds(flash, id, x)
        PROVE  Whole(flash, Place(id)) /\ flash[Place(id)].ver = x
    <2>1. flash[Place(id)] = Sector(id, x, 1) /\ id \in Ids
      BY <1>4, HeldHead DEF Slots, Ids
    <2>2. IsHead(flash[Place(id)]) /\ flash[Place(id)].id = id /\ flash[Place(id)].ver = x
      BY <2>1 DEF IsHead, Sector, Ids
    <2>3. Lens(id, x) = Lens(id, 0)
      BY <2>1, SameLens
    <2> QED BY <1>2, <1>4, <2>1, <2>2, <2>3 DEF Whole, Holds
  <1>5. flash[Place("user")] = Sector("user", Mine, 1)
    BY HeldHead DEF Proper, Owners, Ids
  <1>6. Whole(flash, Place("user"))
    <2>1. IsHead(flash[Place("user")]) /\ flash[Place("user")].id = "user" /\ Place("user") \in DOMAIN flash
      BY <1>2, <1>5 DEF IsHead, Sector, Ids
    <2> QED BY <2>1 DEF Whole
  <1>7. \A id \in Ids : Whole(flash, Place(id))
    BY <1>1, <1>4, <1>6 DEF Ids, Slots
  <1>8. CrcOk
    <2>1. \A id \in Ids : Found(flash, id) # 0 /\ Whole(flash, Found(flash, id))
      BY <1>2, <1>3, <1>7
    <2> QED BY <2>1 DEF CrcOk
  <1>9. flash[1].ver = l /\ flash[Place("main")].ver = v /\ flash[Place("rsc")].ver = w
    BY <1>1, <1>4, Layout DEF Slots
  <1>10. Loader(flash, 1)
    BY <1>1, <1>9, Layout DEF Holds, Loader
  <1> QED BY <1>1, <1>3, <1>8, <1>9, <1>10
------------------------------------------------------------------------------
(* Tables of chunks and their sizes. *)

\* The sizes up to n.
Sums(t, f, n) == f = [i \in 0 .. n |-> IF i = 0 THEN 0 ELSE f[i - 1] + Lens(t[i].id, t[i].ver)]

\* The recursive definition of the sizes defines a function.
LEMMA SumsExist ==
  ASSUME NEW t, NEW b \in Nat
  PROVE  \E f : Sums(t, f, b)
  <1> DEFINE P == {n \in Nat : \E f : Sums(t, f, n)}
  <1>1. 0 \in P
    <2>1. Sums(t, [i \in 0 .. 0 |-> 0], 0)
      BY DEF Sums
    <2> QED BY <2>1
  <1>2. ASSUME NEW n \in 0 .. b - 1, n \in P PROVE n + 1 \in P
    <2>1. PICK f : Sums(t, f, n)
      BY <1>2
    <2> DEFINE g == [i \in 0 .. n + 1 |-> IF i = n + 1 THEN f[n] + Lens(t[i].id, t[i].ver) ELSE f[i]]
    <2>2. n \in Nat /\ \A i \in 0 .. n + 1 : i = n + 1 \/ i \in 0 .. n
      BY <1>2
    <2>3. ASSUME NEW i \in 0 .. n + 1 PROVE g[i] = IF i = 0 THEN 0 ELSE g[i - 1] + Lens(t[i].id, t[i].ver)
      <3>1. CASE i = 0
        BY <2>1, <2>2, <3>1 DEF Sums
      <3>2. CASE i = n + 1
        <4>1. g[i - 1] = f[n] /\ i # 0
          BY <2>2, <3>2
        <4> QED BY <2>2, <3>2, <4>1
      <3>3. CASE i # 0 /\ i # n + 1
        <4>1. i \in 0 .. n /\ i - 1 \in 0 .. n + 1 /\ i - 1 # n + 1
          BY <2>2, <3>3
        <4>2. g[i] = f[i] /\ g[i - 1] = f[i - 1]
          BY <3>3, <4>1
        <4>3. f[i] = f[i - 1] + Lens(t[i].id, t[i].ver)
          BY <2>1, <3>3, <4>1 DEF Sums
        <4> QED BY <3>3, <4>2, <4>3
      <3> QED BY <3>1, <3>2, <3>3
    <2>4. Sums(t, g, n + 1)
      <3> DEFINE h == [i \in 0 .. n + 1 |-> IF i = 0 THEN 0 ELSE g[i - 1] + Lens(t[i].id, t[i].ver)]
      <3>1. g = h
        <4>1. DOMAIN g = 0 .. n + 1 /\ DOMAIN h = 0 .. n + 1 /\ g = [i \in 0 .. n + 1 |-> g[i]]
          OBVIOUS
        <4>2. \A i \in 0 .. n + 1 : g[i] = h[i]
          BY <2>3
        <4> HIDE DEF g
        <4> QED BY <4>1, <4>2
      <3> HIDE DEF g
      <3> QED BY <3>1 DEF Sums
    <2> QED BY <2>2, <2>4
  <1>3. 0 .. b \subseteq P
    <2> HIDE DEF P
    <2> QED BY <1>1, <1>2, UpTo
  <1>4. b \in P
    BY <1>3
  <1> QED BY <1>4

\* SizeTo (libstbinfo's walk over part.chunk) adds a chunk's length at every entry.
LEMMA SizeSteps ==
  ASSUME FixedLayout, NEW t \in Seq(Entry)
  PROVE  /\ SizeTo(t)[0] = 0
         /\ \A n \in 1 .. Len(t) : SizeTo(t)[n] = SizeTo(t)[n - 1] + Lens(t[n].id, 0)
  <1>1. Len(t) \in Nat
    BY LenProperties
  <1>2. SizeTo(t) = CHOOSE f : Sums(t, f, Len(t))
    BY DEF SizeTo, Sums
  <1>3. Sums(t, SizeTo(t), Len(t))
    BY <1>1, <1>2, SumsExist
  <1>4. ASSUME NEW n \in 1 .. Len(t) PROVE Lens(t[n].id, t[n].ver) = Lens(t[n].id, 0)
    <2>1. t[n] \in Entry
      BY ElementOfSeq
    <2> QED BY <2>1, SameLens DEF Entry, Chunk
  <1>5. \A n \in 0 .. Len(t) : SizeTo(t)[n] = IF n = 0 THEN 0 ELSE SizeTo(t)[n - 1] + Lens(t[n].id, t[n].ver)
    BY <1>3 DEF Sums
  <1> QED BY <1>1, <1>4, <1>5

\* One entry of it.
LEMMA SizeStep ==
  ASSUME FixedLayout, NEW t \in Seq(Entry), NEW n \in 1 .. Len(t), NEW m, m = n - 1, NEW id, t[n].id = id
  PROVE  SizeTo(t)[n] = SizeTo(t)[m] + Lens(id, 0)
  BY SizeSteps

\* So the sizes only grow.
LEMMA SizeGrows ==
  ASSUME FixedLayout, NEW t \in Seq(Entry), NEW m \in 0 .. Len(t), SizeTo(t)[m] \in Nat
  PROVE  \A n \in m .. Len(t) : SizeTo(t)[n] \in Nat /\ SizeTo(t)[n] >= SizeTo(t)[m]
  <1> DEFINE s == SizeTo(t)
             P == {d \in Nat : s[m + d] \in Nat /\ s[m + d] >= s[m]}
  <1>1. Len(t) \in Nat
    BY LenProperties
  <1>0. s[m] \in Nat
    OBVIOUS
  <1>2. 0 \in P
    OBVIOUS
  <1>3. ASSUME NEW d \in 0 .. (Len(t) - m) - 1, d \in P PROVE d + 1 \in P
    <2>1. m + d + 1 \in 1 .. Len(t) /\ (m + d + 1) - 1 = m + d /\ m + (d + 1) = m + d + 1 /\ d \in Nat
      BY <1>1
    <2>2. s[m + d + 1] = s[m + d] + Lens(t[m + d + 1].id, 0)
      BY <2>1, SizeSteps
    <2>3. t[m + d + 1] \in Entry
      BY <2>1, ElementOfSeq
    <2>4. Lens(t[m + d + 1].id, 0) \in Nat
      BY <2>3, Spots DEF Entry, Chunk
    <2>5. s[m + d] \in Nat /\ s[m + d] >= s[m]
      BY <1>3
    <2>6. s[m + (d + 1)] \in Nat /\ s[m + (d + 1)] >= s[m]
      <3> HIDE DEF s
      <3> QED BY <1>0, <2>1, <2>2, <2>4, <2>5
    <2> QED BY <2>1, <2>6
  <1>4. 0 .. Len(t) - m \subseteq P
    <2>1. Len(t) - m \in Nat
      BY <1>1
    <2> HIDE DEF P
    <2> QED BY <1>2, <1>3, <2>1, UpTo
  <1>5. ASSUME NEW n \in m .. Len(t) PROVE s[n] \in Nat /\ s[n] >= s[m]
    <2>1. n - m \in 0 .. Len(t) - m /\ m + (n - m) = n
      BY <1>1
    <2>2. n - m \in P
      BY <1>4, <2>1
    <2> QED BY <2>1, <2>2
  <1> QED BY <1>5

\* The sums of the lengths, and the places of the chunks.
LEMMA LayoutSums ==
  /\ LoaderLen = Place("main") - 1 /\ LoaderLen + MainLen[0] = Place("rsc") - 1
  /\ LoaderLen + MainLen[0] + RscLen = Place("user") - 1
  /\ Top + LoaderLen + MainLen[0] + RscLen + UserLen = 2 * Top /\ 2 * Top \in Nat
  <1>1. PICK a \in Nat, b \in Nat, c \in Nat, d \in Nat :
          a = LoaderLen /\ b = MainLen[0] /\ c = RscLen /\ d = UserLen
    BY Layout
  <1>2. /\ Place("main") = a + 1 /\ Place("rsc") = a + b + 1 /\ Place("user") = a + b + c + 1
        /\ Top = a + b + c + d
    BY <1>1, Layout
  <1>3. /\ a = Place("main") - 1 /\ a + b = Place("rsc") - 1 /\ a + b + c = Place("user") - 1
        /\ Top + a + b + c + d = 2 * Top /\ 2 * Top \in Nat
    BY <1>2
  <1> QED BY <1>1, <1>3

\* Four chunks in order end where the chunks of the flash do.
LEMMA FourSizes ==
  ASSUME FixedLayout, NEW t \in Seq(Entry), FourOf(t, 0)
  PROVE  /\ SizeTo(t)[0] = 0 /\ SizeTo(t)[1] = Place("main") - 1 /\ SizeTo(t)[2] = Place("rsc") - 1
         /\ SizeTo(t)[3] = Place("user") - 1 /\ SizeTo(t)[4] = Top
         /\ Len(t) \in Nat /\ Len(t) >= 4
         /\ t[1].id = "loader" /\ t[2].id = "main" /\ t[3].id = "rsc" /\ t[4].id = "user"
  <1>1. Len(t) \in Nat /\ DOMAIN t = 1 .. Len(t)
    BY LenProperties
  <1>2. \A k \in 1 .. 4 : 0 + k \in 1 .. Len(t) /\ t[0 + k].id = Order[k]
    BY <1>1 DEF FourOf
  <1>3. /\ 1 \in 1 .. Len(t) /\ 2 \in 1 .. Len(t) /\ 3 \in 1 .. Len(t) /\ 4 \in 1 .. Len(t)
        /\ t[1].id = "loader" /\ t[2].id = "main" /\ t[3].id = "rsc" /\ t[4].id = "user"
    BY <1>2 DEF Order
  <1>4. /\ SizeTo(t)[0] = 0 /\ SizeTo(t)[1] = LoaderLen /\ SizeTo(t)[2] = LoaderLen + MainLen[0]
        /\ SizeTo(t)[3] = LoaderLen + MainLen[0] + RscLen /\ SizeTo(t)[4] = Top
    <2>1. /\ 0 = 1 - 1 /\ 1 = 2 - 1 /\ 2 = 3 - 1 /\ 3 = 4 - 1
      OBVIOUS
    <2>2. SizeTo(t)[1] = SizeTo(t)[0] + Lens("loader", 0)
      BY <1>3, <2>1, SizeStep
    <2>3. SizeTo(t)[2] = SizeTo(t)[1] + Lens("main", 0)
      BY <1>3, <2>1, SizeStep
    <2>4. SizeTo(t)[3] = SizeTo(t)[2] + Lens("rsc", 0)
      BY <1>3, <2>1, SizeStep
    <2>5. SizeTo(t)[4] = SizeTo(t)[3] + Lens("user", 0)
      BY <1>3, <2>1, SizeStep
    <2>6. SizeTo(t)[0] = 0
      BY SizeSteps
    <2>7. SizeTo(t)[1] = LoaderLen
      BY <2>2, <2>6, Layout
    <2>8. SizeTo(t)[2] = LoaderLen + MainLen[0]
      BY <2>3, <2>7, Layout
    <2>9. SizeTo(t)[3] = LoaderLen + MainLen[0] + RscLen
      BY <2>4, <2>8, Layout
    <2>10. SizeTo(t)[4] = Top
      BY <2>5, <2>9, Layout
    <2> QED BY <2>6, <2>7, <2>8, <2>9, <2>10
  <1>5. /\ LoaderLen = Place("main") - 1 /\ LoaderLen + MainLen[0] = Place("rsc") - 1
        /\ LoaderLen + MainLen[0] + RscLen = Place("user") - 1
    BY LayoutSums
  <1>6. Len(t) >= 4
    BY <1>1, <1>3
  <1> QED BY <1>1, <1>3, <1>4, <1>5, <1>6

\* A table that passes the size check lists every chunk once.
LEMMA TableSize ==
  ASSUME FixedLayout, NEW t, TableOk(t), t # <<>>
  PROVE  /\ FourOf(t, 0) /\ Size(t) \in Nat /\ Size(t) >= Top
         /\ Size(t) <= NorSize => Len(t) = 4 /\ Size(t) = Top
  <1>1. t \in Seq(Entry) /\ FourOf(t, 0) /\ (Len(t) = 4 \/ FourOf(t, 4))
    BY DEF TableOk
  <1>2. SizeTo(t)[4] = Top /\ Len(t) \in Nat /\ Len(t) >= 4
    BY <1>1, FourSizes
  <1>3. \A n \in 4 .. Len(t) : SizeTo(t)[n] \in Nat /\ SizeTo(t)[n] >= Top
    BY <1>1, <1>2, SizeGrows, Spots
  <1>4. Size(t) \in Nat /\ Size(t) >= Top
    BY <1>2, <1>3 DEF Size
  <1>5. CASE Len(t) = 4
    BY <1>1, <1>2, <1>4, <1>5 DEF Size
  <1>6. CASE FourOf(t, 4)
    <2>1. \A k \in 1 .. 4 : 4 + k \in 1 .. Len(t) /\ t[4 + k].id = Order[k]
      BY <1>1, <1>6, LenProperties DEF FourOf
    <2>2. /\ 5 \in 1 .. Len(t) /\ 6 \in 1 .. Len(t) /\ 7 \in 1 .. Len(t) /\ 8 \in 1 .. Len(t)
          /\ t[5].id = "loader" /\ t[6].id = "main" /\ t[7].id = "rsc" /\ t[8].id = "user"
      BY <2>1 DEF Order
    <2>3. /\ 4 = 5 - 1 /\ 5 = 6 - 1 /\ 6 = 7 - 1 /\ 7 = 8 - 1
      OBVIOUS
    <2>4. SizeTo(t)[5] = SizeTo(t)[4] + Lens("loader", 0)
      BY <1>1, <2>2, <2>3, SizeStep
    <2>5. SizeTo(t)[6] = SizeTo(t)[5] + Lens("main", 0)
      BY <1>1, <2>2, <2>3, SizeStep
    <2>6. SizeTo(t)[7] = SizeTo(t)[6] + Lens("rsc", 0)
      BY <1>1, <2>2, <2>3, SizeStep
    <2>7. SizeTo(t)[8] = SizeTo(t)[7] + Lens("user", 0)
      BY <1>1, <2>2, <2>3, SizeStep
    <2>8. SizeTo(t)[8] = 2 * Top /\ 2 * Top \in Nat
      <3>1. SizeTo(t)[5] = Top + LoaderLen
        BY <1>2, <2>4, Layout
      <3>2. SizeTo(t)[6] = Top + LoaderLen + MainLen[0]
        BY <2>5, <3>1, Layout
      <3>3. SizeTo(t)[7] = Top + LoaderLen + MainLen[0] + RscLen
        BY <2>6, <3>2, Layout
      <3>4. SizeTo(t)[8] = Top + LoaderLen + MainLen[0] + RscLen + UserLen
        BY <2>7, <3>3, Layout
      <3>5. Top + LoaderLen + MainLen[0] + RscLen + UserLen = 2 * Top /\ 2 * Top \in Nat
        BY LayoutSums
      <3> QED BY <3>4, <3>5
    <2>9. Size(t) >= 2 * Top
      <3>1. \A n \in 8 .. Len(t) : SizeTo(t)[n] >= SizeTo(t)[8]
        BY <1>1, <2>2, <2>8, SizeGrows
      <3>2. Len(t) \in 8 .. Len(t)
        BY <1>2, <2>2
      <3> QED BY <2>8, <3>1, <3>2 DEF Size
    <2>10. ~(Size(t) <= NorSize)
      BY <1>4, <2>9, Layout
    <2> QED BY <1>1, <1>4, <2>10
  <1> QED BY <1>1, <1>5, <1>6

\* What the concatenation of two sequences is.
LEMMA Appended ==
  ASSUME NEW S, NEW s \in Seq(S), NEW t \in Seq(S)
  PROVE  /\ s \o t \in Seq(S) /\ Len(s \o t) = Len(s) + Len(t) /\ DOMAIN (s \o t) = 1 .. Len(s) + Len(t)
         /\ \A i \in 1 .. Len(s) + Len(t) : (s \o t)[i] = IF i <= Len(s) THEN s[i] ELSE t[i - Len(s)]
  <1>1. /\ s \o t \in Seq(S) /\ Len(s \o t) = Len(s) + Len(t)
        /\ \A i \in 1 .. Len(s) + Len(t) : (s \o t)[i] = IF i <= Len(s) THEN s[i] ELSE t[i - Len(s)]
    BY ConcatProperties
  <1> QED BY <1>1, LenProperties

Row(S, s, m, t, n, u) ==
  /\ u \in Seq(S) /\ Len(u) = m + n /\ DOMAIN u = 1 .. m + n
  /\ \A i \in 1 .. m + n : u[i] = IF i <= m THEN s[i] ELSE t[i - m]

\* The same, as one predicate.
LEMMA InRowOfTwo ==
  ASSUME NEW S, NEW s \in Seq(S), NEW t \in Seq(S)
  PROVE  Row(S, s, Len(s), t, Len(t), s \o t)
  BY Appended DEF Row

\* What is appended to a table of whole sets is one more.
LEMMA ScannedOk ==
  ASSUME FixedLayout, Proper, Intact(flash), NEW t, TableOk(t)
  PROVE  TableOk(Scanned(t)) /\ Scanned(t) # <<>> /\ (t = <<>> => Len(Scanned(t)) = 4)
  <1> DEFINE u == [k \in 1 .. 4 |-> [id |-> Order[k], ver |-> flash[Place(Order[k])].ver]]
  <1>1. /\ DOMAIN Order = 1 .. 4 /\ \A k \in 1 .. 4 : Order[k] \in Ids
        /\ \A k \in 1 .. 4 : Order[k] \in Slots \/ Order[k] = "user"
    BY DEF Order, Ids, Slots
  <1>2. \A k \in 1 .. 4 : Found(flash, Order[k]) = Place(Order[k]) /\ Found(flash, Order[k]) # 0
    BY <1>1, IntactPasses, Spots
  <1>3. Scanned(t) = t \o u
    <2>1. {k \in DOMAIN Order : Found(flash, Order[k]) # 0} = 1 .. 4
      BY <1>1, <1>2
    <2> QED BY <1>2, <2>1 DEF Scanned
  <1>4. \A k \in 1 .. 4 : u[k] \in Entry /\ u[k].id = Order[k]
    <2>1. Placed(flash)
      BY ProperPlaced
    <2>2. \A id \in Ids : flash[Place(id)].ver \in Versions \cup {Mine}
      <3>1. \A id \in Slots : flash[Place(id)].ver \in Versions
        BY <2>1 DEF Placed
      <3>2. flash[Place("user")].ver = Mine
        <4>1. flash[Place("user")] = Sector("user", Mine, 1)
          BY HeldHead DEF Proper, Owners, Ids
        <4> QED BY <4>1 DEF Sector
      <3> QED BY <3>1, <3>2 DEF Ids, Slots
    <2>3. \A k \in 1 .. 4 : Order[k] # "user" => flash[Place(Order[k])].ver \in Versions
      BY <1>1, <2>1 DEF Placed
    <2> QED BY <1>1, <2>2, <2>3 DEF Entry, Chunk
  <1>5. u \in Seq(Entry) /\ Len(u) = 4
    <2>1. PICK l \in Nat : l = 4
      OBVIOUS
    <2>2. u \in [1 .. l -> Entry]
      BY <1>4, <2>1
    <2> HIDE DEF u
    <2>3. u \in Seq(Entry)
      BY <2>2, IsASeq
    <2> QED BY <2>1, <2>2, <2>3, LenProperties
  <1> HIDE DEF u
  <1>6. t \in Seq(Entry) /\ Len(t) \in Nat
    BY LenProperties DEF TableOk
  <1> DEFINE v == t \o u
  <1>0. /\ v \in Seq(Entry) /\ Len(v) = Len(t) + Len(u)
        /\ \A i \in 1 .. Len(t) + Len(u) : v[i] = IF i <= Len(t) THEN t[i] ELSE u[i - Len(t)]
        /\ DOMAIN v = 1 .. Len(t) + Len(u)
    BY <1>5, <1>6, Appended
  <1> HIDE DEF v
  <1>7. /\ v \in Seq(Entry) /\ Len(v) = Len(t) + 4
        /\ \A i \in 1 .. Len(t) + 4 : v[i] = IF i <= Len(t) THEN t[i] ELSE u[i - Len(t)]
    BY <1>0, <1>5
  <1>8. DOMAIN v = 1 .. Len(t) + 4
    BY <1>0, <1>5
  <1>9. CASE t = <<>>
    <2>1. Len(t) = 0
      BY <1>9
    <2>2. FourOf(v, 0)
      BY <1>4, <1>7, <1>8, <2>1 DEF FourOf
    <2> QED BY <1>3, <1>7, <2>1, <2>2 DEF TableOk, v
  <1>10. CASE t # <<>>
    <2>1. FourOf(t, 0) /\ Len(t) >= 4 /\ DOMAIN t = 1 .. Len(t) /\ (Len(t) = 4 \/ FourOf(t, 4))
      <3>1. FourOf(t, 0) /\ (Len(t) = 4 \/ FourOf(t, 4))
        BY <1>10 DEF TableOk
      <3>2. DOMAIN t = 1 .. Len(t)
        BY <1>6, LenProperties
      <3>3. 0 + 4 \in 1 .. Len(t)
        BY <3>1, <3>2 DEF FourOf
      <3> QED BY <1>6, <3>1, <3>2, <3>3
    <2>2. \A i \in 1 .. Len(t) : i \in 1 .. Len(t) + 4 /\ v[i] = t[i]
      BY <1>6, <1>7
    <2>3. FourOf(v, 0)
      BY <1>8, <2>1, <2>2 DEF FourOf
    <2>4. FourOf(v, 4)
      <3>1. CASE FourOf(t, 4)
        BY <1>8, <2>1, <2>2, <3>1 DEF FourOf
      <3>2. CASE Len(t) = 4
        <4>1. \A k \in 1 .. 4 : 4 + k \in 1 .. Len(t) + 4 /\ ~(4 + k <= Len(t)) /\ 4 + k - Len(t) = k
          BY <3>2
        <4>2. \A k \in 1 .. 4 : v[4 + k] = u[k]
          BY <1>7, <4>1
        <4> QED BY <1>4, <1>8, <4>1, <4>2 DEF FourOf
      <3> QED BY <2>1, <3>1, <3>2
    <2>5. v # <<>>
      BY <1>6, <1>7
    <2> QED BY <1>3, <1>7, <1>10, <2>3, <2>4, <2>5 DEF TableOk, v
  <1> QED BY <1>9, <1>10
------------------------------------------------------------------------------
(* Images: what a stream brings, and what is made of it. *)

\* Four sequences in a row, each in its place.
FourPlaces(S, a, A, b, B, c, C, d, D, h) ==
  /\ h \in Seq(S) /\ Len(h) = a + b + c + d /\ DOMAIN h = 1 .. a + b + c + d
  /\ \A n \in 1 .. a : h[1 + n - 1] = A[n]
  /\ \A n \in 1 .. b : h[(a + 1) + n - 1] = B[n]
  /\ \A n \in 1 .. c : h[(a + b + 1) + n - 1] = C[n]
  /\ \A n \in 1 .. d : h[(a + b + c + 1) + n - 1] = D[n]

\* The concatenation of four.
LEMMA FourInRow ==
  ASSUME NEW S, NEW a \in Nat, NEW b \in Nat, NEW c \in Nat, NEW d \in Nat,
         NEW A \in Seq(S), NEW B \in Seq(S), NEW C \in Seq(S), NEW D \in Seq(S),
         Len(A) = a, Len(B) = b, Len(C) = c, Len(D) = d, NEW h, h = A \o B \o C \o D
  PROVE  FourPlaces(S, a, A, b, B, c, C, d, D, h)
  <1> DEFINE e == A \o B
             g == e \o C
  <1>0. h = g \o D
    OBVIOUS
  <1>a. Row(S, A, a, B, b, e)
    BY InRowOfTwo
  <1> HIDE DEF e
  <1>1. /\ e \in Seq(S) /\ Len(e) = a + b
        /\ \A i \in 1 .. a + b : e[i] = IF i <= a THEN A[i] ELSE B[i - a]
    BY <1>a DEF Row
  <1>b. Row(S, e, a + b, C, c, g)
    BY <1>1, InRowOfTwo
  <1> HIDE DEF g
  <1>2. /\ g \in Seq(S) /\ Len(g) = a + b + c
        /\ \A i \in 1 .. a + b + c : g[i] = IF i <= a + b THEN e[i] ELSE C[i - (a + b)]
    BY <1>b DEF Row
  <1>c. Row(S, g, a + b + c, D, d, h)
    BY <1>0, <1>2, InRowOfTwo
  <1>3. /\ h \in Seq(S) /\ Len(h) = a + b + c + d /\ DOMAIN h = 1 .. a + b + c + d
        /\ \A i \in 1 .. a + b + c + d : h[i] = IF i <= a + b + c THEN g[i] ELSE D[i - (a + b + c)]
    BY <1>c DEF Row
  <1>4. ASSUME NEW n \in 1 .. a PROVE h[1 + n - 1] = A[n]
    <2>1. 1 + n - 1 = n /\ n \in 1 .. a + b + c + d /\ n \in 1 .. a + b + c /\ n \in 1 .. a + b
          /\ n <= a + b + c /\ n <= a + b /\ n <= a
      OBVIOUS
    <2> QED BY <1>1, <1>2, <1>3, <2>1
  <1>5. ASSUME NEW n \in 1 .. b PROVE h[(a + 1) + n - 1] = B[n]
    <2>1. PICK i \in 1 .. a + b : i = (a + 1) + n - 1 /\ ~(i <= a) /\ i - a = n
      <3>1. (a + 1) + n - 1 \in 1 .. a + b /\ ~((a + 1) + n - 1 <= a) /\ (a + 1) + n - 1 - a = n
        OBVIOUS
      <3> QED BY <3>1
    <2>2. i \in 1 .. a + b + c + d /\ i \in 1 .. a + b + c /\ i <= a + b + c /\ i <= a + b
      OBVIOUS
    <2>3. h[i] = g[i] /\ g[i] = e[i] /\ e[i] = B[n]
      BY <1>1, <1>2, <1>3, <2>1, <2>2
    <2> QED BY <2>1, <2>3
  <1>6. ASSUME NEW n \in 1 .. c PROVE h[(a + b + 1) + n - 1] = C[n]
    <2>1. PICK i \in 1 .. a + b + c : i = (a + b + 1) + n - 1 /\ ~(i <= a + b) /\ i - (a + b) = n
      <3>1. /\ (a + b + 1) + n - 1 \in 1 .. a + b + c /\ ~((a + b + 1) + n - 1 <= a + b)
            /\ (a + b + 1) + n - 1 - (a + b) = n
        OBVIOUS
      <3> QED BY <3>1
    <2>2. i \in 1 .. a + b + c + d /\ i <= a + b + c
      OBVIOUS
    <2>3. h[i] = g[i] /\ g[i] = C[n]
      BY <1>2, <1>3, <2>1, <2>2
    <2> QED BY <2>1, <2>3
  <1>7. ASSUME NEW n \in 1 .. d PROVE h[(a + b + c + 1) + n - 1] = D[n]
    <2>1. PICK i \in 1 .. a + b + c + d :
            i = (a + b + c + 1) + n - 1 /\ ~(i <= a + b + c) /\ i - (a + b + c) = n
      <3>1. /\ (a + b + c + 1) + n - 1 \in 1 .. a + b + c + d /\ ~((a + b + c + 1) + n - 1 <= a + b + c)
            /\ (a + b + c + 1) + n - 1 - (a + b + c) = n
        OBVIOUS
      <3> QED BY <3>1
    <2> QED BY <1>3, <2>1
  <1> QED BY <1>3, <1>4, <1>5, <1>6, <1>7 DEF FourPlaces

\* The sectors of a chunk.
LEMMA SectorsAre ==
  ASSUME FixedLayout, NEW id \in Ids, NEW v \in Versions \cup {Mine}, id = "user" \/ v \in Versions
  PROVE  /\ Sectors(id, v) \in Seq(Kind) /\ Len(Sectors(id, v)) = Lens(id, 0)
         /\ \A n \in 1 .. Lens(id, 0) : Sectors(id, v)[n] = Sector(id, v, n) /\ Sector(id, v, n) \in Kind
  <1>1. PICK l \in Nat : l = Lens(id, 0) /\ l <= NorSize
    <2>1. Lens(id, 0) \in Nat \ {0} /\ Place(id) \in 1 .. Top /\ Place(id) + Lens(id, 0) - 1 \in 1 .. Top
      BY Spots
    <2> QED BY <2>1, Spots, Layout
  <1>2. Lens(id, v) = l
    BY <1>1, SameLens DEF Ids
  <1>3. \A n \in 1 .. l : Sector(id, v, n) \in Kind
    <2>1. \A n \in 1 .. l : n \in 0 .. NorSize
      BY <1>1, Layout
    <2> QED BY <2>1 DEF Sector, Kind, Content
  <1>4. Sectors(id, v) = [n \in 1 .. l |-> Sector(id, v, n)]
    BY <1>2 DEF Sectors
  <1>5. Sectors(id, v) \in [1 .. l -> Kind]
    BY <1>3, <1>4
  <1>6. Sectors(id, v) \in Seq(Kind)
    BY <1>5, IsASeq
  <1>7. Len(Sectors(id, v)) = l
    BY <1>5, <1>6, LenProperties
  <1> QED BY <1>1, <1>3, <1>4, <1>6, <1>7

\* An image holds its four chunks in their places.
LEMMA ImageIs ==
  ASSUME FixedLayout, NEW v \in Versions, NEW user \in Versions \cup {Mine}
  PROVE  /\ Image(v, user) \in Seq(Kind) /\ DOMAIN Image(v, user) = 1 .. Top /\ Len(Image(v, user)) = Top
         /\ \A id \in Slots : Holds(Image(v, user), id, v)
         /\ Holds(Image(v, user), "user", user)
  <1> DEFINE A == Sectors("loader", v)
             B == Sectors("main", v)
             C == Sectors("rsc", v)
             D == Sectors("user", user)
             I == Image(v, user)
  <1>1. PICK a \in Nat, b \in Nat, c \in Nat, d \in Nat :
          a = Lens("loader", 0) /\ b = Lens("main", 0) /\ c = Lens("rsc", 0) /\ d = Lens("user", 0)
    BY Layout
  <1>2. /\ Place("loader") = 1 /\ Place("main") = a + 1 /\ Place("rsc") = a + b + 1 /\ Place("user") = a + b + c + 1
        /\ Top = a + b + c + d
    BY <1>1, Layout
  <1>3. /\ A \in Seq(Kind) /\ B \in Seq(Kind) /\ C \in Seq(Kind) /\ D \in Seq(Kind)
        /\ Len(A) = a /\ Len(B) = b /\ Len(C) = c /\ Len(D) = d
    BY <1>1, SectorsAre DEF Ids
  <1>4. /\ \A n \in 1 .. a : A[n] = Sector("loader", v, n)
        /\ \A n \in 1 .. b : B[n] = Sector("main", v, n)
        /\ \A n \in 1 .. c : C[n] = Sector("rsc", v, n)
        /\ \A n \in 1 .. d : D[n] = Sector("user", user, n)
    BY <1>1, SectorsAre DEF Ids
  <1>5. I = A \o B \o C \o D
    BY DEF Image
  <1> HIDE DEF A, B, C, D, I
  <1>a. FourPlaces(Kind, a, A, b, B, c, C, d, D, I)
    BY <1>3, <1>5, FourInRow
  <1>6. /\ I \in Seq(Kind) /\ Len(I) = a + b + c + d /\ DOMAIN I = 1 .. a + b + c + d
        /\ \A n \in 1 .. a : I[1 + n - 1] = A[n]
        /\ \A n \in 1 .. b : I[(a + 1) + n - 1] = B[n]
        /\ \A n \in 1 .. c : I[(a + b + 1) + n - 1] = C[n]
        /\ \A n \in 1 .. d : I[(a + b + c + 1) + n - 1] = D[n]
    BY <1>a DEF FourPlaces
  <1>7. /\ Holds(I, "loader", v) /\ Holds(I, "main", v) /\ Holds(I, "rsc", v) /\ Holds(I, "user", user)
    BY <1>1, <1>2, <1>4, <1>6 DEF Holds
  <1> QED BY <1>2, <1>6, <1>7 DEF Slots, I

\* A buffer that holds four chunks has their headers in place.
LEMMA HeldPlaced ==
  ASSUME NEW m, 1 .. Top \subseteq DOMAIN m, NEW v \in Versions, NEW u,
         \A id \in Slots : Holds(m, id, v), Holds(m, "user", u)
  PROVE  Placed(m) /\ \A id \in Slots : IsHead(m[Place(id)])
  <1>1. \A id \in Slots : m[Place(id)] = Sector(id, v, 1)
    BY HeldHead DEF Slots, Ids
  <1>2. m[Place("user")] = Sector("user", u, 1)
    BY HeldHead DEF Ids
  <1>3. \A id \in Slots : IsHead(m[Place(id)]) /\ m[Place(id)].id = id /\ m[Place(id)].ver = v
    BY <1>1 DEF IsHead, Sector, Slots, Ids
  <1> QED BY <1>2, <1>3 DEF Placed, Headed, Slots

\* Where __upg_restore_chunk looks for the owner's chunk by the table.
LEMMA OffsetIs ==
  ASSUME FixedLayout, NEW t, TableOk(t), t # <<>>
  PROVE  /\ UserOffset(t) + 1 = Place("user")
         /\ \E k \in DOMAIN t : t[k].id = "user"
  <1>1. /\ t \in Seq(Entry) /\ FourOf(t, 0) /\ SizeTo(t)[3] = Place("user") - 1 /\ Len(t) \in Nat /\ Len(t) >= 4
        /\ t[1].id = "loader" /\ t[2].id = "main" /\ t[3].id = "rsc" /\ t[4].id = "user"
    BY FourSizes DEF TableOk
  <1> DEFINE First(k) == k \in 1 .. Len(t) /\ t[k].id = "user" /\ \A j \in 1 .. k - 1 : t[j].id # "user"
             k == CHOOSE k \in 1 .. Len(t) : t[k].id = "user" /\ \A j \in 1 .. k - 1 : t[j].id # "user"
  <1>2. First(4)
    <2>1. \A j \in 1 .. 4 - 1 : j = 1 \/ j = 2 \/ j = 3
      OBVIOUS
    <2> QED BY <1>1, <2>1
  <1>3. First(k)
    BY <1>2
  <1>4. k = 4
    <2>1. k \in 1 .. Len(t) /\ t[k].id = "user"
      BY <1>3
    <2>2. k # 1 /\ k # 2 /\ k # 3
      BY <1>1, <2>1
    <2>3. ~(k > 4)
      <3>1. k > 4 => 4 \in 1 .. k - 1
        BY <2>1
      <3> QED BY <1>1, <1>3, <3>1
    <2> HIDE DEF k
    <2> QED BY <2>1, <2>2, <2>3
  <1>5. UserOffset(t) = SizeTo(t)[k - 1]
    BY DEF UserOffset
  <1> HIDE DEF k
  <1>6. UserOffset(t) = Place("user") - 1
    <2>1. k - 1 = 3
      BY <1>4
    <2> QED BY <1>1, <1>5, <2>1
  <1>7. 4 \in DOMAIN t
    BY <1>1, LenProperties
  <1> QED BY <1>1, <1>6, <1>7, Spots DEF Ids

\* The owner's chunk is the last one.
LEMMA Ends ==
  /\ Place("user") \in Nat /\ Place("user") >= 1 /\ UserLen \in Nat \ {0} /\ Lens("user", 0) = UserLen /\ Top \in Nat
  /\ Place("user") + UserLen - 1 = Top
  /\ \A id \in Slots : Place(id) \in Nat /\ Lens(id, 0) \in Nat /\ Place(id) + Lens(id, 0) <= Place("user")
  <1>1. PICK a \in Nat, b \in Nat, c \in Nat, d \in Nat \ {0} :
          a = LoaderLen /\ b = MainLen[0] /\ c = RscLen /\ d = UserLen
    BY Layout
  <1>2. /\ Place("loader") = 1 /\ Place("main") = a + 1 /\ Place("rsc") = a + b + 1 /\ Place("user") = a + b + c + 1
        /\ Top = a + b + c + d
        /\ Lens("loader", 0) = a /\ Lens("main", 0) = b /\ Lens("rsc", 0) = c /\ Lens("user", 0) = d
    BY <1>1, Layout
  <1>3. Place("user") \in Nat /\ Place("user") >= 1 /\ Place("user") + d - 1 = Top /\ Top \in Nat
    BY <1>2
  <1>4. ASSUME NEW id \in Slots
        PROVE  Place(id) \in Nat /\ Lens(id, 0) \in Nat /\ Place(id) + Lens(id, 0) <= Place("user")
    <2>1. CASE id = "loader" BY <1>2, <2>1
    <2>2. CASE id = "main" BY <1>2, <2>2
    <2>3. CASE id = "rsc" BY <1>2, <2>3
    <2> QED BY <2>1, <2>2, <2>3 DEF Slots
  <1> QED BY <1>1, <1>2, <1>3, <1>4

\* An image is burnt with the owner's data where they are: those of the flash.
LEMMA KeptIs ==
  ASSUME FixedLayout, Proper, TableOk(stb.table), stb.table # <<>>, NEW v \in Versions,
         NEW K, K = Kept(Image(v, v))
  PROVE  /\ K \in Seq(Kind) /\ DOMAIN K = 1 .. Top /\ Len(K) = Top
         /\ Intact(K) /\ Owners(K)
  <1> DEFINE img == Image(v, v)
             m == Buffer(img)
             old == OldUser(m)
             new == Found(img, "user")
             p == Place("user")
  <1>1. /\ img \in Seq(Kind) /\ DOMAIN img = 1 .. Top
        /\ \A id \in Slots : Holds(img, id, v)
        /\ Holds(img, "user", v)
    BY ImageIs
  <1>2. new = p
    <2>1. 1 .. Top \subseteq DOMAIN img
      BY <1>1
    <2> HIDE DEF img
    <2>2. Placed(img) /\ \A id \in Slots : IsHead(img[Place(id)])
      BY <1>1, <2>1, HeldPlaced
    <2> QED BY <2>2, FoundInPlace DEF Ids
  <1>3. m = [i \in 1 .. Top |-> flash[i]]
    <2>1. \A i \in 1 .. Top : i <= Size(stb.table) /\ i \in DOMAIN flash
      <3>1. Size(stb.table) \in Nat /\ Size(stb.table) >= Top
        BY TableSize
      <3> QED BY <3>1, Spots DEF Proper
    <2> HIDE DEF img
    <2> QED BY <1>1, <2>1 DEF Buffer
  <1> HIDE DEF m
  <1>4. DOMAIN m = 1 .. Top /\ \A i \in 1 .. Top : m[i] = flash[i]
    BY <1>3
  <1>5. Placed(m)
    <2>1. Placed(flash)
      BY ProperPlaced
    <2>2. \A id \in Ids : m[Place(id)] = flash[Place(id)]
      BY <1>4, Spots
    <2> QED BY <1>4, <2>1, <2>2 DEF Placed, Headed, Slots, Ids
  <1>6. old = p
    <2>1. Found(m, "user") \in {0, p}
      BY <1>5, FoundInPlace DEF Ids
    <2>2. p # 0
      BY Spots DEF Ids
    <2> QED BY <2>1, <2>2, OffsetIs DEF OldUser
  <1> HIDE DEF old, new
  <1>7. /\ old \in DOMAIN m /\ IsHead(m[old]) /\ Lens(m[old].id, m[old].ver) = UserLen
    <2>1. flash[p] = Sector("user", Mine, 1) /\ p \in 1 .. Top
      BY HeldHead, Spots DEF Proper, Owners, Ids
    <2>2. m[old] = Sector("user", Mine, 1) /\ old \in DOMAIN m
      BY <1>4, <1>6, <2>1
    <2> QED BY <2>2 DEF IsHead, Sector, Lens, Ids
  <1>8. K = [i \in DOMAIN img |->
               IF i \in new .. new + UserLen - 1
               THEN IF old + i - new \in DOMAIN m THEN m[old + i - new] ELSE Junk
               ELSE img[i]]
    BY <1>7 DEF Kept, old, new, m
  <1> HIDE DEF img, p
  <1>9. p \in Nat /\ \A i \in p .. p + UserLen - 1 : i \in 1 .. Top /\ i \in Nat /\ p + i - p = i
    <2>1. p \in Nat /\ p >= 1 /\ UserLen \in Nat /\ p + UserLen - 1 = Top
      BY Ends DEF p
    <2> QED BY <2>1
  <1>10. \A i \in 1 .. Top : K[i] = IF i \in p .. p + UserLen - 1 THEN flash[i] ELSE img[i]
    BY <1>1, <1>2, <1>4, <1>6, <1>8, <1>9
  <1>11. DOMAIN K = 1 .. Top /\ K = [i \in 1 .. Top |-> K[i]]
    BY <1>1, <1>8
  <1>12. \A i \in 1 .. Top : K[i] \in Kind
    <2>1. \A i \in 1 .. Top : flash[i] \in Kind
      BY Spots DEF Proper
    <2>2. \A i \in 1 .. Top : img[i] \in Kind
      BY <1>1, ElementOfSeq, LenProperties
    <2> QED BY <1>10, <2>1, <2>2
  <1>13. K \in Seq(Kind) /\ Len(K) = Top
    <2>1. K \in [1 .. Top -> Kind]
      BY <1>11, <1>12
    <2>2. K \in Seq(Kind)
      BY <2>1, Spots, IsASeq
    <2> QED BY <1>11, <2>2, LenProperties, Spots, SameLength
  <1>14. ASSUME NEW id \in Slots PROVE Holds(K, id, v)
    <2> SUFFICES ASSUME NEW n \in 1 .. Lens(id, 0) PROVE K[Place(id) + n - 1] = Sector(id, v, n)
      BY DEF Holds
    <2>1. Place(id) + n - 1 \in 1 .. Top
      BY Spots DEF Slots, Ids
    <2>2. Place(id) + n - 1 < p
      <3>1. Place(id) \in Nat /\ Lens(id, 0) \in Nat /\ Place(id) + Lens(id, 0) <= p
        BY Ends DEF p
      <3> QED BY <1>9, <3>1
    <2>3. K[Place(id) + n - 1] = img[Place(id) + n - 1]
      BY <1>9, <1>10, <2>1, <2>2
    <2> QED BY <1>1, <2>3 DEF Holds
  <1>15. Owners(K)
    <2> SUFFICES ASSUME NEW n \in 1 .. Lens("user", 0) PROVE K[Place("user") + n - 1] = Sector("user", Mine, n)
      BY DEF Owners, Holds
    <2>1. p + n - 1 \in p .. p + UserLen - 1 /\ p + n - 1 \in 1 .. Top
      BY <1>9, Layout
    <2>2. K[p + n - 1] = flash[p + n - 1]
      BY <1>10, <2>1
    <2> QED BY <2>2 DEF Proper, Owners, Holds, p
  <1>16. Intact(K)
    BY <1>14 DEF Intact, Slots
  <1> QED BY <1>11, <1>13, <1>15, <1>16
------------------------------------------------------------------------------
(* The chunks burnt one by one. *)

\* A table that fits lists the chunks as they lie in the flash.
LEMMA TableFitsFlash ==
  ASSUME FixedLayout, NEW t, TableOk(t), t # <<>>, Size(t) <= NorSize
  PROVE  /\ t \in Seq(Entry) /\ DOMAIN t = 1 .. 4 /\ Size(t) = Top
         /\ \A k \in 1 .. 4 : /\ t[k] \in Entry /\ t[k].id = Order[k] /\ SizeTo(t)[k - 1] + 1 = Place(Order[k])
                              /\ SizeTo(t)[k] = Place(Order[k]) + Lens(Order[k], 0) - 1
  <1>1. t \in Seq(Entry) /\ FourOf(t, 0) /\ Len(t) = 4 /\ Size(t) = Top /\ DOMAIN t = 1 .. Len(t)
    BY TableSize, LenProperties DEF TableOk
  <1>2. /\ SizeTo(t)[0] = 0 /\ SizeTo(t)[1] = Place("main") - 1 /\ SizeTo(t)[2] = Place("rsc") - 1
        /\ SizeTo(t)[3] = Place("user") - 1 /\ SizeTo(t)[4] = Top
        /\ t[1].id = "loader" /\ t[2].id = "main" /\ t[3].id = "rsc" /\ t[4].id = "user"
    BY <1>1, FourSizes
  <1>3. PICK a \in Nat, b \in Nat, c \in Nat, d \in Nat :
          a = LoaderLen /\ b = MainLen[0] /\ c = RscLen /\ d = UserLen
    BY Layout
  <1>4. /\ Place("loader") = 1 /\ Place("main") = a + 1 /\ Place("rsc") = a + b + 1 /\ Place("user") = a + b + c + 1
        /\ Top = a + b + c + d
        /\ Lens("loader", 0) = a /\ Lens("main", 0) = b /\ Lens("rsc", 0) = c /\ Lens("user", 0) = d
    BY <1>3, Layout
  <1>5. ASSUME NEW k \in 1 .. 4 PROVE t[k] \in Entry
    BY <1>1, ElementOfSeq
  <1>6. ASSUME NEW k \in 1 .. 4
        PROVE  /\ t[k].id = Order[k] /\ SizeTo(t)[k - 1] + 1 = Place(Order[k])
               /\ SizeTo(t)[k] = Place(Order[k]) + Lens(Order[k], 0) - 1
    <2>1. CASE k = 1 BY <1>2, <1>4, <2>1 DEF Order
    <2>2. CASE k = 2 BY <1>2, <1>4, <2>2 DEF Order
    <2>3. CASE k = 3 BY <1>2, <1>4, <2>3 DEF Order
    <2>4. CASE k = 4 BY <1>2, <1>4, <2>4 DEF Order
    <2> QED BY <2>1, <2>2, <2>3, <2>4
  <1> QED BY <1>1, <1>5, <1>6

\* A sector belongs to one chunk.
Inside(k, i) == Place(Order[k]) <= i /\ i <= Place(Order[k]) + Lens(Order[k], 0) - 1

\* Every sector below Top belongs to exactly one chunk.
LEMMA OneInside ==
  /\ \A i \in 1 .. Top : \E k \in 1 .. 4 : Inside(k, i)
  /\ \A i \in 1 .. Top : \A k, j \in 1 .. 4 : Inside(k, i) /\ Inside(j, i) => k = j
  /\ \A k \in 1 .. 4 : \A n \in 1 .. Lens(Order[k], 0) : Inside(k, Place(Order[k]) + n - 1)
  <1>1. PICK a \in Nat, b \in Nat, c \in Nat, d \in Nat :
          a = LoaderLen /\ b = MainLen[0] /\ c = RscLen /\ d = UserLen
    BY Layout
  <1>2. /\ Place("loader") = 1 /\ Place("main") = a + 1 /\ Place("rsc") = a + b + 1 /\ Place("user") = a + b + c + 1
        /\ Top = a + b + c + d
        /\ Lens("loader", 0) = a /\ Lens("main", 0) = b /\ Lens("rsc", 0) = c /\ Lens("user", 0) = d
    BY <1>1, Layout
  <1>3. \A i \in 1 .. Top :
          /\ Inside(1, i) <=> 1 <= i /\ i <= a
          /\ Inside(2, i) <=> a + 1 <= i /\ i <= a + b
          /\ Inside(3, i) <=> a + b + 1 <= i /\ i <= a + b + c
          /\ Inside(4, i) <=> a + b + c + 1 <= i /\ i <= a + b + c + d
    BY <1>2 DEF Inside, Order
  <1>4. \A k \in 1 .. 4 : k = 1 \/ k = 2 \/ k = 3 \/ k = 4
    OBVIOUS
  <1>5. ASSUME NEW i \in 1 .. Top PROVE \E k \in 1 .. 4 : Inside(k, i)
    <2>1. i \in Nat /\ i >= 1 /\ i <= a + b + c + d
      BY <1>2
    <2>2. Inside(1, i) \/ Inside(2, i) \/ Inside(3, i) \/ Inside(4, i)
      BY <1>3, <2>1
    <2> QED BY <2>2
  <1>6. ASSUME NEW i \in 1 .. Top, NEW k \in 1 .. 4, NEW j \in 1 .. 4, Inside(k, i), Inside(j, i) PROVE k = j
    <2>1. i \in Nat
      OBVIOUS
    <2>2. /\ ~(Inside(1, i) /\ Inside(2, i)) /\ ~(Inside(1, i) /\ Inside(3, i)) /\ ~(Inside(1, i) /\ Inside(4, i))
          /\ ~(Inside(2, i) /\ Inside(3, i)) /\ ~(Inside(2, i) /\ Inside(4, i)) /\ ~(Inside(3, i) /\ Inside(4, i))
      BY <1>3, <2>1
    <2> QED BY <1>4, <1>6, <2>2
  <1>7. ASSUME NEW k \in 1 .. 4, NEW n \in 1 .. Lens(Order[k], 0) PROVE Inside(k, Place(Order[k]) + n - 1)
    <2>1. Order[k] \in Ids
      BY <1>4 DEF Order, Ids
    <2>2. Place(Order[k]) \in Nat /\ Lens(Order[k], 0) \in Nat
      BY <2>1, Spots
    <2> QED BY <2>2 DEF Inside
  <1> QED BY <1>5, <1>6, <1>7

\* A chunk whose CRC is right in its place in the flash.
LEMMA WholeHolds ==
  ASSUME FixedLayout, Proper, NEW id \in Slots
  PROVE  /\ flash[Place(id)].ver \in Versions
         /\ Whole(flash, Place(id)) <=> Holds(flash, id, flash[Place(id)].ver)
  <1>1. /\ Placed(flash) /\ DOMAIN flash = 1 .. NorSize /\ 1 .. Top \subseteq 1 .. NorSize
        /\ Place(id) \in 1 .. NorSize /\ id \in Ids
        /\ \A n \in 1 .. Lens(id, 0) : Place(id) + n - 1 \in 1 .. NorSize
    BY ProperPlaced, Spots DEF Proper, Slots, Ids
  <1>2. flash[Place(id)].ver \in Versions /\ flash[Place(id)].id \in {id, "blank"}
    BY <1>1 DEF Placed, Headed, Slots
  <1>3. ASSUME Whole(flash, Place(id)) PROVE Holds(flash, id, flash[Place(id)].ver)
    <2>1. IsHead(flash[Place(id)]) /\ flash[Place(id)].id = id /\ id # "user"
      BY <1>2, <1>3 DEF Whole, IsHead, Ids, Slots
    <2>2. Lens(id, flash[Place(id)].ver) = Lens(id, 0)
      BY <1>1, <1>2, SameLens
    <2> QED BY <1>3, <2>1, <2>2 DEF Whole, Holds
  <1>4. ASSUME Holds(flash, id, flash[Place(id)].ver) PROVE Whole(flash, Place(id))
    <2> DEFINE x == flash[Place(id)].ver
    <2>1. flash[Place(id)] = Sector(id, x, 1)
      BY <1>1, <1>4, HeldHead
    <2> HIDE DEF x
    <2>2. IsHead(flash[Place(id)]) /\ flash[Place(id)].id = id /\ flash[Place(id)].ver = x
      BY <1>1, <2>1 DEF IsHead, Sector, Ids
    <2>3. Lens(id, x) = Lens(id, 0)
      BY <1>1, <1>2, <2>2, SameLens
    <2> QED BY <1>1, <1>4, <2>2, <2>3 DEF Whole, Holds, x
  <1> QED BY <1>2, <1>3, <1>4

\* What a burn by chunks starts from.
Burning ==
  /\ Proper /\ TableOk(stb.table) /\ stb.table # <<>> /\ Size(stb.table) <= NorSize /\ Loader(flash, 1) /\ Shape
  /\ offer \in Streams /\ offer.mode = "chunk"

\* The entries of the table, and where their chunks lie.
LEMMA BurningTable ==
  ASSUME FixedLayout, Burning
  PROVE  /\ DOMAIN stb.table = 1 .. 4 /\ Size(stb.table) = Top /\ offer.sw \in Versions
         /\ \A k \in 1 .. 4 : /\ stb.table[k].id = Order[k] /\ AtOf(k) = Place(Order[k])
                              /\ SizeTo(stb.table)[k] = Place(Order[k]) + Lens(Order[k], 0) - 1
                              /\ stb.table[k] \in Entry
  <1>1. offer.sw \in Versions
    BY UpgradeFlowAssumption DEF Burning
  <1> QED BY <1>1, TableFitsFlash DEF Burning, AtOf

\* The owner's chunk is not asked for and passes, so it stays.
LEMMA UserStays ==
  ASSUME FixedLayout, Burning
  PROVE  4 \notin Upgraded
  <1>1. stb.table[4].id = "user" /\ AtOf(4) = Place("user") /\ Order[4] = "user"
    BY BurningTable DEF Order
  <1>2. flash[Place("user")] = Sector("user", Mine, 1) /\ Place("user") \in DOMAIN flash
    BY HeldHead, Spots DEF Burning, Proper, Owners, Ids
  <1>3. Whole(flash, Place("user"))
    <2>1. IsHead(flash[Place("user")]) /\ flash[Place("user")].id = "user"
      BY <1>2 DEF IsHead, Sector, Ids
    <2> QED BY <1>2, <2>1 DEF Whole
  <1>4. Flag(4) = 0
    BY <1>1, <1>3 DEF Flag
  <1> QED BY <1>4 DEF Upgraded

\* The others are replaced as a whole, unless they are whole and old enough.
LEMMA OthersBurnt ==
  ASSUME FixedLayout, AsksForBoth, Burning, NEW k \in 1 .. 3
  PROVE  /\ Flag(k) # 3
         /\ k \notin Upgraded => /\ Holds(flash, Order[k], flash[Place(Order[k])].ver)
                                 /\ flash[Place(Order[k])].ver \in Versions
                                 /\ Newest /\ k # 1 => flash[Place(Order[k])].ver = offer.sw
  <1> DEFINE id == Order[k]
             at == Place(id)
             asked == offer.flag[id]
  <1>1. /\ k \in 1 .. 4 /\ id \in Slots /\ (k = 1 => id = "loader") /\ (k # 1 => id \in {"main", "rsc"})
    BY DEF Order, Slots
  <1>2. stb.table[k].id = id /\ AtOf(k) = at /\ k \in DOMAIN stb.table /\ id # "user" /\ offer.sw \in Versions
    BY <1>1, BurningTable DEF Slots
  <1>3. asked \in 0 .. 2 /\ (k # 1 => asked # 0)
    <2>1. offer.flag \in [{"loader", "main", "rsc"} -> 0 .. 2]
      BY UpgradeFlowAssumption DEF Burning
    <2>2. offer.flag["main"] # 0 /\ offer.flag["rsc"] # 0
      BY DEF AsksForBoth, Burning
    <2> QED BY <1>1, <2>1, <2>2 DEF Slots
  <1>4. /\ flash[at].ver \in Versions
        /\ Whole(flash, at) <=> Holds(flash, id, flash[at].ver)
    BY <1>1, WholeHolds DEF Burning
  <1>5. k = 1 => Whole(flash, at)
    <2>1. Place("loader") = 1
      BY Layout
    <2>2. LoaderWhole
      BY WholeIsLoader DEF Burning
    <2> QED BY <1>1, <2>1, <2>2 DEF LoaderWhole
  <1>6. Flag(k) = CASE ~Whole(flash, at) -> asked + 3
            [] Whole(flash, at) /\ asked = 1 /\ offer.sw <= flash[at].ver /\ stb.table[k].ver = flash[at].ver -> 0
            [] OTHER -> asked
    BY <1>2 DEF Flag
  <1> HIDE DEF at, asked
  <1>7. CASE ~Whole(flash, at)
    <2>1. Flag(k) = asked + 3 /\ k # 1
      BY <1>5, <1>6, <1>7
    <2>2. Flag(k) # 3 /\ Flag(k) # 0
      BY <1>3, <2>1
    <2> QED BY <1>2, <2>2 DEF Upgraded
  <1>8. CASE Whole(flash, at) /\ asked = 1 /\ offer.sw <= flash[at].ver /\ stb.table[k].ver = flash[at].ver
    <2>1. Flag(k) = 0
      BY <1>6, <1>8
    <2>2. Newest /\ k # 1 => flash[at].ver <= offer.sw
      BY <1>1, <1>4, <1>8 DEF Newest, Burning, asked
    <2>3. Newest /\ k # 1 => flash[at].ver = offer.sw
      <3>1. flash[at].ver \in Nat /\ offer.sw \in Nat
        BY <1>2, <1>4, UpgradeFlowAssumption
      <3> QED BY <1>8, <2>2, <3>1
    <2> QED BY <1>4, <1>8, <2>1, <2>3 DEF at
  <1>9. CASE Whole(flash, at) /\ ~(asked = 1 /\ offer.sw <= flash[at].ver /\ stb.table[k].ver = flash[at].ver)
    <2>1. Flag(k) = asked
      BY <1>6, <1>9
    <2>2. Flag(k) # 3
      BY <1>3, <2>1
    <2>3. k \notin Upgraded => k = 1
      BY <1>2, <1>3, <2>1 DEF Upgraded
    <2> QED BY <1>4, <1>9, <2>2, <2>3 DEF at
  <1> QED BY <1>7, <1>8, <1>9

\* What __upg_reorg_part puts into a sector.
LEMMA ReorganisedAt ==
  ASSUME FixedLayout, AsksForBoth, Burning, NEW k \in 1 .. 4, NEW n \in 1 .. Lens(Order[k], 0),
         NEW i, i = Place(Order[k]) + n - 1
  PROVE  /\ i \in 1 .. Top
         /\ Reorganised[i] = IF k \in Upgraded THEN Sector(Order[k], offer.sw, n) ELSE flash[i]
  <1>1. /\ Order[k] \in Ids /\ (k = 4 \/ k \in 1 .. 3)
    BY DEF Order, Ids
  <1>2. i \in 1 .. Top /\ Inside(k, i) /\ Place(Order[k]) \in Nat /\ Lens(Order[k], 0) \in Nat
    BY <1>1, OneInside, Spots
  <1> DEFINE C(j) == AtOf(j) <= i /\ i <= SizeTo(stb.table)[j]
             c == CHOOSE j \in DOMAIN stb.table : C(j)
  <1>3. DOMAIN stb.table = 1 .. 4 /\ Size(stb.table) = Top /\ \A j \in 1 .. 4 : C(j) <=> Inside(j, i)
    BY BurningTable DEF Inside
  <1>4. c \in 1 .. 4 /\ C(c)
    BY <1>2, <1>3
  <1>5. c = k
    <2>1. Inside(c, i)
      BY <1>3, <1>4
    <2> HIDE DEF c
    <2> QED BY <1>2, <1>4, <2>1, OneInside
  <1>6. Reorganised[i] =
          CASE c \notin Upgraded -> flash[i]
            [] Flag(c) = 3 -> IF i = AtOf(c) THEN Sector(stb.table[c].id, offer.sw, 0) ELSE flash[i]
            [] OTHER -> Sector(stb.table[c].id, offer.sw, i - AtOf(c) + 1)
    BY <1>2, <1>3 DEF Reorganised
  <1> HIDE DEF c
  <1>7. k \in Upgraded => Flag(k) # 3
    BY <1>1, UserStays, OthersBurnt
  <1>8. stb.table[k].id = Order[k] /\ i - AtOf(k) + 1 = n
    <2>1. AtOf(k) = Place(Order[k]) /\ stb.table[k].id = Order[k]
      BY BurningTable
    <2> QED BY <1>2, <2>1
  <1>9. CASE k \in Upgraded
    <2>1. Reorganised[i] = Sector(stb.table[k].id, offer.sw, i - AtOf(k) + 1)
      BY <1>5, <1>6, <1>7, <1>9
    <2> QED BY <1>2, <1>8, <1>9, <2>1
  <1>10. CASE k \notin Upgraded
    <2>1. Flag(k) # 3
      BY <1>3, <1>10 DEF Upgraded
    <2>2. Reorganised[i] = flash[i]
      BY <1>5, <1>6, <1>10, <2>1
    <2> QED BY <1>2, <1>10, <2>2
  <1> QED BY <1>9, <1>10

\* Which chunk a sector belongs to, and which part of it it is.
LEMMA PartOf ==
  ASSUME NEW i \in 1 .. Top
  PROVE  \E k \in 1 .. 4 : \E n \in 1 .. Lens(Order[k], 0) : i = Place(Order[k]) + n - 1
  <1>1. PICK k \in 1 .. 4 : Inside(k, i)
    BY OneInside
  <1>2. Place(Order[k]) \in Nat /\ Lens(Order[k], 0) \in Nat /\ i \in Nat
    BY Spots DEF Order, Ids
  <1>3. i - Place(Order[k]) + 1 \in 1 .. Lens(Order[k], 0) /\ i = Place(Order[k]) + (i - Place(Order[k]) + 1) - 1
    BY <1>1, <1>2 DEF Inside
  <1> QED BY <1>3

\* So what is burnt is a whole set of chunks, with the owner's data.
LEMMA ReorganisedIs ==
  ASSUME FixedLayout, AsksForBoth, Burning
  PROVE  /\ Reorganised \in Seq(Kind) /\ DOMAIN Reorganised = 1 .. Top /\ Len(Reorganised) = Top
         /\ Intact(Reorganised) /\ Owners(Reorganised)
         /\ Upgraded = {} => Intact(flash)
  <1> DEFINE R == Reorganised
             Ver(k) == IF k \in Upgraded THEN offer.sw ELSE flash[Place(Order[k])].ver
  <1>1. /\ Order[1] = "loader" /\ Order[2] = "main" /\ Order[3] = "rsc" /\ Order[4] = "user"
        /\ \A k \in 1 .. 4 : Order[k] \in Ids /\ (k = 4 \/ k \in 1 .. 3)
    BY DEF Order, Ids
  <1>2. offer.sw \in Versions
    BY BurningTable
  <1>3. ASSUME NEW k \in 1 .. 3 PROVE Holds(R, Order[k], Ver(k)) /\ Ver(k) \in Versions
    <2> SUFFICES ASSUME NEW n \in 1 .. Lens(Order[k], 0) PROVE R[Place(Order[k]) + n - 1] = Sector(Order[k], Ver(k), n)
      BY <1>2, OthersBurnt DEF Holds
    <2>1. k \in 1 .. 4
      OBVIOUS
    <2>2. R[Place(Order[k]) + n - 1] =
            IF k \in Upgraded THEN Sector(Order[k], offer.sw, n) ELSE flash[Place(Order[k]) + n - 1]
      BY <2>1, ReorganisedAt
    <2> HIDE DEF R
    <2> QED BY <2>2, OthersBurnt DEF Holds
  <1>4. Newest => Ver(2) = Ver(3)
    BY OthersBurnt
  <1>5. Upgraded = {} => \A k \in 1 .. 3 : Holds(flash, Order[k], Ver(k))
    BY OthersBurnt
  <1>6. Owners(R)
    <2> SUFFICES ASSUME NEW n \in 1 .. Lens("user", 0) PROVE R[Place("user") + n - 1] = Sector("user", Mine, n)
      BY DEF Owners, Holds
    <2>1. R[Place(Order[4]) + n - 1] = flash[Place(Order[4]) + n - 1]
      BY <1>1, ReorganisedAt, UserStays
    <2> QED BY <1>1, <2>1 DEF Burning, Proper, Owners, Holds
  <1>7. ASSUME NEW i \in 1 .. Top PROVE R[i] \in Kind
    <2>1. PICK k \in 1 .. 4 : \E n \in 1 .. Lens(Order[k], 0) : i = Place(Order[k]) + n - 1
      BY PartOf
    <2>2. PICK n \in 1 .. Lens(Order[k], 0) : i = Place(Order[k]) + n - 1
      BY <2>1
    <2>3. R[i] = IF k \in Upgraded THEN Sector(Order[k], offer.sw, n) ELSE flash[i]
      BY <2>2, ReorganisedAt
    <2>4. Sector(Order[k], offer.sw, n) \in Kind
      BY <1>1, <1>2, SectorsAre
    <2>5. flash[i] \in Kind
      BY Spots DEF Burning, Proper
    <2> QED BY <2>3, <2>4, <2>5
  <1>8. DOMAIN R = 1 .. Top /\ R = [i \in 1 .. Top |-> R[i]]
    <2>1. Size(stb.table) = Top
      BY BurningTable
    <2> QED BY <2>1 DEF Reorganised
  <1>9. Intact(R)
    <2>1. Holds(R, "loader", Ver(1)) /\ Holds(R, "main", Ver(2)) /\ Holds(R, "rsc", Ver(3))
      BY <1>1, <1>3
    <2>2. Ver(1) \in Versions /\ Ver(2) \in Versions /\ Ver(3) \in Versions
      BY <1>3
    <2> HIDE DEF R, Ver
    <2> QED BY <1>4, <2>1, <2>2 DEF Intact
  <1>10. Upgraded = {} => Intact(flash)
    <2> SUFFICES ASSUME Upgraded = {} PROVE Intact(flash)
      OBVIOUS
    <2>1. Holds(flash, "loader", Ver(1)) /\ Holds(flash, "main", Ver(2)) /\ Holds(flash, "rsc", Ver(3))
      BY <1>1, <1>5
    <2>2. Ver(1) \in Versions /\ Ver(2) \in Versions /\ Ver(3) \in Versions
      BY <1>3
    <2> HIDE DEF Ver
    <2> QED BY <1>4, <2>1, <2>2 DEF Intact
  <1> HIDE DEF R
  <1>11. R \in Seq(Kind) /\ Len(R) = Top
    <2>1. R \in [1 .. Top -> Kind] /\ Top \in Nat
      BY <1>7, <1>8, Spots
    <2>2. R \in Seq(Kind)
      BY <2>1, IsASeq
    <2> QED BY <2>1, <2>2, LenProperties
  <1> QED BY <1>6, <1>8, <1>9, <1>10, <1>11 DEF R

\* stb_info_data_update_part keeps the table's order.
LEMMA NewTableIs ==
  ASSUME TableOk(stb.table), stb.table # <<>>, offer.sw \in Versions, NEW N, N = NewTable
  PROVE  TableOk(N) /\ N # <<>>
  <1> DEFINE t == stb.table
  <1>1. t \in Seq(Entry) /\ Len(t) \in Nat /\ DOMAIN t = 1 .. Len(t) /\ FourOf(t, 0) /\ (Len(t) = 4 \/ FourOf(t, 4))
    BY LenProperties DEF TableOk
  <1>2. N = [k \in 1 .. Len(t) |-> IF k \in Upgraded THEN [t[k] EXCEPT !.ver = offer.sw] ELSE t[k]]
    BY <1>1 DEF NewTable
  <1> HIDE DEF t
  <1>3. \A k \in 1 .. Len(t) : t[k] \in Entry
    BY <1>1, ElementOfSeq
  <1>4. \A k \in 1 .. Len(t) : N[k] \in Entry /\ N[k].id = t[k].id
    BY <1>2, <1>3 DEF Entry, Chunk
  <1>5. DOMAIN N = 1 .. Len(t) /\ N \in [1 .. Len(t) -> Entry]
    BY <1>2, <1>4
  <1>6. N \in Seq(Entry) /\ Len(N) = Len(t)
    <2>1. N \in Seq(Entry)
      BY <1>1, <1>5, IsASeq
    <2> QED BY <1>1, <1>5, <2>1, LenProperties
  <1>7. \A n \in {0, 4} : FourOf(t, n) => FourOf(N, n)
    BY <1>1, <1>4, <1>5 DEF FourOf
  <1>8. N # <<>>
    BY <1>1, <1>5 DEF FourOf
  <1> QED BY <1>1, <1>6, <1>7, <1>8 DEF TableOk
------------------------------------------------------------------------------
(* Sectors written. *)

\* A copy over the chunks is only made while the upgrade is not complete.
LEMMA SettledIs ==
  ASSUME Records, Sync
  PROVE  /\ pc = "write" /\ job.then \in {"restored", "burnt", "chunks"} /\ Course => ~Settled
  BY DEF Records, Sync, Course, Settled, At, BootPlaces, AppPlaces, NoRecord, Good, Record

\* A copy writes behind the chunks, or the upgrade is not complete.
LEMMA WriteFacts ==
  ASSUME UInv, VInv, pc = "write"
  PROVE  /\ job.n \in 1 .. Len(job.src) /\ job.n \in Nat /\ job.to \in Nat /\ Here \in 1 .. NorSize
         /\ DOMAIN job.src = 1 .. Len(job.src) /\ Len(job.src) \in Nat
         /\ job.src[job.n] \in Kind
         /\ \/ ToSpare /\ Here > Top
            \/ FromSpare /\ ~Settled /\ Here = job.n /\ Here \in 1 .. LoaderLen
            \/ Part /\ ~Settled /\ Here = job.n /\ Here \in 1 .. Top
  <1>1. job.n \in 1 .. Len(job.src) /\ (ToSpare \/ FromSpare \/ Part) /\ job.src \in Seq(Kind)
    BY DEF UInv, Writing, VInv, Copying
  <1>2. DOMAIN job.src = 1 .. Len(job.src) /\ Len(job.src) \in Nat /\ job.src[job.n] \in Kind
    BY <1>1, LenProperties, ElementOfSeq
  <1>3. job.n \in Nat /\ LoaderLen \in Nat \ {0} /\ BackupAt \in Nat /\ BackupAt + LoaderLen - 1 = NorSize
        /\ Top \in Nat /\ Top < BackupAt /\ NorSize \in Nat
    BY <1>1, <1>2, Layout, Spots
  <1>4. CASE ToSpare
    <2>1. job.to = BackupAt /\ job.n \in 1 .. LoaderLen
      BY <1>1, <1>2, <1>4 DEF ToSpare
    <2>2. Here \in 1 .. NorSize /\ Here > Top
      BY <1>3, <2>1 DEF Here
    <2> QED BY <1>1, <1>2, <1>3, <1>4, <2>1, <2>2
  <1>5. CASE FromSpare
    <2>1. job.to = 1 /\ job.n \in 1 .. LoaderLen /\ ~Settled
      BY <1>1, <1>2, <1>5, SettledIs DEF FromSpare, VInv
    <2>2. Here = job.n /\ Here \in 1 .. NorSize
      BY <1>3, <2>1 DEF Here
    <2> QED BY <1>1, <1>2, <1>3, <1>5, <2>1, <2>2
  <1>6. CASE Part
    <2>1. job.to = 1 /\ job.n \in 1 .. Top /\ ~Settled
      BY <1>1, <1>2, <1>6, SettledIs DEF Part, VInv, Copying
    <2>2. Here = job.n /\ Here \in 1 .. NorSize
      BY <1>3, <2>1 DEF Here
    <2> QED BY <1>1, <1>2, <1>3, <1>6, <2>1, <2>2
  <1> QED BY <1>1, <1>4, <1>5, <1>6

\* What a sector may be given in a copy.
LEMMA WriteProper ==
  ASSUME UInv, VInv, pc = "write", Differs, NEW x \in Kind, x.id \in {"blank", job.src[job.n].id},
         NEW f, f = [flash EXCEPT ![Here] = x]
  PROVE  /\ f \in [1 .. NorSize -> Kind] /\ Owners(f) /\ Headed(f) /\ (Settled => Intact(f))
         /\ \A k \in 1 .. job.n - 1 : f[job.to + k - 1] = job.src[k]
  <1>1. /\ flash \in [1 .. NorSize -> Kind] /\ Owners(flash) /\ Headed(flash) /\ (Settled => Intact(flash))
        /\ \A k \in 1 .. job.n - 1 : flash[job.to + k - 1] = job.src[k]
    BY DEF VInv, Proper, Records, Copying
  <1>2. /\ job.n \in Nat /\ job.to \in Nat /\ Here \in 1 .. NorSize /\ Here = job.to + job.n - 1
    BY WriteFacts DEF Here
  <1>3. f \in [1 .. NorSize -> Kind] /\ f[Here] = x /\ \A i \in 1 .. NorSize : i # Here => f[i] = flash[i]
    BY <1>1, <1>2
  <1>4. Top \in Nat /\ \A i \in 1 .. Top : i \in 1 .. NorSize
    BY Spots
  <1>5. ASSUME NEW k \in 1 .. job.n - 1 PROVE f[job.to + k - 1] = job.src[k]
    <2>1. job.to + k - 1 # Here
      BY <1>2
    <2> QED BY <1>1, <1>2, <2>1
  <1>6. ASSUME NEW n \in 1 .. Lens("user", 0) PROVE f[Place("user") + n - 1] = Sector("user", Mine, n)
    <2> DEFINE i == Place("user") + n - 1
    <2>1. i \in 1 .. Top /\ flash[i] = Sector("user", Mine, n)
      BY <1>1, Spots DEF Owners, Holds, Ids
    <2>2. i # Here
      <3>1. CASE ToSpare /\ Here > Top
        <4>1. ~(Here \in 1 .. Top)
          BY <1>2, <1>4, <3>1
        <4> QED BY <2>1, <4>1
      <3>2. CASE FromSpare /\ Here \in 1 .. LoaderLen
        <4>1. i > LoaderLen
          <5>1. PICK a \in Nat, b \in Nat, c \in Nat : a = LoaderLen /\ Place("user") = a + b + c + 1
            BY Layout
          <5>2. n \in Nat /\ n >= 1
            BY Layout
          <5> QED BY <5>1, <5>2
        <4>2. ~(i \in 1 .. LoaderLen)
          BY <2>1, <4>1, Layout
        <4> QED BY <3>2, <4>2
      <3>3. CASE Part /\ Here = job.n
        <4>1. Owners(job.src)
          BY <3>3 DEF VInv, Copying
        <4>2. job.src[i] = Sector("user", Mine, n)
          BY <4>1 DEF Owners, Holds
        <4> QED BY <2>1, <3>3, <4>2 DEF Differs
      <3> QED BY <3>1, <3>2, <3>3, WriteFacts
    <2> QED BY <1>3, <1>4, <2>1, <2>2
  <1>7. ASSUME NEW id \in Slots PROVE f[Place(id)].id \in {id, "blank"}
    <2>1. Place(id) \in 1 .. Top /\ flash[Place(id)].id \in {id, "blank"}
      BY <1>1, Spots DEF Headed, Slots, Ids
    <2>2. CASE Place(id) # Here
      BY <1>3, <1>4, <2>1, <2>2
    <2>3. CASE Place(id) = Here
      <3>1. ~(Here > Top) /\ Here \in Nat
        BY <1>2, <1>4, <2>1, <2>3
      <3>2. CASE FromSpare /\ Here = job.n /\ Here \in 1 .. LoaderLen
        <4>1. id = "loader"
          <5>1. Place("main") > LoaderLen /\ Place("rsc") > LoaderLen
            <6>1. PICK a \in Nat, b \in Nat : a = LoaderLen /\ Place("main") = a + 1 /\ Place("rsc") = a + b + 1
              BY Layout
            <6> QED BY <6>1
          <5> QED BY <1>2, <2>3, <3>2, <5>1, Layout DEF Slots
        <4>2. job.n = 1
          BY <2>3, <3>2, <4>1, Layout
        <4>3. Loader(job.src, 1)
          BY <3>2 DEF VInv, Copying
        <4>4. job.src[1].id = "loader"
          <5>1. 1 \in 1 .. LoaderLen /\ 1 + 1 - 1 = 1
            BY Layout
          <5>2. job.src[1] = Sector("loader", job.src[1].ver, 1)
            BY <4>3, <5>1 DEF Loader
          <5> QED BY <5>2 DEF Sector
        <4> QED BY <1>3, <2>3, <4>1, <4>2, <4>4
      <3>3. CASE Part /\ Here = job.n
        <4>1. DOMAIN job.src = 1 .. Top /\ Intact(job.src) /\ Owners(job.src)
          BY <3>3 DEF VInv, Copying
        <4>2. IsHead(job.src[Place(id)]) /\ job.src[Place(id)].id \in {id, "blank"}
          BY <4>1, IntactPlaced DEF Placed, Headed, Slots
        <4>3. job.src[Place(id)].id = id
          BY <4>2 DEF IsHead, Ids
        <4> QED BY <1>3, <2>3, <3>3, <4>3
      <3> QED BY <3>1, <3>2, <3>3, WriteFacts
    <2> QED BY <2>2, <2>3
  <1>8. ASSUME Settled PROVE Intact(f)
    <2>1. Here > Top
      BY <1>8, WriteFacts
    <2>2. \A i \in 1 .. Top : f[i] = flash[i]
      BY <1>2, <1>3, <1>4, <2>1
    <2>3. \A id \in Slots : \A n \in 1 .. Lens(id, 0) : Place(id) + n - 1 \in 1 .. Top
      BY Spots DEF Slots, Ids
    <2>4. \A id \in Slots : \A v : Holds(flash, id, v) => Holds(f, id, v)
      BY <2>2, <2>3 DEF Holds
    <2> QED BY <1>1, <1>8, <2>4 DEF Intact, Slots
  <1> QED BY <1>3, <1>5, <1>6, <1>7, <1>8 DEF Owners, Holds, Headed, Slots

\* What has been copied when the last sector is in place.
LEMMA CopyDone ==
  ASSUME UInv, VInv, pc = "write", ~Differs, job.n = Len(job.src)
  PROVE  /\ ToSpare \/ FromSpare => Loader(flash, 1)
         /\ Part => Intact(flash)
  <1>1. /\ \A k \in 1 .. job.n - 1 : flash[job.to + k - 1] = job.src[k]
        /\ flash[job.to + job.n - 1] = job.src[job.n]
        /\ job.n \in Nat /\ DOMAIN job.src = 1 .. job.n
    BY WriteFacts DEF VInv, Copying, Differs, Here
  <1>2. \A k \in 1 .. job.n : flash[job.to + k - 1] = job.src[k]
    <2>1. \A k \in 1 .. job.n : k = job.n \/ k \in 1 .. job.n - 1
      BY <1>1
    <2> QED BY <1>1, <2>1
  <1>3. ASSUME FromSpare PROVE Loader(flash, 1)
    <2>1. job.to = 1 /\ DOMAIN job.src = 1 .. LoaderLen /\ Loader(job.src, 1)
      BY <1>3 DEF FromSpare, VInv, Copying
    <2>2. \A k \in 1 .. LoaderLen : k \in 1 .. job.n /\ 1 + k - 1 = k
      BY <1>1, <2>1, Layout
    <2>3. \A k \in 1 .. LoaderLen : flash[1 + k - 1] = Sector("loader", job.src[1].ver, k)
      BY <1>2, <2>1, <2>2 DEF Loader
    <2>4. flash[1].ver = job.src[1].ver
      <3>1. 1 \in 1 .. LoaderLen /\ 1 + 1 - 1 = 1
        BY Layout
      <3>2. flash[1] = Sector("loader", job.src[1].ver, 1)
        BY <2>3, <3>1
      <3> QED BY <3>2 DEF Sector
    <2> QED BY <2>3, <2>4 DEF Loader
  <1>4. ASSUME Part PROVE Intact(flash)
    <2>1. job.to = 1 /\ DOMAIN job.src = 1 .. Top /\ Intact(job.src)
      BY <1>4 DEF Part, VInv, Copying
    <2>2. \A i \in 1 .. Top : flash[i] = job.src[i]
      <3>1. \A i \in 1 .. Top : i \in 1 .. job.n /\ 1 + i - 1 = i
        BY <1>1, <2>1, Spots
      <3> QED BY <1>2, <2>1, <3>1
    <2>3. \A id \in Slots : \A n \in 1 .. Lens(id, 0) : Place(id) + n - 1 \in 1 .. Top
      BY Spots DEF Slots, Ids
    <2>4. \A id \in Slots : \A v : Holds(job.src, id, v) => Holds(flash, id, v)
      BY <2>2, <2>3 DEF Holds
    <2> QED BY <2>1, <2>4 DEF Intact, Slots
  <1>5. ToSpare => Loader(flash, 1)
    BY DEF ToSpare
  <1> QED BY <1>3, <1>4, <1>5

\* A sector is in place; the copy goes on or ends.
LEMMA VerifiedWhole ==
  ASSUME UInv, VInv, Verified PROVE VInv'
  <1>1. /\ pc = "write" /\ ~Differs /\ UNCHANGED <<flash, stored, stb, own, seen, offer, bounds>>
        /\ job' = [job EXCEPT !.n = @ + 1] /\ pc' = IF job.n = Len(job.src) THEN job.then ELSE pc
    BY DEF Verified
  <1>2. /\ job.n \in 1 .. Len(job.src) /\ job.n \in Nat /\ (ToSpare \/ FromSpare \/ Part)
        /\ job = [src |-> job.src, to |-> job.to, n |-> job.n, then |-> job.then]
        /\ job.then \in {"flagged", "start", "run", "restored", "burnt", "chunks"}
    BY <1>1, WriteFacts DEF UInv, Writing, ToSpare, FromSpare, Part
  <1>3. job'.src = job.src /\ job'.to = job.to /\ job'.then = job.then /\ job'.n = job.n + 1
    BY <1>1, <1>2
  <1>4. Proper' /\ Records'
    BY <1>1 DEF VInv, Proper, Records, Headed, Owners, Settled
  <1>5. Copying'
    <2>1. \A k \in 1 .. job.n : flash[job.to + k - 1] = job.src[k]
      <3>1. \A k \in 1 .. job.n : k = job.n \/ k \in 1 .. job.n - 1
        BY <1>2
      <3> QED BY <1>1, <3>1 DEF VInv, Copying, Differs, Here
    <2>2. job'.n - 1 = job.n
      BY <1>2, <1>3
    <2>3. (FromSpare' <=> FromSpare) /\ (Part' <=> Part)
      BY <1>1, <1>3 DEF FromSpare, Part, Loader
    <2> QED BY <1>1, <1>3, <2>1, <2>2, <2>3 DEF VInv, Copying
  <1>6. Sync'
    BY <1>1, <1>2, <1>3 DEF VInv, Sync, At, BootPlaces, AppPlaces, Settled
  <1>7. Course'
    <2>1. CASE pc' = "write"
      BY <1>1, <1>3, <2>1 DEF VInv, Course, At, Settled
    <2>2. CASE pc' = job.then /\ job.n = Len(job.src)
      <3>1. /\ ToSpare \/ FromSpare => Loader(flash, 1)
            /\ Part => Intact(flash)
        BY <1>1, <2>2, CopyDone
      <3>2. /\ job.then \in {"restored", "start"} => Loader(flash, 1)
            /\ job.then \in {"burnt", "chunks"} => Intact(flash)
        BY <1>2, <3>1 DEF ToSpare, FromSpare, Part
      <3>3. Loader(flash, 1)' <=> Loader(flash, 1)
        BY <1>1 DEF Loader
      <3>4. Intact(flash)' <=> Intact(flash)
        BY <1>1
      <3> QED BY <1>1, <1>2, <1>3, <2>2, <3>2, <3>3, <3>4 DEF VInv, Course, At, Settled
    <2> QED BY <1>1, <2>1, <2>2
  <1>8. Ranges'
    BY <1>1, <1>2 DEF VInv, Ranges, bounds
  <1> QED BY <1>4, <1>5, <1>6, <1>7, <1>8 DEF VInv

\* A sector erased or filled.
LEMMA WriteWhole ==
  ASSUME UInv, VInv, pc = "write", Differs, NEW x \in Kind, x.id \in {"blank", job.src[job.n].id},
         flash' = [flash EXCEPT ![Here] = x], UNCHANGED <<stored, pc, ram, bounds>>
  PROVE  VInv'
  <1> DEFINE f == [flash EXCEPT ![Here] = x]
  <1>1. flash' = f /\ UNCHANGED <<stored, stb, own, pc, job, seen, offer, crashes, keys, refusals>>
    BY DEF ram, bounds
  <1>2. /\ f \in [1 .. NorSize -> Kind] /\ Owners(f) /\ Headed(f) /\ (Settled => Intact(f))
        /\ \A k \in 1 .. job.n - 1 : f[job.to + k - 1] = job.src[k]
    BY WriteProper
  <1> HIDE DEF f
  <1>3. Proper' /\ Records'
    BY <1>1, <1>2 DEF VInv, Proper, Records, Headed, Owners, Settled
  <1>4. Copying'
    <2>1. FromSpare' => job.to = 1 /\ DOMAIN job.src = 1 .. LoaderLen /\ job.then = "restored"
      BY <1>1 DEF FromSpare
    <2>2. Part' => job.to = 1 /\ job.then \in {"burnt", "chunks"}
      BY <1>1 DEF Part
    <2>3. ToSpare => job.then \in {"flagged", "start", "run"}
      BY DEF ToSpare
    <2>4. FromSpare' => FromSpare
      BY <2>1, <2>3, WriteFacts DEF Part
    <2>5. Part' => Part
      BY <2>2, <2>3, WriteFacts DEF FromSpare
    <2> QED BY <1>1, <1>2, <2>4, <2>5 DEF VInv, Copying
  <1>5. Sync' /\ Course' /\ Ranges'
    BY <1>1 DEF VInv, Sync, Course, Ranges, At, Settled
  <1> QED BY <1>3, <1>4, <1>5 DEF VInv

\* The sectors an erase, or a power failure in a write, leaves.
LEMMA KindSectors ==
  /\ Blank \in Kind /\ Blank.id = "blank"
  /\ \A c \in Kind : [c EXCEPT !.part = 0] \in Kind /\ [c EXCEPT !.part = 0].id = c.id
  <1>1. 0 \in Versions /\ 0 \in 0 .. NorSize
    BY UpgradeFlowAssumption
  <1> QED BY <1>1 DEF Kind, Content, Blank, Sector

\* Erase keeps the invariant.
LEMMA EraseWhole ==
  ASSUME UInv, VInv, Erase PROVE VInv'
  BY KindSectors, WriteWhole DEF Erase

\* Fill keeps the invariant.
LEMMA FillWhole ==
  ASSUME UInv, VInv, Fill PROVE VInv'
  <1>1. job.src[job.n] \in Kind
    BY WriteFacts DEF Fill
  <1> QED BY <1>1, WriteWhole DEF Fill

\* Nothing but the flash and the settings in it outlives a reboot.
LEMMA RebootWhole ==
  ASSUME VInv, Reboot, NEW f, flash' = f, f \in [1 .. NorSize -> Kind], Owners(f), Headed(f),
         NEW s, stored' = s, s = NoRecord \/ (Good(s) /\ (s.state # "reset" => s.table # <<>>)),
         s = NoRecord \/ s.state # "preburn" => Intact(f),
         crashes' \in 0 .. MaxCrashes, keys' \in 0 .. MaxKeys, refusals' \in 0 .. MaxRefusals
  PROVE  VInv'
  <1>1. /\ pc' = "off" /\ job' = NoJob /\ stb' = Default /\ own' = FALSE /\ seen' = Unseen /\ offer' = NoOffer
    BY DEF Reboot, Goes
  <1>2. Proper'
    BY DEF Proper, Owners, Headed
  <1>3. Good(Default)
    <2>1. 0 \in Versions
      BY UpgradeFlowAssumption
    <2>2. <<>> \in Seq(Chunk) /\ <<>> \in Seq(Entry)
      BY EmptySeq
    <2> QED BY <2>1, <2>2 DEF Good, Default, Record, TableOk
  <1>4. Records'
    BY <1>1, <1>3 DEF Records, Settled
  <1>5. Sync' /\ Course' /\ Ranges'
    BY <1>1 DEF Sync, Course, Ranges, At, BootPlaces, AppPlaces, NoJob, Unseen
  <1>6. Copying'
    <2>1. <<>> \in Seq(Kind)
      BY EmptySeq
    <2> QED BY <1>1, <2>1 DEF Copying, NoJob
  <1> QED BY <1>2, <1>4, <1>5, <1>6 DEF VInv

\* What a reboot finds.
LEMMA StoredStays ==
  ASSUME VInv
  PROVE  /\ stored = NoRecord \/ (Good(stored) /\ (stored.state # "reset" => stored.table # <<>>))
         /\ stored = NoRecord \/ stored.state # "preburn" => Intact(flash)
         /\ flash \in [1 .. NorSize -> Kind] /\ Owners(flash) /\ Headed(flash)
         /\ crashes \in 0 .. MaxCrashes /\ keys \in 0 .. MaxKeys /\ refusals \in 0 .. MaxRefusals
  BY DEF VInv, Records, Settled, Proper, Ranges

\* A power failure keeps the invariant, a torn sector included.
LEMMA PowerOffWhole ==
  ASSUME UInv, VInv, PowerOff PROVE VInv'
  <1>1. /\ flash' \in Torn /\ Reboot /\ stored' = stored /\ keys' = keys /\ refusals' = refusals
        /\ crashes' \in 0 .. MaxCrashes
    <2>1. MaxCrashes \in Nat /\ crashes \in 0 .. MaxCrashes
      BY StoredStays, UpgradeFlowAssumption
    <2> QED BY <2>1 DEF PowerOff
  <1>2. CASE flash' = flash
    BY <1>1, <1>2, StoredStays, RebootWhole
  <1>3. CASE flash' # flash
    <2> DEFINE x == [job.src[job.n] EXCEPT !.part = 0]
               f == [flash EXCEPT ![Here] = x]
    <2>1. pc = "write" /\ Differs /\ flash' = f
      BY <1>1, <1>3 DEF Torn
    <2>2. job.src[job.n] \in Kind
      BY <2>1, WriteFacts
    <2>3. x \in Kind /\ x.id = job.src[job.n].id
      BY <2>2, KindSectors
    <2> HIDE DEF x
    <2>4. f \in [1 .. NorSize -> Kind] /\ Owners(f) /\ Headed(f) /\ (Settled => Intact(f))
      BY <2>1, <2>3, WriteProper
    <2> HIDE DEF f
    <2> QED BY <1>1, <2>1, <2>4, StoredStays, RebootWhole DEF Settled
  <1> QED BY <1>2, <1>3
------------------------------------------------------------------------------
(* Steps that write nothing: some go on, some start a copy. *)

\* A step that goes on to a place where nothing is written.
LEMMA MoveWhole ==
  ASSUME VInv, flash' = flash, NEW p, Goes(p), p # "write", Records', Sync', Course', Ranges'
  PROVE  VInv'
  <1>1. <<>> \in Seq(Kind)
    BY EmptySeq
  <1>2. Copying'
    BY <1>1 DEF Goes, NoJob, Copying
  <1>3. Proper'
    BY DEF VInv, Proper, Owners, Headed
  <1> QED BY <1>2, <1>3 DEF VInv

\* A step that starts a copy.
LEMMA CopyWhole ==
  ASSUME VInv, flash' = flash, NEW src \in Seq(Kind), NEW to, NEW then, Copy(src, to, then),
         then = "restored" => Loader(src, 1),
         then \in {"burnt", "chunks"} => DOMAIN src = 1 .. Top /\ Intact(src) /\ Owners(src),
         Records', Sync', Course', Ranges'
  PROVE  VInv'
  <1>1. /\ job' = [src |-> src, to |-> to, n |-> 1, then |-> then] /\ pc' = "write"
        /\ job'.src = src /\ job'.then = then /\ job'.n = 1
    BY DEF Copy
  <1>2. (FromSpare' => then = "restored") /\ (Part' => then \in {"burnt", "chunks"})
    BY <1>1 DEF FromSpare, Part
  <1>3. Loader(job.src, 1)' <=> Loader(src, 1)
    BY <1>1 DEF Loader
  <1>4. (Intact(job.src)' <=> Intact(src)) /\ (Owners(job.src)' <=> Owners(src))
    BY <1>1
  <1>5. \A k \in 1 .. job'.n - 1 : FALSE
    BY <1>1
  <1>6. Copying'
    BY <1>1, <1>2, <1>3, <1>4, <1>5 DEF Copying
  <1>7. Proper'
    BY DEF VInv, Proper, Owners, Headed
  <1> QED BY <1>6, <1>7 DEF VInv

\* The two copies of the loader, as they are read before a copy.
LEMMA CopiesRead ==
  ASSUME Proper
  PROVE  /\ LoaderData \in Seq(Kind) /\ BackupData \in Seq(Kind)
         /\ Loader(flash, BackupAt) => Loader(BackupData, 1)
  <1>1. /\ LoaderLen \in Nat \ {0} /\ flash \in [1 .. NorSize -> Kind]
        /\ \A n \in 1 .. LoaderLen : n \in 1 .. NorSize /\ BackupAt + n - 1 \in 1 .. NorSize
    <2>1. LoaderLen \in Nat \ {0} /\ BackupAt \in Nat /\ LoaderLen < BackupAt /\ BackupAt + LoaderLen - 1 = NorSize
      BY Places
    <2>2. \A n \in 1 .. LoaderLen : n \in 1 .. NorSize /\ BackupAt + n - 1 \in 1 .. NorSize
      BY <2>1
    <2> QED BY <2>1, <2>2 DEF Proper
  <1>2. LoaderData \in [1 .. LoaderLen -> Kind] /\ BackupData \in [1 .. LoaderLen -> Kind]
    BY <1>1 DEF LoaderData, BackupData
  <1>3. \A n \in 1 .. LoaderLen : BackupData[n] = flash[BackupAt + n - 1] /\ 1 + n - 1 = n
    BY DEF BackupData
  <1>4. 1 \in 1 .. LoaderLen /\ BackupAt + 1 - 1 = BackupAt
    BY Layout
  <1>5. ASSUME Loader(flash, BackupAt) PROVE Loader(BackupData, 1)
    <2>1. BackupData[1] = flash[BackupAt]
      BY <1>3, <1>4
    <2> QED BY <1>3, <1>5, <2>1 DEF Loader
  <1> QED BY <1>1, <1>2, <1>5, IsASeq

\* A step that starts a copy of the loader over its backup.
LEMMA BackupWholes ==
  ASSUME VInv, flash' = flash, NEW then \in {"flagged", "start", "run"}, Backup(then),
         Records', Sync', Course', Ranges'
  PROVE  VInv'
  BY CopiesRead, CopyWhole DEF Backup, VInv

\* A flash whose chunks the boot loader needs not repair.
LEMMA SettledPasses ==
  ASSUME FixedLayout, VInv, Settled
  PROVE  Intact(flash) /\ CrcOk /\ Loader(flash, 1)
  BY IntactPasses DEF VInv, Records

\* The settings the boot loader starts with, and those with another table.
LEMMA DefaultGood ==
  /\ Good(Default) /\ Default.state = "normal" /\ Default.table = <<>>
  /\ \A t : TableOk(t) => Good([Default EXCEPT !.table = t])
  <1>1. 0 \in Versions
    BY UpgradeFlowAssumption
  <1>2. <<>> \in Seq(Entry)
    BY EmptySeq
  <1>3. ASSUME NEW t, TableOk(t) PROVE t \in Seq(Chunk)
    <2>1. t \in Seq(Entry) /\ \A e \in Entry : e \in Chunk
      BY <1>3 DEF TableOk, Entry
    <2>2. Len(t) \in Nat /\ DOMAIN t = 1 .. Len(t) /\ \A k \in 1 .. Len(t) : t[k] \in Entry
      BY <2>1, LenProperties, ElementOfSeq
    <2>3. t \in [1 .. Len(t) -> Chunk]
      BY <2>1, <2>2
    <2> QED BY <2>2, <2>3, IsASeq
  <1>4. TableOk(<<>>)
    BY <1>2 DEF TableOk
  <1>5. ASSUME NEW t, TableOk(t) PROVE Good([Default EXCEPT !.table = t])
    BY <1>1, <1>3, <1>5 DEF Good, Default, Record
  <1>6. Good(Default)
    BY <1>1, <1>3, <1>4 DEF Good, Default, Record
  <1> QED BY <1>5, <1>6 DEF Default
------------------------------------------------------------------------------
(* The boot loader. *)

\* AppInit (bootloader.c): the settings and the check of the chunks.
LEMMA PowerOnWhole ==
  ASSUME UInv, VInv, PowerOn PROVE VInv'
  <1>1. /\ flash' = flash /\ stored' = stored /\ offer' = offer /\ UNCHANGED bounds
        /\ own' = Loads(stored) /\ stb' = (IF own' THEN stored ELSE Default)
        /\ seen' = [Unseen EXCEPT !.whole = CrcOk]
        /\ Backup("flagged") \/ Goes("flagged") \/ Goes("decide")
    BY DEF PowerOn
  <1>2. own' \in BOOLEAN /\ CrcOk \in BOOLEAN
    BY <1>1 DEF Loads, CrcOk
  <1>3. /\ own' => stored # NoRecord
        /\ ~own' => Settled
    BY <1>1 DEF Loads, Settled
  <1>4. Records'
    BY <1>1, <1>2, <1>3, DefaultGood DEF VInv, Records, Settled
  <1>5. Sync'
    <2>1. At(AppPlaces)' => FALSE
      BY <1>1 DEF Backup, Copy, Goes, At, AppPlaces
    <2>2. ~own' => Settled'
      BY <1>1, <1>3 DEF Settled
    <2> QED BY <1>1, <1>2, <1>3, <2>1, <2>2, DefaultGood DEF Sync
  <1>6. Course'
    BY <1>1 DEF Course, At, Backup, Copy, Goes, NoJob, Unseen
  <1>7. Ranges'
    <2>1. seen' \in [bad : BOOLEAN, differ : BOOLEAN, whole : BOOLEAN, back : BOOLEAN]
      BY <1>1, <1>2 DEF Unseen
    <2> QED BY <1>1, <2>1 DEF VInv, Ranges, bounds, Backup, Copy, Goes
  <1> QED BY <1>1, <1>4, <1>5, <1>6, <1>7, BackupWholes, MoveWhole

\* The backup was made: needbackup is cleared.
LEMMA FlaggedWhole ==
  ASSUME UInv, VInv, Flagged PROVE VInv'
  <1>1. /\ pc = "flagged" /\ Goes("decide") /\ UNCHANGED <<flash, seen, offer, bounds>>
        /\ stb' = [stb EXCEPT !.needbackup = FALSE] /\ own' = own /\ Save
    BY DEF Flagged
  <1>2. Good(stb') /\ stb'.state = stb.state /\ stb'.table = stb.table
    BY <1>1 DEF VInv, Records, Good, Record
  <1>3. own => stored # NoRecord /\ stb.state = stored.state /\ stb.table = stored.table
    BY <1>1 DEF VInv, Sync, At, BootPlaces
  <1>4. own => stb' # NoRecord
    BY <1>1, <1>2 DEF Good, Record, NoRecord
  <1>5. stored' = (IF own THEN stb' ELSE stored)
    BY <1>1 DEF Save
  <1>6. Settled' <=> Settled
    BY <1>2, <1>3, <1>4, <1>5 DEF Settled
  <1>7. Records'
    BY <1>1, <1>2, <1>3, <1>5, <1>6 DEF VInv, Records
  <1>8. Sync'
    <2>1. At(AppPlaces)' => FALSE
      BY <1>1 DEF Goes, At, AppPlaces
    <2>2. ~own => stb.state # "preburn" /\ Settled
      BY <1>1 DEF VInv, Sync, At, BootPlaces
    <2> QED BY <1>1, <1>2, <1>4, <1>5, <1>6, <2>1, <2>2 DEF Sync
  <1>9. Course' /\ Ranges'
    BY <1>1 DEF VInv, Course, Ranges, At, Goes, bounds
  <1> QED BY <1>1, <1>7, <1>8, <1>9, MoveWhole

\* With a whole set of chunks and no upgrade begun, the main code; else the loader.
LEMMA DecideWhole ==
  ASSUME UInv, VInv, Decide PROVE VInv'
  <1>1. /\ pc = "decide" /\ UNCHANGED <<flash, stored, own, seen, offer, crashes, refusals>>
        /\ IF stb'.trigger = "none" THEN StartMain ELSE Goes("enter")
    BY DEF Decide, UInv, Allowed
  <1>2. PICK key \in BOOLEAN :
          /\ key => keys < MaxKeys
          /\ keys' = IF key THEN keys + 1 ELSE keys
          /\ stb' = [stb EXCEPT !.trigger = Trigger(key)]
    BY DEF Decide, UInv, Allowed
  <1>3. Trigger(key) \in {"none", "bootfail", "interrupt", "bootkey", "appota"}
    BY DEF Trigger
  <1>4. Good(stb') /\ stb'.state = stb.state /\ stb'.table = stb.table /\ stb'.trigger = Trigger(key)
    BY <1>2, <1>3 DEF VInv, Records, Good, Record
  <1>5. \/ Goes("enter")
        \/ Goes("main") /\ stb.state # "preburn"
    <2>1. Trigger(key) = "none" => seen.whole /\ stb.state # "preburn"
      BY DEF Trigger
    <2> QED BY <1>1, <1>4, <2>1 DEF StartMain
  <1>6. IF own THEN stored # NoRecord /\ stb.state = stored.state /\ stb.table = stored.table
        ELSE stb.state # "preburn" /\ Settled
    BY <1>1 DEF VInv, Sync, At, BootPlaces
  <1>7. Records'
    BY <1>1, <1>4 DEF VInv, Records, Settled
  <1>8. Sync'
    <2>1. At(AppPlaces)' => FALSE
      BY <1>5 DEF Goes, At, AppPlaces
    <2> QED BY <1>1, <1>4, <1>6, <2>1 DEF Sync, Settled
  <1>9. Course'
    <2>1. pc' = "main" => Settled
      BY <1>5, <1>6 DEF Goes, Settled
    <2> QED BY <1>1, <1>5, <2>1 DEF VInv, Course, At, Goes, Settled
  <1>10. Ranges'
    <2>1. keys' \in 0 .. MaxKeys
      <3>1. MaxKeys \in Nat /\ keys \in 0 .. MaxKeys
        BY UpgradeFlowAssumption DEF VInv, Ranges
      <3> QED BY <1>2, <3>1
    <2> QED BY <1>1, <1>5, <2>1 DEF VInv, Ranges, Goes
  <1> QED BY <1>1, <1>5, <1>7, <1>8, <1>9, <1>10, MoveWhole

\* boot_enter_upgloader: a bad loader is only found during an upgrade.
LEMMA EnterWhole ==
  ASSUME FixedLayout, UInv, VInv, Enter PROVE VInv'
  <1>1. (LoaderWhole <=> Loader(flash, 1)) /\ (BackupWhole <=> Loader(flash, BackupAt)) /\ (LoaderWhole \/ BackupWhole)
    BY WholeIsLoader DEF UInv, Safe
  <1>2. /\ pc = "enter" /\ UNCHANGED <<flash, stored, stb, own, offer, bounds>>
        /\ seen' = [seen EXCEPT !.bad = ~LoaderWhole, !.differ = ~BackupWhole \/ flash[1] # flash[BackupAt]]
        /\ \/ BackupWhole /\ (stb.state = "preburn" \/ ~LoaderWhole) /\ Restore("restored")
           \/ LoaderWhole /\ Goes("spare")
    BY <1>1 DEF Enter
  <1>3. IF own THEN stored # NoRecord /\ stb.state = stored.state /\ stb.table = stored.table
        ELSE stb.state # "preburn" /\ Settled
    BY <1>2 DEF VInv, Sync, At, BootPlaces
  <1>4. ~LoaderWhole => own /\ stb.state = "preburn"
    <2>1. ~LoaderWhole => ~Settled
      BY <1>1, SettledPasses
    <2> QED BY <1>3, <2>1 DEF Settled
  <1>5. stb.state = "preburn" => own
    BY <1>3
  <1>6. Records'
    BY <1>2 DEF VInv, Records, Settled
  <1>7. Sync'
    <2>1. At(AppPlaces)' => FALSE
      BY <1>2 DEF Restore, Copy, Goes, At, AppPlaces
    <2> QED BY <1>2, <1>3, <2>1 DEF Sync, Settled
  <1>8. seen' \in [bad : BOOLEAN, differ : BOOLEAN, whole : BOOLEAN, back : BOOLEAN] /\ ~seen'.back
    <2>1. seen \in [bad : BOOLEAN, differ : BOOLEAN, whole : BOOLEAN, back : BOOLEAN] /\ ~seen.back
      BY DEF VInv, Ranges, Course
    <2>2. LoaderWhole \in BOOLEAN /\ BackupWhole \in BOOLEAN
      BY DEF LoaderWhole, BackupWhole, Whole
    <2> DEFINE b == ~LoaderWhole
               d == ~BackupWhole \/ flash[1] # flash[BackupAt]
    <2>3. b \in BOOLEAN /\ d \in BOOLEAN /\ seen' = [seen EXCEPT !.bad = b, !.differ = d]
      BY <1>2, <2>2
    <2> HIDE DEF b, d
    <2> QED BY <2>1, <2>3
  <1>9. Ranges'
    BY <1>2, <1>8 DEF VInv, Ranges, bounds, Restore, Copy, Goes
  <1>10. CASE BackupWhole /\ (stb.state = "preburn" \/ ~LoaderWhole) /\ Restore("restored")
    <2>1. Course'
      BY <1>2, <1>4, <1>5, <1>8, <1>10 DEF VInv, Course, At, Restore, Copy, Settled
    <2> QED BY <1>1, <1>2, <1>6, <1>7, <1>9, <1>10, <2>1, CopiesRead, CopyWhole DEF Restore, VInv
  <1>11. CASE LoaderWhole /\ Goes("spare")
    <2>1. Loader(flash, 1)'
      BY <1>1, <1>2, <1>11 DEF Loader
    <2>2. Course'
      BY <1>2, <1>8, <1>11, <2>1 DEF VInv, Course, At, Goes
    <2> QED BY <1>2, <1>6, <1>7, <1>9, <1>11, <2>2, MoveWhole
  <1> QED BY <1>2, <1>10, <1>11

\* The loader was restored from its backup.
LEMMA RestoredWhole ==
  ASSUME UInv, VInv, Restored PROVE VInv'
  <1>1. /\ pc = "restored" /\ Goes("spare") /\ UNCHANGED <<flash, stored, own, offer, bounds>>
        /\ stb' = [stb EXCEPT !.needbackup = FALSE]
        /\ seen' = [seen EXCEPT !.back = CrcOk /\ stb.state # "preburn"]
    BY DEF Restored
  <1>2. own /\ stb.state = "preburn" /\ stored # NoRecord /\ stb.state = stored.state /\ stb.table = stored.table
        /\ Loader(flash, 1)
    BY <1>1 DEF VInv, Course, Sync, At, BootPlaces
  <1>3. Good(stb') /\ stb'.state = stb.state /\ stb'.table = stb.table
    BY <1>1 DEF VInv, Records, Good, Record
  <1>4. Records'
    BY <1>1, <1>3 DEF VInv, Records, Settled
  <1>5. Sync'
    <2>1. At(AppPlaces)' => FALSE
      BY <1>1 DEF Goes, At, AppPlaces
    <2> QED BY <1>1, <1>2, <1>3, <2>1 DEF Sync
  <1>6. seen' \in [bad : BOOLEAN, differ : BOOLEAN, whole : BOOLEAN, back : BOOLEAN] /\ ~seen'.back
    BY <1>1, <1>2 DEF VInv, Ranges
  <1>7. Loader(flash, 1)'
    BY <1>1, <1>2 DEF Loader
  <1>8. Course' /\ Ranges'
    BY <1>1, <1>6, <1>7 DEF VInv, Course, Ranges, At, Goes, bounds
  <1> QED BY <1>1, <1>4, <1>5, <1>8, MoveWhole

\* The backup is made from the loader, if they differ.
LEMMA SpareWhole ==
  ASSUME UInv, VInv, Spare PROVE VInv'
  <1>1. pc = "spare" /\ Loader(flash, 1) /\ LoaderWhole
    BY WholeIsLoader DEF Spare, VInv, Course, UInv
  <1>2. /\ UNCHANGED <<flash, stored, stb, own, seen, offer, bounds>>
        /\ Backup("start") \/ Goes("start")
    BY <1>1 DEF Spare
  <1>3. IF own THEN stored # NoRecord /\ stb.state = stored.state /\ stb.table = stored.table
        ELSE stb.state # "preburn" /\ Settled
    BY <1>1 DEF VInv, Sync, At, BootPlaces
  <1>4. Records'
    BY <1>2 DEF VInv, Records, Settled
  <1>5. Sync'
    <2>1. At(AppPlaces)' => FALSE
      BY <1>2 DEF Backup, Copy, Goes, At, AppPlaces
    <2> QED BY <1>2, <1>3, <2>1 DEF Sync, Settled
  <1>6. Loader(flash, 1)'
    BY <1>1, <1>2 DEF Loader
  <1>7. Course' /\ Ranges'
    BY <1>2, <1>6 DEF VInv, Course, Ranges, At, Backup, Copy, Goes, bounds
  <1> QED BY <1>2, <1>4, <1>5, <1>7, BackupWholes, MoveWhole

\* The upgrade loader is started.
LEMMA StartWhole ==
  ASSUME UInv, VInv, Start PROVE VInv'
  <1>1. pc = "start" /\ Loader(flash, 1) /\ LoaderWhole /\ ~seen.back
    BY WholeIsLoader DEF Start, VInv, Course, UInv
  <1>2. Goes("loader") /\ UNCHANGED <<flash, stb, own, seen, offer, bounds>> /\ stored' = (IF own THEN stb ELSE stored)
    BY <1>1 DEF Start, Save
  <1>3. own => stored # NoRecord /\ stb.state = stored.state /\ stb.table = stored.table
    BY <1>1 DEF VInv, Sync, At, BootPlaces
  <1>4. Settled' <=> Settled
    <2>1. stb # NoRecord
      BY DEF VInv, Records, Good, Record, NoRecord
    <2> QED BY <1>2, <1>3, <2>1 DEF Settled
  <1>5. Records'
    BY <1>2, <1>3, <1>4 DEF VInv, Records
  <1>6. Loader(flash, 1)'
    BY <1>1, <1>2 DEF Loader
  <1>7. Sync' /\ Course' /\ Ranges'
    BY <1>2, <1>6 DEF VInv, Sync, Course, Ranges, At, BootPlaces, AppPlaces, Goes, bounds
  <1> QED BY <1>2, <1>5, <1>7, MoveWhole
------------------------------------------------------------------------------
(* The settings at the start of an application. *)

\* stb_data_factory_init: a table of the whole set of chunks.
LEMMA FactoryInitWhole ==
  ASSUME FixedLayout, UInv, VInv, FactoryInit PROVE VInv'
  <1>1. /\ pc \in {"main", "loader"} /\ ~Loads(stored) /\ own' = TRUE /\ UNCHANGED <<flash, seen, offer, bounds>>
        /\ stb' = [Default EXCEPT !.table = Scanned(<<>>)] /\ stored' = stb'
        /\ Backup("run") \/ Goes("run") \/ Goes("ota")
    BY DEF FactoryInit, Save
  <1>2. Settled
    BY <1>1 DEF Loads, Settled
  <1>3. Intact(flash) /\ Loader(flash, 1) /\ Proper
    BY <1>2, SettledPasses DEF VInv
  <1>4. TableOk(Scanned(<<>>)) /\ Scanned(<<>>) # <<>>
    <2>1. TableOk(<<>>)
      BY DefaultGood DEF Good
    <2> QED BY <1>3, <2>1, ScannedOk
  <1>5. Good(stb') /\ stb'.table # <<>> /\ stb'.state = "normal"
    BY <1>1, <1>4, DefaultGood DEF Default
  <1>6. Records'
    BY <1>1, <1>3, <1>5 DEF Records
  <1>7. Loader(flash, 1)'
    BY <1>1, <1>3 DEF Loader
  <1>8. Sync' /\ Course' /\ Ranges'
    BY <1>1, <1>5, <1>7 DEF VInv, Sync, Course, Ranges, At, BootPlaces, AppPlaces, Backup, Copy, Goes, bounds
  <1> QED BY <1>1, <1>6, <1>8, BackupWholes, MoveWhole

\* stb_data_factory_complete, first save.
LEMMA CompleteWhole ==
  ASSUME FixedLayout, UInv, VInv, Complete PROVE VInv'
  <1>1. /\ pc \in {"main", "loader"} /\ stored # NoRecord /\ stored.state = "reset" /\ own' = TRUE
        /\ UNCHANGED <<flash, seen, offer, bounds>>
        /\ stb' = [stored EXCEPT !.table = Scanned(stored.table)] /\ stored' = stb' /\ pc' = "completed"
        /\ \E p : job' = [NoJob EXCEPT !.then = p]
    BY LoadsRecord DEF Complete, Save
  <1>2. Good(stored) /\ Intact(flash) /\ Proper
    BY <1>1 DEF VInv, Records, Settled
  <1>3. TableOk(Scanned(stored.table)) /\ Scanned(stored.table) # <<>>
    BY <1>2, ScannedOk DEF Good
  <1>4. Good(stb') /\ stb'.state = "reset" /\ stb'.table # <<>>
    <2>1. Scanned(stored.table) \in Seq(Chunk)
      BY <1>3, DefaultGood DEF Good, Record, Default
    <2> QED BY <1>1, <1>2, <1>3, <2>1 DEF Good, Record
  <1>5. Records'
    BY <1>1, <1>2, <1>4 DEF Records
  <1>6. Sync' /\ Course' /\ Ranges'
    BY <1>1, <1>4 DEF VInv, Sync, Course, Ranges, At, BootPlaces, AppPlaces, bounds
  <1>7. Copying'
    <2>1. <<>> \in Seq(Kind)
      BY EmptySeq
    <2>2. job'.src = <<>>
      BY <1>1 DEF NoJob
    <2> QED BY <1>1, <2>1, <2>2 DEF Copying
  <1>8. Proper'
    BY <1>1, <1>2 DEF Proper, Owners, Headed
  <1> QED BY <1>5, <1>6, <1>7, <1>8 DEF VInv

\* Its second save.
LEMMA CompletedWhole ==
  ASSUME FixedLayout, UInv, VInv, Completed PROVE VInv'
  <1>1. /\ pc = "completed" /\ Goes(job.then) /\ UNCHANGED <<flash, seen, offer, bounds>>
        /\ stb' = [stb EXCEPT !.state = "normal"] /\ own' = own /\ Save
        /\ job.then \in {"run", "ota"}
    BY DEF Completed, UInv, Guarded
  <1>2. own /\ stored = stb /\ stb.state = "reset" /\ stb.table # <<>> /\ Good(stb)
    BY <1>1 DEF VInv, Sync, Course, Records, At, AppPlaces
  <1>3. Settled
    BY <1>2 DEF Settled
  <1>4. Intact(flash) /\ Loader(flash, 1)
    BY <1>3, SettledPasses
  <1>5. Good(stb') /\ stb'.state = "normal" /\ stb'.table # <<>> /\ own' /\ stored' = stb'
    BY <1>1, <1>2 DEF Good, Record, Save
  <1>6. own' \in BOOLEAN
    BY <1>1 DEF VInv, Records
  <1>7. Records'
    BY <1>1, <1>4, <1>5, <1>6 DEF Records
  <1>8. Loader(flash, 1)'
    BY <1>1, <1>4 DEF Loader
  <1>9. Sync' /\ Course' /\ Ranges'
    BY <1>1, <1>5, <1>8 DEF VInv, Sync, Course, Ranges, At, BootPlaces, AppPlaces, Goes, bounds
  <1> QED BY <1>1, <1>7, <1>9, MoveWhole

\* The settings are loaded as they are.
LEMMA LoadSettingsWhole ==
  ASSUME UInv, VInv, LoadSettings PROVE VInv'
  <1>1. /\ pc \in {"main", "loader"} /\ stored # NoRecord /\ stored.state # "reset" /\ own' = TRUE /\ stb' = stored
        /\ UNCHANGED <<flash, stored, seen, offer, bounds>>
        /\ (pc = "main" /\ Goes("run")) \/ (pc = "loader" /\ Goes("ota"))
    BY LoadsRecord DEF LoadSettings, Load
  <1>2. /\ Good(stored) /\ stored.table # <<>>
        /\ pc = "main" => stored.state = "normal"
        /\ pc = "loader" => Loader(flash, 1)
    BY <1>1 DEF VInv, Records, Course, Settled, Good, Record
  <1>3. Records'
    BY <1>1, <1>2 DEF VInv, Records, Settled
  <1>4. Loader(flash, 1)' <=> Loader(flash, 1)
    BY <1>1 DEF Loader
  <1>5. Sync' /\ Course' /\ Ranges'
    BY <1>1, <1>2, <1>4 DEF VInv, Sync, Course, Ranges, At, BootPlaces, AppPlaces, Goes, bounds
  <1> QED BY <1>1, <1>3, <1>5, MoveWhole

\* ap_OTA_upgrade keeps the invariant.
LEMMA RequestWhole ==
  ASSUME VInv, Request PROVE VInv'
  <1>1. /\ pc = "run" /\ stored' = [stb EXCEPT !.trigger = "appota"] /\ Reboot /\ UNCHANGED <<flash, bounds>>
    BY DEF Request
  <1>2. stored = stb /\ stb.state = "normal" /\ Good(stb) /\ stb # NoRecord
    BY <1>1 DEF VInv, Sync, Course, Records, At, AppPlaces, Good, Record, NoRecord
  <1>3. Intact(flash) /\ stb.table # <<>>
    BY <1>2 DEF VInv, Records, Settled
  <1>4. /\ Good([stb EXCEPT !.trigger = "appota"]) /\ [stb EXCEPT !.trigger = "appota"].table # <<>>
    BY <1>2, <1>3 DEF Good, Record
  <1> QED BY <1>1, <1>3, <1>4, StoredStays, RebootWhole DEF bounds
------------------------------------------------------------------------------
(* The upgrade loader. *)

\* Steps that leave the flash, and what the settings say of it, as they are.
LEMMA LoaderStays ==
  ASSUME VInv, flash' = flash, UNCHANGED <<seen, crashes, keys>>, pc \in AppPlaces,
         NEW p \in {"prompt", "begin", "download", "burn", "burnt", "done"}, Goes(p),
         Good(stb'), own' = own, stored' = stb' \/ (stored' = stored /\ stb' = stb),
         offer' \in Streams \cup {NoOffer}, refusals' \in 0 .. MaxRefusals,
         stb'.state # "reset" => stb'.table # <<>>, stb'.state # "preburn" => Intact(flash),
         p \in {"prompt", "begin", "download"} => stb'.state # "reset",
         p \in {"burn", "burnt"} => stb'.state = "preburn" /\ offer' \in Streams,
         p \in {"prompt", "begin", "download", "burn"} => Loader(flash, 1),
         p = "burnt" => Intact(flash), p = "done" => stb'.state # "preburn"
  PROVE  VInv'
  <1>1. own /\ stored = stb /\ own \in BOOLEAN
    BY DEF VInv, Sync, At, Records
  <1>2. stored' = stb' /\ stb' # NoRecord
    BY <1>1 DEF Good, Record, NoRecord
  <1>3. Records'
    BY <1>1, <1>2 DEF Records, Settled
  <1>4. Loader(flash, 1)' <=> Loader(flash, 1)
    BY DEF Loader
  <1>5. Intact(flash)' <=> Intact(flash)
    OBVIOUS
  <1>6. Sync'
    BY <1>1, <1>2 DEF Sync, At, BootPlaces, AppPlaces, Goes
  <1>7. Course' /\ Ranges'
    BY <1>1, <1>2, <1>4, <1>5 DEF VInv, Course, Ranges, At, Goes
  <1> QED BY <1>3, <1>6, <1>7, MoveWhole

\* What the settings say of the flash in the upgrade loader.
LEMMA LoaderKnows ==
  ASSUME VInv, pc \in AppPlaces
  PROVE  /\ own /\ stored = stb /\ Good(stb) /\ (stb.state # "reset" => stb.table # <<>>)
         /\ stb.state # "preburn" => Intact(flash)
         /\ offer \in Streams \cup {NoOffer} /\ refusals \in 0 .. MaxRefusals /\ MaxRefusals \in Nat
  <1>1. own /\ stored = stb /\ Good(stb) /\ stb # NoRecord
    BY DEF VInv, Sync, At, Records, Good, Record, NoRecord
  <1> QED BY <1>1, UpgradeFlowAssumption DEF VInv, Records, Settled, Ranges

\* Refusals are counted up to their bound.
LEMMA RefusalIs ==
  ASSUME refusals \in 0 .. MaxRefusals, MaxRefusals \in Nat, Refusal PROVE refusals' \in 0 .. MaxRefusals
  BY DEF Refusal

\* The steps of the upgrade loader up to the burn, and those after it.
LEMMA LoaderWholes ==
  ASSUME FixedLayout, UInv, VInv,
         Ota \/ Confirm \/ Cancel \/ Begin \/ NoDownload \/ Download \/ UpdatePart \/ Burnt \/ Done
  PROVE  VInv'
  <1>1. CASE Ota
    <2>1. /\ pc = "ota" /\ UNCHANGED <<flash, stored, stb, own, seen, offer, bounds>>
          /\ \E p \in {"prompt", "begin"} : Goes(p)
      BY <1>1 DEF Ota
    <2>2. pc \in AppPlaces /\ stb.state # "reset" /\ Loader(flash, 1)
      BY <2>1 DEF AppPlaces, VInv, Course
    <2> QED BY <2>1, <2>2, LoaderKnows, LoaderStays DEF bounds
  <1>2. CASE Confirm
    <2>1. pc = "prompt" /\ UNCHANGED <<flash, stored, stb, own, seen, offer, bounds>> /\ Goes("begin")
      BY <1>2 DEF Confirm
    <2>2. pc \in AppPlaces /\ stb.state # "reset" /\ Loader(flash, 1)
      BY <2>1 DEF AppPlaces, VInv, Course
    <2> QED BY <2>1, <2>2, LoaderKnows, LoaderStays DEF bounds
  <1>3. CASE Cancel
    <2>1. Reboot /\ UNCHANGED <<flash, stored, crashes, keys>> /\ Refusal
      BY <1>3 DEF Cancel
    <2>2. refusals' \in 0 .. MaxRefusals
      BY <2>1, StoredStays, UpgradeFlowAssumption, RefusalIs
    <2> QED BY <2>1, <2>2, StoredStays, RebootWhole
  <1>4. CASE Begin
    <2>1. /\ pc = "begin" /\ Goes("download") /\ stb' = [stb EXCEPT !.trigger = "none"] /\ own' = own /\ Save
          /\ UNCHANGED <<flash, seen, offer, bounds>>
      BY <1>4 DEF Begin
    <2>2. pc \in AppPlaces /\ stb.state # "reset" /\ Loader(flash, 1)
      BY <2>1 DEF AppPlaces, VInv, Course
    <2>3. stored' = stb'
      BY <2>1, <2>2, LoaderKnows DEF Save
    <2>4. Good(stb') /\ stb'.state = stb.state /\ stb'.table = stb.table
      BY <2>1, <2>2, LoaderKnows DEF Good, Record
    <2> QED BY <2>1, <2>2, <2>3, <2>4, LoaderKnows, LoaderStays DEF bounds
  <1>5. CASE NoDownload
    <2>1. pc = "download" /\ Refusal /\ Goes("prompt") /\ UNCHANGED <<flash, stored, stb, own, seen, offer, crashes, keys>>
      BY <1>5 DEF NoDownload
    <2>2. pc \in AppPlaces /\ stb.state # "reset" /\ Loader(flash, 1)
      BY <2>1 DEF AppPlaces, VInv, Course
    <2>3. refusals' \in 0 .. MaxRefusals
      BY <2>1, <2>2, LoaderKnows, RefusalIs
    <2> QED BY <2>1, <2>2, <2>3, LoaderKnows, LoaderStays
  <1>6. CASE Download
    <2>1. /\ pc = "download" /\ Goes("burn") /\ offer' \in Streams
          /\ stb' = [stb EXCEPT !.state = "preburn"] /\ own' = own /\ Save
          /\ UNCHANGED <<flash, seen, bounds>>
      BY <1>6 DEF Download
    <2>2. pc \in AppPlaces /\ stb.state # "reset" /\ Loader(flash, 1)
      BY <2>1 DEF AppPlaces, VInv, Course
    <2>3. stored' = stb'
      BY <2>1, <2>2, LoaderKnows DEF Save
    <2>4. Good(stb') /\ stb'.state = "preburn" /\ stb'.table = stb.table
      BY <2>1, <2>2, LoaderKnows DEF Good, Record
    <2> QED BY <2>1, <2>2, <2>3, <2>4, LoaderKnows, LoaderStays DEF bounds
  <1>7. CASE UpdatePart
    <2>1. /\ pc = "chunks" /\ Goes("burnt") /\ stb' = [stb EXCEPT !.table = NewTable] /\ own' = own /\ Save
          /\ UNCHANGED <<flash, seen, offer, bounds>>
      BY <1>7 DEF UpdatePart
    <2>2. pc \in AppPlaces /\ stb.state = "preburn" /\ offer \in Streams /\ Intact(flash)
      BY <2>1 DEF AppPlaces, VInv, Course, At
    <2>3. stored' = stb'
      BY <2>1, <2>2, LoaderKnows DEF Save
    <2>4. TableOk(NewTable) /\ NewTable # <<>>
      <3>1. offer.sw \in Versions
        BY <2>2, UpgradeFlowAssumption
      <3>2. TableOk(stb.table) /\ stb.table # <<>>
        BY <2>2, LoaderKnows DEF Good
      <3> QED BY <3>1, <3>2, NewTableIs
    <2>5. NewTable \in Seq(Chunk)
      BY <2>4, DefaultGood DEF Good, Record, Default
    <2>6. Good(stb') /\ stb'.state = "preburn" /\ stb'.table # <<>>
      BY <2>1, <2>2, <2>4, <2>5, LoaderKnows DEF Good, Record
    <2> QED BY <2>1, <2>2, <2>3, <2>6, LoaderKnows, LoaderStays DEF bounds
  <1>8. CASE Burnt
    <2>1. /\ pc = "burnt" /\ Goes("done") /\ own' = own /\ Save /\ UNCHANGED <<flash, seen, offer, bounds>>
          /\ \/ stb' = [stb EXCEPT !.sw = offer.sw, !.state = "reset", !.table = <<>>]
             \/ stb' = [stb EXCEPT !.sw = offer.sw, !.state = "normal"]
      BY <1>8 DEF Burnt
    <2>2. pc \in AppPlaces /\ stb.state = "preburn" /\ offer \in Streams /\ Intact(flash)
      BY <2>1 DEF AppPlaces, VInv, Course, At
    <2>3. stored' = stb'
      BY <2>1, <2>2, LoaderKnows DEF Save
    <2>4. offer.sw \in Versions
      BY <2>2, UpgradeFlowAssumption
    <2>5. TableOk(<<>>) /\ <<>> \in Seq(Chunk)
      BY DefaultGood DEF Good, Record
    <2>6. Good(stb') /\ stb'.state # "preburn" /\ (stb'.state # "reset" => stb'.table # <<>>)
      BY <2>1, <2>2, <2>4, <2>5, LoaderKnows DEF Good, Record
    <2> QED BY <2>1, <2>2, <2>3, <2>6, LoaderKnows, LoaderStays DEF bounds
  <1>9. CASE Done
    <2>1. pc = "done" /\ UNCHANGED <<flash, stored, bounds>> /\ (CrcOk => Reboot)
      BY <1>9 DEF Done
    <2>2. pc \in AppPlaces /\ stb.state # "preburn"
      BY <2>1 DEF AppPlaces, VInv, Course
    <2>3. Settled
      BY <2>2, LoaderKnows DEF Settled
    <2>4. Reboot
      BY <2>1, <2>3, SettledPasses
    <2> QED BY <2>1, <2>4, StoredStays, RebootWhole DEF bounds
  <1> QED BY <1>1, <1>2, <1>3, <1>4, <1>5, <1>6, <1>7, <1>8, <1>9

\* It starts to burn.
LEMMA BurnWhole ==
  ASSUME VInv, pc = "burn", flash' = flash, UNCHANGED <<seen, offer, bounds>>,
         stb' = [stb EXCEPT !.needbackup = TRUE] \/ stb' = stb, own' = own, Save,
         NEW src \in Seq(Kind), NEW then \in {"burnt", "chunks"}, Copy(src, 1, then),
         DOMAIN src = 1 .. Top, Intact(src), Owners(src)
  PROVE  VInv'
  <1>1. pc \in AppPlaces /\ stb.state = "preburn" /\ offer \in Streams
    BY DEF AppPlaces, VInv, Course, At
  <1>2. own /\ stored = stb /\ Good(stb) /\ stb.table # <<>> /\ own \in BOOLEAN
    BY <1>1, LoaderKnows DEF VInv, Records
  <1>3. Good(stb') /\ stb'.state = "preburn" /\ stb'.table # <<>> /\ stored' = stb' /\ stb' # NoRecord
    <2>1. stored' = stb'
      BY <1>2 DEF Save
    <2>2. Good(stb') /\ stb'.state = "preburn" /\ stb'.table # <<>>
      <3>1. CASE stb' = stb
        BY <1>1, <1>2, <3>1
      <3>2. CASE stb' = [stb EXCEPT !.needbackup = TRUE]
        BY <1>1, <1>2, <3>2 DEF Good, Record
      <3> QED BY <3>1, <3>2
    <2>3. stb' # NoRecord
      BY <2>2 DEF Good, Record, NoRecord
    <2> QED BY <2>1, <2>2, <2>3
  <1>4. Records'
    BY <1>2, <1>3 DEF Records, Settled
  <1>5. Sync' /\ Course' /\ Ranges'
    BY <1>1, <1>2, <1>3 DEF VInv, Sync, Course, Ranges, At, BootPlaces, AppPlaces, Copy, bounds
  <1> QED BY <1>4, <1>5, CopyWhole

\* _upg_upgrade_part_by_all: the image, with the owner's data.
LEMMA BurnAllWhole ==
  ASSUME FixedLayout, UInv, VInv, BurnAll PROVE VInv'
  <1>1. /\ pc = "burn" /\ UNCHANGED <<flash, seen, offer, bounds>>
        /\ stb' = [stb EXCEPT !.needbackup = TRUE] /\ own' = own /\ Save
        /\ Copy(Kept(Image(offer.sw, offer.sw)), 1, "burnt")
    BY DEF BurnAll
  <1>2. pc \in AppPlaces /\ stb.state = "preburn" /\ offer \in Streams
    BY <1>1 DEF AppPlaces, VInv, Course, At
  <1>3. TableOk(stb.table) /\ stb.table # <<>> /\ Proper /\ offer.sw \in Versions
    BY <1>2, LoaderKnows, UpgradeFlowAssumption DEF Good, VInv
  <1> DEFINE K == Kept(Image(offer.sw, offer.sw))
  <1>4. K \in Seq(Kind) /\ DOMAIN K = 1 .. Top /\ Intact(K) /\ Owners(K)
    BY <1>3, KeptIs
  <1> HIDE DEF K
  <1>5. Copy(K, 1, "burnt")
    BY <1>1 DEF K
  <1> QED BY <1>1, <1>4, <1>5, BurnWhole

\* _upg_upgrade_part_by_chunk: what it asks for, and what is bad.
LEMMA BurnChunksWhole ==
  ASSUME FixedLayout, AsksForBoth, UInv, VInv, BurnChunks PROVE VInv'
  <1>1. /\ pc = "burn" /\ offer.mode = "chunk" /\ UNCHANGED <<flash, seen, offer, bounds>>
        /\ \/ Goes("prompt") /\ UNCHANGED <<stb, stored, own>>
           \/ Fits /\ Upgraded = {} /\ Goes("burnt") /\ UNCHANGED <<stb, stored, own>>
           \/ /\ Fits /\ (stb' = [stb EXCEPT !.needbackup = TRUE] \/ stb' = stb)
              /\ own' = own /\ Save /\ Copy(Reorganised, 1, "chunks")
    BY DEF BurnChunks, BurnFails
  <1>2. pc \in AppPlaces /\ stb.state = "preburn" /\ offer \in Streams /\ Loader(flash, 1)
    BY <1>1 DEF AppPlaces, VInv, Course, At
  <1>3. own /\ stored = stb /\ Good(stb) /\ stb.table # <<>> /\ refusals \in 0 .. MaxRefusals
    BY <1>2, LoaderKnows
  <1>4. Fits => Burning
    BY <1>1, <1>2, <1>3 DEF Burning, Fits, Good, VInv, UInv
  <1>5. CASE Goes("prompt") /\ UNCHANGED <<stb, stored, own>>
    BY <1>1, <1>2, <1>3, <1>5, LoaderStays DEF bounds
  <1>6. CASE Fits /\ Upgraded = {} /\ Goes("burnt") /\ UNCHANGED <<stb, stored, own>>
    <2>1. Intact(flash)
      BY <1>4, <1>6, ReorganisedIs
    <2> QED BY <1>1, <1>2, <1>3, <1>6, <2>1, LoaderStays DEF bounds
  <1>7. CASE /\ Fits /\ (stb' = [stb EXCEPT !.needbackup = TRUE] \/ stb' = stb)
             /\ own' = own /\ Save /\ Copy(Reorganised, 1, "chunks")
    <2>1. Reorganised \in Seq(Kind) /\ DOMAIN Reorganised = 1 .. Top /\ Intact(Reorganised) /\ Owners(Reorganised)
      BY <1>4, <1>7, ReorganisedIs
    <2> QED BY <1>1, <1>7, <2>1, BurnWhole
  <1> QED BY <1>1, <1>5, <1>6, <1>7
------------------------------------------------------------------------------
\* As it left the factory, every chunk is whole and the owner's data are there.
LEMMA InitWhole ==
  ASSUME FixedLayout, Init PROVE VInv
  <1> DEFINE I == Image(0, Mine)
  <1>1. flash = [i \in 1 .. NorSize |-> IF i \in DOMAIN I THEN I[i] ELSE Blank]
    BY DEF Init
  <1>2. I \in Seq(Kind) /\ DOMAIN I = 1 .. Top /\ Holds(I, "user", Mine) /\ (\A id \in Slots : Holds(I, id, 0)) /\ 0 \in Versions
    BY ImageIs, UpgradeFlowAssumption
  <1> HIDE DEF I
  <1>3. \A i \in 1 .. Top : i \in 1 .. NorSize /\ I[i] \in Kind
    BY <1>2, Spots, ElementOfSeq, LenProperties
  <1>4. flash \in [1 .. NorSize -> Kind] /\ \A i \in 1 .. Top : flash[i] = I[i]
    BY <1>1, <1>2, <1>3, KindSectors
  <1>5. \A id \in Ids : \A v : Holds(I, id, v) => Holds(flash, id, v)
    BY <1>4, Spots DEF Holds
  <1>6. Owners(flash) /\ \A id \in Slots : Holds(flash, id, 0)
    BY <1>2, <1>5 DEF Owners, Slots, Ids
  <1>7. Headed(flash)
    <2>1. \A id \in Slots : flash[Place(id)] = Sector(id, 0, 1)
      BY <1>6, HeldHead DEF Slots, Ids
    <2> QED BY <2>1 DEF Headed, Slots, Sector
  <1>8. Intact(flash)
    BY <1>2, <1>6 DEF Intact, Slots
  <1>9. /\ stored = NoRecord /\ stb = Default /\ own = FALSE /\ pc = "off" /\ job = NoJob
        /\ seen = Unseen /\ offer = NoOffer /\ crashes = 0 /\ keys = 0 /\ refusals = 0
    BY DEF Init
  <1>10. Records
    BY <1>8, <1>9, DefaultGood DEF Records
  <1>11. Copying
    <2>1. <<>> \in Seq(Kind)
      BY EmptySeq
    <2> QED BY <1>9, <2>1 DEF Copying, NoJob
  <1>12. Sync /\ Course /\ Ranges
    BY <1>9, UpgradeFlowAssumption DEF Sync, Course, Ranges, At, BootPlaces, AppPlaces, NoJob, Unseen
  <1> QED BY <1>4, <1>6, <1>7, <1>10, <1>11, <1>12 DEF VInv, Proper

\* A step that changes nothing keeps the invariant.
LEMMA StutterWhole ==
  ASSUME VInv, UNCHANGED vars PROVE VInv'
  <1>1. UNCHANGED <<flash, stored, stb, own, pc, job, seen, offer, crashes, keys, refusals>>
    BY DEF vars, ram, bounds
  <1>2. /\ (Loader(flash, 1)' <=> Loader(flash, 1)) /\ (Loader(job.src, 1)' <=> Loader(job.src, 1))
        /\ (FromSpare' <=> FromSpare) /\ (Part' <=> Part)
    BY <1>1 DEF Loader, FromSpare, Part
  <1>3. Proper' /\ Records'
    BY <1>1 DEF VInv, Proper, Records, Owners, Headed, Settled
  <1>4. Copying'
    BY <1>1, <1>2 DEF VInv, Copying
  <1>5. Sync' /\ Course' /\ Ranges'
    BY <1>1, <1>2 DEF VInv, Sync, Course, Ranges, At, Settled
  <1> QED BY <1>3, <1>4, <1>5 DEF VInv

\* What theorem LoaderIsSafe takes as a hypothesis.
LEMMA TableIsBelow ==
  ASSUME FixedLayout, VInv PROVE TableBelow
  <1> SUFFICES ASSUME pc = "burn", Size(stb.table) <= NorSize PROVE Size(stb.table) \in 1 .. BackupAt - 1
    BY DEF TableBelow
  <1>1. pc \in AppPlaces /\ stb.state = "preburn"
    BY DEF AppPlaces, VInv, Course, At
  <1>2. TableOk(stb.table) /\ stb.table # <<>>
    BY <1>1, LoaderKnows DEF Good
  <1>3. Size(stb.table) = Top
    BY <1>2, TableSize
  <1> QED BY <1>3, Spots, Ends, Layout DEF Ids

\* Every step keeps both invariants.
LEMMA NextWhole ==
  ASSUME FixedLayout, AsksForBoth, UInv, VInv, [Next]_vars PROVE UInv' /\ VInv'
  <1>1. UInv'
    BY TableIsBelow, NextUInv
  <1>2. CASE Boot
    BY <1>1, <1>2, PowerOnWhole, FlaggedWhole, DecideWhole, EnterWhole, RestoredWhole, SpareWhole, StartWhole DEF Boot
  <1>3. CASE Settings
    BY <1>1, <1>3, FactoryInitWhole, CompleteWhole, CompletedWhole, LoadSettingsWhole DEF Settings
  <1>4. CASE Upgrade
    BY <1>1, <1>4, LoaderWholes, BurnAllWhole, BurnChunksWhole DEF Upgrade
  <1>5. CASE Write
    BY <1>1, <1>5, VerifiedWhole, EraseWhole, FillWhole DEF Write
  <1>6. CASE Request
    BY <1>1, <1>6, RequestWhole
  <1>7. CASE PowerOff
    BY <1>1, <1>7, PowerOffWhole
  <1>8. CASE UNCHANGED vars
    BY <1>1, <1>8, StutterWhole
  <1> QED BY <1>1, <1>2, <1>3, <1>4, <1>5, <1>6, <1>7, <1>8 DEF Next

\* So they hold in every state.
LEMMA Inductive ==
  ASSUME FixedLayout, AsksForBoth PROVE Spec => [](UInv /\ VInv)
  <1>1. Init => UInv /\ VInv
    BY InitUInv, InitWhole
  <1>2. (UInv /\ VInv) /\ [Next]_vars => (UInv /\ VInv)'
    BY NextWhole
  <1> QED BY <1>1, <1>2, PTL DEF Spec

\* What the inductive invariant says of the types.
LEMMA TypesWhole ==
  ASSUME FixedLayout, UInv, VInv PROVE TypeOK
  <1>1. \A c \in Kind : c \in Content
    BY DEF Kind
  <1>2. flash \in [1 .. NorSize -> Content]
    BY <1>1 DEF VInv, Proper
  <1>3. job.src \in Seq(Content)
    <2>1. job.src \in Seq(Kind)
      BY DEF VInv, Copying
    <2>2. Len(job.src) \in Nat /\ DOMAIN job.src = 1 .. Len(job.src) /\ \A k \in 1 .. Len(job.src) : job.src[k] \in Kind
      BY <2>1, LenProperties, ElementOfSeq
    <2>3. job.src = [k \in 1 .. Len(job.src) |-> job.src[k]]
      BY <2>1, <2>2, SeqDef
    <2>4. job.src \in [1 .. Len(job.src) -> Content]
      BY <1>1, <2>2, <2>3
    <2> QED BY <2>2, <2>4, IsASeq
  <1>4. pc = "write" => job.n \in DOMAIN job.src /\ Here \in DOMAIN flash
    BY WriteFacts DEF VInv, Proper
  <1>5. (stored = NoRecord \/ stored \in Record) /\ stb \in Record /\ own \in BOOLEAN
    BY DEF VInv, Records, Good
  <1> QED BY <1>2, <1>3, <1>4, <1>5, TableIsBelow DEF TypeOK, VInv, Ranges

\* The main application runs on a whole set of chunks.
LEMMA RunsWhole ==
  ASSUME FixedLayout, VInv, pc = "run"
  PROVE  /\ CrcOk /\ \A id \in Ids : Found(flash, id) = Place(id)
         /\ Newest => flash[Place("main")].ver = flash[Place("rsc")].ver
  <1>1. pc \in AppPlaces /\ stb.state = "normal"
    BY DEF AppPlaces, VInv, Course, At
  <1>2. Intact(flash)
    BY <1>1, LoaderKnows
  <1> QED BY <1>2, IntactPasses DEF VInv
------------------------------------------------------------------------------
\* The flash, the settings and the program's state keep their types, and a table that
\* passes __upg_reorg_part's size check (lib_upg4_com.c) ends below the backup.
THEOREM FlowTypes ==
  ASSUME FixedLayout, AsksForBoth PROVE Spec => []TypeOK
  <1>1. UInv /\ VInv => TypeOK
    BY TypesWhole
  <1> QED BY <1>1, Inductive, PTL

\* Wherever power fails, the upgrade loader or its backup (libupg4, backup_loader.c) is
\* whole; what the tables say of the flash is proved here, not assumed.
THEOREM LoaderAlwaysSafe ==
  ASSUME FixedLayout, AsksForBoth PROVE Spec => []LoaderSafe
  <1>1. UInv /\ VInv => LoaderSafe
    BY UInvIsSafe
  <1> QED BY <1>1, Inductive, PTL

\* No power failure leaves the box in the boot loader's shell (bootloader.c) or halted
\* in the upgrade loader.
THEOREM NeverStuck ==
  ASSUME FixedLayout, AsksForBoth PROVE Spec => []NeverDead
  <1>1. UInv /\ VInv => NeverDead
    BY DEF VInv, Course, NeverDead
  <1> QED BY <1>1, Inductive, PTL

\* The owner's data (__upg_restore_chunk, lib_upg4_com.c) outlive every upgrade,
\* however often it is interrupted.
THEOREM DataKept ==
  ASSUME FixedLayout, AsksForBoth PROVE Spec => []PrivateKept
  <1>1. ASSUME VInv, pc = "run"
        PROVE  [n \in 1 .. UserLen |-> flash[Found(flash, "user") + n - 1]] = Sectors("user", Mine)
    <2>1. Found(flash, "user") = Place("user")
      BY <1>1, RunsWhole DEF Ids
    <2>2. Lens("user", 0) = UserLen /\ Lens("user", Mine) = UserLen
      BY DEF Lens
    <2>3. \A n \in 1 .. UserLen : flash[Place("user") + n - 1] = Sector("user", Mine, n)
      BY <1>1, <2>2 DEF VInv, Proper, Owners, Holds
    <2> QED BY <2>1, <2>2, <2>3 DEF Sectors
  <1>2. UInv /\ VInv => PrivateKept
    BY <1>1 DEF PrivateKept
  <1> QED BY <1>2, Inductive, PTL

\* The main application (AppInit, root.c) only runs with all chunks whole, and with main
\* code and resources of one upgrade.
THEOREM OneVersionRuns ==
  ASSUME FixedLayout, AsksForBoth, Newest PROVE Spec => []RunsOneVersion
  <1>1. ASSUME VInv, pc = "run" PROVE CrcOk /\ flash[Found(flash, "main")].ver = flash[Found(flash, "rsc")].ver
    <2>1. Found(flash, "main") = Place("main") /\ Found(flash, "rsc") = Place("rsc")
      BY <1>1, RunsWhole DEF Ids
    <2> QED BY <1>1, <2>1, RunsWhole
  <1>2. UInv /\ VInv => RunsOneVersion
    BY <1>1 DEF RunsOneVersion
  <1> QED BY <1>2, Inductive, PTL
=============================================================================
