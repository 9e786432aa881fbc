--------------------------- MODULE DisplayProofs ---------------------------
(***************************************************************************)
(* MPEG-2 and VC-1, for every stream of reference frames and B frames,     *)
(* with fields, skipped frames, seeks and pictures that the driver         *)
(* refuses: OutputInOrder, NoPictureLost and ReferencesAreTrue.            *)
(*                                                                         *)
(* A decoder with two references knows nothing of display times.  That its *)
(* output is in order rests on what was shown of the part being sent: none *)
(* of it comes after the reference that is shown next (Behind), and the    *)
(* references are the last two of the stream that were decoded.            *)
(*                                                                         *)
(* The theorems are of streams that the code decodes right (Hard is        *)
(* empty): the properties fail for those that HardKinds name.              *)
(***************************************************************************)
EXTENDS DisplayOrder, SequenceTheorems, WellFoundedInduction, TLAPS

CONSTANTS Hard, MaxFramesOfVc1, MaxFramesOfMpeg2, MaxSpecial
VARIABLES refs, shown, pred, stream, lost, special, firstField, cur

Vc1   == INSTANCE Vc1Decoder WITH MaxFrames <- MaxFramesOfVc1
Mpeg2 == INSTANCE Mpeg2Decoder WITH MaxFrames <- MaxFramesOfMpeg2

-----------------------------------------------------------------------------
(* The last frames of a set *)

\* A set of numbers has a least one.
LEMMA LeastNumber ==
  ASSUME NEW T \in SUBSET Nat, T # {}
  PROVE  \E mm \in T : \A n \in T : mm <= n
<1> DEFINE R == {ss \in Nat \X Nat : ss[1] < ss[2]}
<1>1. OpToRel(<, Nat) = R
  BY DEF OpToRel
<1>2. IsWellFoundedOn(R, Nat)
  BY <1>1, NatLessThanWellFounded
<1> HIDE DEF R
<1>3. PICK x \in T : \A y \in T : ~ (<<y, x>> \in R)
  BY <1>2, WFMin, Zenon
<1>4. ASSUME NEW y \in T
      PROVE  x <= y
  <2>1. <<y, x>> \notin R
    BY <1>3
  <2>2. x \in Nat /\ y \in Nat
    OBVIOUS
  <2> QED BY <2>1, <2>2 DEF R
<1> QED BY <1>4

\* A set of frames has a last one.
LEMMA LastNumber ==
  ASSUME NEW n \in Nat, NEW R \in SUBSET (1..n), R # {}
  PROVE  \E r \in R : \A s \in R : s <= r
<1> DEFINE T == {n - r : r \in R}
<1>1. T \in SUBSET Nat /\ T # {}
  <2>1. \A r \in R : n - r \in Nat
    OBVIOUS
  <2> QED BY <2>1
<1>2. PICK m \in T : \A k \in T : m <= k
  BY <1>1, LeastNumber
<1>3. PICK r \in R : m = n - r
  OBVIOUS
<1>4. ASSUME NEW s \in R
      PROVE  s <= r
  <2>1. n - s \in T
    OBVIOUS
  <2>2. m <= n - s
    BY <1>2, <2>1
  <2> QED BY <1>3, <2>2
<1> QED BY <1>4

\* The last frame of R is b, when none but those up to b can be the last one.
LEMMA NewestIs ==
  ASSUME NEW n \in Nat, NEW R \in SUBSET (1..n), NEW b \in R, NEW gone, Newest(R) \cap gone = {},
         \A r \in R : r \notin gone => r <= b
  PROVE  Newest(R) = {b} /\ \A r \in R : r <= b
<1>1. PICK m \in R : \A s \in R : s <= m
  BY LastNumber
<1>2. m \in Newest(R)
  BY <1>1 DEF Newest
<1>3. m <= b
  BY <1>2
<1>4. m = b
  BY <1>1, <1>3
<1>5. ASSUME NEW r \in Newest(R)
      PROVE  r = b
  <2>1. r \in R /\ b <= r
    BY <1>5 DEF Newest
  <2> QED BY <2>1, <1>1, <1>4
<1> HIDE DEF Newest
<1> QED BY <1>1, <1>2, <1>4, <1>5

\* The last two are a and b, when none but a, b and those before a can be.
LEMMA NewestTwoAre ==
  ASSUME NEW n \in Nat, NEW R \in SUBSET (1..n), NEW a \in R, NEW b \in R, a < b,
         NEW gone, NewestTwo(R) \cap gone = {},
         \A r \in R : r \notin gone => r <= a \/ r = b
  PROVE  NewestTwo(R) = {a, b} /\ \A r \in R : r <= b
<1>1. PICK m \in R : \A s \in R : s <= m
  BY LastNumber
<1>2. m \in NewestTwo(R)
  BY <1>1 DEF NewestTwo
<1>3. m <= a \/ m = b
  BY <1>2
<1>4. m = b
  BY <1>1, <1>3
<1>5. PICK k \in R \ {b} : \A s \in R \ {b} : s <= k
  <2>1. R \ {b} \in SUBSET (1..n) /\ R \ {b} # {}
    OBVIOUS
  <2> QED BY <2>1, LastNumber
<1>6. k \in NewestTwo(R)
  <2>1. ASSUME NEW s \in R, NEW t \in R, k < s, s < t
        PROVE  FALSE
    <3>1. s \notin R \ {b}
      BY <1>5, <2>1
    <3>2. s = b
      BY <3>1
    <3> QED BY <2>1, <3>2, <1>1, <1>4
  <2> QED BY <2>1, <1>5 DEF NewestTwo
<1>7. k = a
  <2>1. k <= a
    BY <1>6, <1>5
  <2>2. a <= k
    BY <1>5
  <2> QED BY <2>1, <2>2
<1> HIDE DEF NewestTwo
<1>8. ASSUME NEW r \in NewestTwo(R)
      PROVE  r \in {a, b}
  <2>1. r \in R /\ ~(r < a /\ a < b) /\ r \notin gone
    BY <1>8 DEF NewestTwo
  <2> QED BY <2>1
<1> QED BY <1>1, <1>2, <1>4, <1>6, <1>7, <1>8

-----------------------------------------------------------------------------
(* Frames, and a list of those shown *)

\* The frames of a stream.
Kinds == {"I", "P", "skipped", "B"}
Frame == [part : Nat, kind : Kinds]

\* When one frame precedes another.
LEMMA PrecedesWhen ==
  ASSUME NEW S, NEW i, NEW j
  PROVE  /\ S[i].part # S[j].part /\ S[i].part < S[j].part => Precedes(S, i, j)
         /\ S[i].part = S[j].part /\ (IsB(S[i]) <=> IsB(S[j])) /\ i < j => Precedes(S, i, j)
         /\ S[i].part = S[j].part /\ IsB(S[i]) /\ ~IsB(S[j]) /\ (\A r \in References(S, i) : r <= j) => Precedes(S, i, j)
         /\ S[i].part = S[j].part /\ ~IsB(S[i]) /\ IsB(S[j]) /\ (\E r \in References(S, j) : i < r) => Precedes(S, i, j)
<1>1. ASSUME S[i].part # S[j].part, S[i].part < S[j].part
      PROVE  Precedes(S, i, j)
  BY <1>1 DEF Precedes
<1>2. ASSUME S[i].part = S[j].part, IsB(S[i]), IsB(S[j]), i < j
      PROVE  Precedes(S, i, j)
  BY <1>2 DEF Precedes, IsB
<1>3. ASSUME S[i].part = S[j].part, ~IsB(S[i]), ~IsB(S[j]), i < j
      PROVE  Precedes(S, i, j)
  BY <1>3 DEF Precedes, IsB
<1>4. ASSUME S[i].part = S[j].part, IsB(S[i]), ~IsB(S[j]), \A r \in References(S, i) : r <= j
      PROVE  Precedes(S, i, j)
  BY <1>4 DEF Precedes, IsB
<1>5. ASSUME S[i].part = S[j].part, ~IsB(S[i]), IsB(S[j]), \E r \in References(S, j) : i < r
      PROVE  Precedes(S, i, j)
  BY <1>5 DEF Precedes, IsB
<1> QED BY <1>1, <1>2, <1>3, <1>4, <1>5

\* A frame more at the end changes nothing for those before it, whether it is lost or not.
LEMMA OneMoreFrame ==
  ASSUME NEW S \in Seq(Frame), NEW f \in Frame, NEW gone, NEW more, more \subseteq gone \cup {Len(S) + 1},
         gone \subseteq more
  PROVE  \A i \in 1..Len(S) :
             /\ Append(S, f)[i] = S[i] /\ References(Append(S, f), i) = References(S, i)
             /\ HasPlace(Append(S, f), i, more) <=> HasPlace(S, i, gone)
             /\ \A j \in 1..Len(S) : Precedes(Append(S, f), i, j) <=> Precedes(S, i, j)
<1> DEFINE T == Append(S, f)
           n == Len(S)
<1>1. n \in Nat /\ \A i \in 1..n : T[i] = S[i]
  OBVIOUS
<1> HIDE DEF T, n
<1>2. ASSUME NEW i \in 1..n
      PROVE  References(T, i) = References(S, i)
  BY <1>1 DEF References
<1>3. ASSUME NEW i \in 1..n
      PROVE  IsB(T[i]) => Wanted(T, i) = Wanted(S, i) /\ n + 1 \notin Wanted(S, i)
  <2>1. n + 1 \notin References(S, i)
    BY <1>1 DEF References
  <2>2. \A R : NewestTwo(R) \subseteq R
    BY DEF NewestTwo
  <2> QED BY <1>1, <1>2, <2>1, <2>2 DEF Wanted
<1>4. ASSUME NEW i \in 1..n
      PROVE  HasPlace(T, i, more) <=> HasPlace(S, i, gone)
  <2>1. T[i] = S[i]
    BY <1>1
  <2>2. IsB(T[i]) => (Wanted(T, i) \cap more = {} <=> Wanted(S, i) \cap gone = {})
    BY <1>3 DEF n
  <2> QED BY <2>1, <2>2 DEF HasPlace
<1>5. ASSUME NEW i \in 1..n, NEW j \in 1..n
      PROVE  Precedes(T, i, j) <=> Precedes(S, i, j)
  <2>1. T[i] = S[i] /\ T[j] = S[j] /\ References(T, i) = References(S, i) /\ References(T, j) = References(S, j)
    BY <1>1, <1>2
  <2> QED BY <2>1 DEF Precedes
<1> QED BY <1>1, <1>2, <1>4, <1>5 DEF T, n

\* The frames of a list are of the stream.
ListOK(S, list) == list \in Seq(Nat) /\ \A a \in DOMAIN list : list[a] \in 1..Len(S)

\* A list stays in order when the new frame comes after all of it.
LEMMA DisplaysAppend ==
  ASSUME NEW S, NEW list \in Seq(Nat), NEW gone, Displays(S, list, gone), NEW x \in Nat,
         \A a \in DOMAIN list : HasPlace(S, list[a], gone) /\ HasPlace(S, x, gone) => Precedes(S, list[a], x)
  PROVE  Displays(S, Append(list, x), gone)
<1> DEFINE t == Append(list, x)
           n == Len(list)
<1>1. /\ n \in Nat /\ DOMAIN list = 1..n /\ DOMAIN t = 1..(n + 1) /\ t[n + 1] = x
      /\ \A a \in 1..n : t[a] = list[a]
  OBVIOUS
<1> HIDE DEF t, n
<1>2. ASSUME NEW a \in DOMAIN t, NEW b \in DOMAIN t, a < b, HasPlace(S, t[a], gone), HasPlace(S, t[b], gone)
      PROVE  Precedes(S, t[a], t[b])
  <2>1. a \in 1..n
    BY <1>1, <1>2
  <2>2. CASE b \in 1..n
    BY <1>1, <1>2, <2>1, <2>2 DEF Displays
  <2>3. CASE b = n + 1
    BY <1>1, <1>2, <2>1, <2>3
  <2> QED BY <1>1, <2>2, <2>3
<1> QED BY <1>2 DEF Displays, t

\* What was shown of a part comes before its reference frame next.
Behind(S, part, list, gone, next) ==
    \A a \in DOMAIN list : S[list[a]].part = part =>
        IF IsB(S[list[a]]) THEN HasPlace(S, list[a], gone) => \A r \in References(S, list[a]) : r <= next
        ELSE list[a] < next

\* What comes before a reference comes before a later one.
LEMMA BehindMore ==
  ASSUME NEW S, NEW list, ListOK(S, list), NEW gone, NEW part, NEW next \in Nat, Behind(S, part, list, gone, next),
         NEW later \in Nat, next <= later
  PROVE  Behind(S, part, list, gone, later)
<1>1. ASSUME NEW a \in DOMAIN list, S[list[a]].part = part, IsB(S[list[a]]), HasPlace(S, list[a], gone),
             NEW r \in References(S, list[a])
      PROVE  r <= later
  <2>1. r <= next
    BY <1>1 DEF Behind
  <2>2. r \in Int
    BY <1>1 DEF References, ListOK
  <2> QED BY <2>1, <2>2
<1>2. ASSUME NEW a \in DOMAIN list, S[list[a]].part = part, ~IsB(S[list[a]])
      PROVE  list[a] < later
  <2>1. list[a] < next /\ list[a] \in Nat
    BY <1>2 DEF Behind, ListOK
  <2> QED BY <2>1
<1> QED BY <1>1, <1>2 DEF Behind

\* A list with a frame more.
LEMMA BehindAppend ==
  ASSUME NEW S, NEW list \in Seq(Nat), NEW gone, NEW part, NEW next, Behind(S, part, list, gone, next), NEW x \in Nat,
         S[x].part = part =>
             IF IsB(S[x]) THEN HasPlace(S, x, gone) => \A r \in References(S, x) : r <= next ELSE x < next
  PROVE  Behind(S, part, Append(list, x), gone, next)
<1> DEFINE t == Append(list, x)
           n == Len(list)
<1>1. /\ n \in Nat /\ DOMAIN list = 1..n /\ DOMAIN t = 1..(n + 1) /\ t[n + 1] = x
      /\ \A a \in 1..n : t[a] = list[a]
  OBVIOUS
<1> HIDE DEF t, n
<1>2. ASSUME NEW a \in DOMAIN t, S[t[a]].part = part
      PROVE  IF IsB(S[t[a]]) THEN HasPlace(S, t[a], gone) => \A r \in References(S, t[a]) : r <= next
             ELSE t[a] < next
  <2>1. CASE a \in 1..n
    <3>1. t[a] = list[a] /\ a \in DOMAIN list
      BY <1>1, <2>1
    <3> QED BY <1>2, <3>1 DEF Behind
  <2>2. CASE a = n + 1
    <3>1. t[a] = x
      BY <1>1, <2>2
    <3> QED BY <1>2, <3>1
  <2> QED BY <1>1, <2>1, <2>2
<1> QED BY <1>2 DEF Behind, t

\* A list of frames with one more is a list of frames.
LEMMA ListOKAppend ==
  ASSUME NEW S, NEW list, ListOK(S, list), NEW x \in Nat, x \in 1..Len(S)
  PROVE  ListOK(S, Append(list, x)) /\ Range(Append(list, x)) = Range(list) \cup {x}
<1> DEFINE t == Append(list, x)
           n == Len(list)
<1>1. /\ list \in Seq(Nat) /\ t \in Seq(Nat) /\ n \in Nat /\ DOMAIN list = 1..n /\ DOMAIN t = 1..(n + 1) /\ t[n + 1] = x
      /\ \A a \in 1..n : t[a] = list[a]
  BY DEF ListOK
<1> HIDE DEF t, n
<1>2. ListOK(S, t)
  BY <1>1 DEF ListOK
<1>3. Range(t) = Range(list) \cup {x}
  BY <1>1 DEF Range
<1> QED BY <1>2, <1>3 DEF t

\* The reference next is shown in its place.
LEMMA ShowReference ==
  ASSUME NEW S \in Seq(Frame), NEW part \in Nat, \A i \in 1..Len(S) : S[i].part <= part,
         NEW list, ListOK(S, list), NEW gone,
         Displays(S, list, gone), NEW next \in 1..Len(S), S[next].part = part, ~IsB(S[next]),
         Behind(S, part, list, gone, next), NEW later \in Nat, next < later
  PROVE  /\ Displays(S, Append(list, next), gone)
         /\ Behind(S, part, Append(list, next), gone, later)
<1>1. ASSUME NEW a \in DOMAIN list, HasPlace(S, list[a], gone)
      PROVE  Precedes(S, list[a], next)
  <2> DEFINE x == list[a]
  <2>0. x \in 1..Len(S)
    BY DEF ListOK
  <2> HIDE DEF x
  <2>9. S[x] \in Frame
    BY <2>0
  <2>1. S[x].part <= part /\ S[x].part \in Nat
    BY <2>0, <2>9 DEF Frame
  <2> SUFFICES Precedes(S, x, next)
    BY DEF x
  <2>2. CASE S[x].part # part
    BY <2>1, <2>2, PrecedesWhen
  <2>3. CASE S[x].part = part /\ IsB(S[x])
    <3>1. \A r \in References(S, x) : r <= next
      BY <1>1, <2>3 DEF Behind, x
    <3> QED BY <2>3, <3>1, PrecedesWhen
  <2>4. CASE S[x].part = part /\ ~IsB(S[x])
    <3>1. x < next
      BY <1>1, <2>4 DEF Behind, x
    <3> QED BY <2>4, <3>1, PrecedesWhen
  <2> QED BY <2>2, <2>3, <2>4
<1>2. Displays(S, Append(list, next), gone)
  BY <1>1, DisplaysAppend DEF ListOK
<1>3. Behind(S, part, list, gone, later)
  BY BehindMore
<1>4. Behind(S, part, Append(list, next), gone, later)
  BY <1>3, BehindAppend DEF ListOK
<1> QED BY <1>2, <1>4

\* The B frame x, the last of the stream, is shown in its place.
LEMMA ShowB ==
  ASSUME NEW S \in Seq(Frame), NEW part \in Nat, \A i \in 1..Len(S) : S[i].part <= part,
         NEW list, ListOK(S, list), NEW gone, Displays(S, list, gone),
         NEW x \in 1..Len(S), S[x].part = part, IsB(S[x]), \A a \in DOMAIN list : list[a] < x,
         NEW next \in References(S, x), Behind(S, part, list, gone, next),
         HasPlace(S, x, gone) => \A r \in References(S, x) : r <= next
  PROVE  /\ Displays(S, Append(list, x), gone)
         /\ Behind(S, part, Append(list, x), gone, next)
<1>1. ASSUME NEW a \in DOMAIN list, HasPlace(S, list[a], gone)
      PROVE  Precedes(S, list[a], x)
  <2> DEFINE y == list[a]
  <2>0. y \in 1..Len(S)
    BY DEF ListOK
  <2> HIDE DEF y
  <2>9. S[y] \in Frame
    BY <2>0
  <2>1. S[y].part <= part /\ S[y].part \in Nat /\ y < x
    BY <2>0, <2>9 DEF Frame, y
  <2> SUFFICES Precedes(S, y, x)
    BY DEF y
  <2>2. CASE S[y].part # part
    BY <2>1, <2>2, PrecedesWhen
  <2>3. CASE S[y].part = part /\ IsB(S[y])
    BY <2>1, <2>3, PrecedesWhen
  <2>4. CASE S[y].part = part /\ ~IsB(S[y])
    <3>1. y < next
      BY <1>1, <2>4 DEF Behind, y
    <3> QED BY <2>4, <3>1, PrecedesWhen
  <2> QED BY <2>2, <2>3, <2>4
<1>2. Displays(S, Append(list, x), gone)
  BY <1>1, DisplaysAppend DEF ListOK
<1>3. Behind(S, part, Append(list, x), gone, next)
  BY BehindAppend DEF ListOK
<1> QED BY <1>2, <1>3

\* All that is true of the list of frames shown, before reference next.
InPlace(S, part, list, gone, next) ==
    /\ ListOK(S, list) /\ Displays(S, list, gone) /\ Behind(S, part, list, gone, next)
    /\ \A i \in 1..Len(S) : S[i].part <= part

\* It stays true when a frame is sent.
LEMMA InPlaceMore ==
  ASSUME NEW S \in Seq(Frame), NEW f \in Frame, NEW gone, NEW more, more \subseteq gone \cup {Len(S) + 1},
         gone \subseteq more, NEW part \in Nat, f.part = part, NEW list, NEW next, InPlace(S, part, list, gone, next)
  PROVE  InPlace(Append(S, f), part, list, more, next)
<1> DEFINE T == Append(S, f)
           n == Len(S)
<1>1. /\ n \in Nat /\ Len(T) = n + 1 /\ T[n + 1] = f /\ \A i \in 1..n : T[i] = S[i]
  OBVIOUS
<1>2. \A i \in 1..n : /\ T[i] = S[i] /\ References(T, i) = References(S, i)
                      /\ HasPlace(T, i, more) <=> HasPlace(S, i, gone)
                      /\ \A j \in 1..n : Precedes(T, i, j) <=> Precedes(S, i, j)
  BY OneMoreFrame
<1>3. ListOK(S, list) /\ Displays(S, list, gone) /\ Behind(S, part, list, gone, next)
      /\ \A i \in 1..n : S[i].part <= part
  BY DEF InPlace
<1> HIDE DEF T
<1>4. \A a \in DOMAIN list : list[a] \in 1..n
  BY <1>3 DEF ListOK
<1> HIDE DEF n
<1>5. ListOK(T, list)
  BY <1>1, <1>3, <1>4 DEF ListOK
<1>6. Displays(T, list, more)
  BY <1>2, <1>3, <1>4 DEF Displays
<1>7. Behind(T, part, list, more, next)
  BY <1>2, <1>3, <1>4 DEF Behind
<1>8. \A i \in 1..Len(T) : T[i].part <= part
  BY <1>1, <1>3
<1> QED BY <1>5, <1>6, <1>7, <1>8 DEF InPlace, T

\* A part begins with nothing shown of it.
LEMMA InPlaceAtFirst ==
  ASSUME NEW S \in Seq(Frame), NEW gone, NEW part \in Nat, NEW list, NEW next, InPlace(S, part, list, gone, next)
  PROVE  InPlace(S, part + 1, list, gone, 0)
<1>1. \A i \in 1..Len(S) : S[i] \in Frame
  OBVIOUS
<1>2. \A i \in 1..Len(S) : S[i].part <= part + 1 /\ S[i].part # part + 1
  BY <1>1 DEF Frame, InPlace
<1>3. Behind(S, part + 1, list, gone, 0)
  BY <1>2 DEF InPlace, ListOK, Behind
<1> QED BY <1>2, <1>3 DEF InPlace

-----------------------------------------------------------------------------
(* VC-1 *)

\* What m_dpb holds.
Reference == [id : Nat, out : BOOLEAN]

\* The references R of decode(): decoded reference frames of the part, in the order of the
\* stream.  Only the older of two may have been shown.
RefsOfVc1(S, part, R, gone) ==
    /\ R \in Seq(Reference) /\ Len(R) <= 2
    /\ \A k \in 1..Len(R) :
          /\ R[k].id \in 1..Len(S) /\ S[R[k].id].part = part /\ ~IsB(S[R[k].id]) /\ R[k].id \notin gone
          /\ R[k].out => k = 1 /\ Len(R) = 2
    /\ Len(R) = 2 => R[1].id < R[2].id

\* The other references of the part that were decoded are older than both.
Complete(S, part, R, gone) ==
    \A i \in 1..Len(S) : S[i].part = part /\ ~IsB(S[i]) /\ i \notin gone =>
        (\E k \in 1..Len(R) : R[k].id = i) \/ (Len(R) = 2 /\ i < R[1].id)

\* The reference that is shown next, 0 when there is none.
NextShown(R) == IF R = <<>> THEN 0 ELSE IF R[1].out THEN R[2].id ELSE R[1].id

\* What was decoded is shown, or is a reference that will be.
NoneLost(S, R, list, gone) ==
    \A i \in 1..Len(S) : i \notin gone =>
        (i \in Range(list) <=> ~\E k \in DOMAIN R : R[k] = [id |-> i, out |-> FALSE])

\* The decoder is as the stream says.
DecoderOfVc1(S, part, R, list, gone) ==
    /\ S \in Seq(Frame) /\ part \in Nat /\ gone \in SUBSET (1..Len(S))
    /\ RefsOfVc1(S, part, R, gone) /\ Complete(S, part, R, gone)
    /\ InPlace(S, part, list, gone, NextShown(R)) /\ NoneLost(S, R, list, gone)

\* The older of two references is shown, unless it was: the newer one is next.
LEMMA ShowOlder ==
  ASSUME NEW S \in Seq(Frame), NEW part \in Nat, NEW gone, NEW R, RefsOfVc1(S, part, R, gone), Len(R) = 2,
         NEW list, InPlace(S, part, list, gone, NextShown(R)), R[1].out => R[1].id \in Range(list)
  PROVE  /\ InPlace(S, part, Vc1!OutputPicture(list, R[1]), gone, R[2].id)
         /\ Range(Vc1!OutputPicture(list, R[1])) = Range(list) \cup {R[1].id}
<1> DEFINE a == R[1].id
           b == R[2].id
<1>1. a \in 1..Len(S) /\ b \in 1..Len(S) /\ S[a].part = part /\ ~IsB(S[a]) /\ a < b /\ R # <<>>
  <2>1. 1 \in 1..Len(R) /\ 2 \in 1..Len(R)
    OBVIOUS
  <2>2. R # <<>>
    BY <2>1
  <2> QED BY <2>1, <2>2 DEF RefsOfVc1
<1>2. ListOK(S, list) /\ Displays(S, list, gone) /\ Behind(S, part, list, gone, NextShown(R))
      /\ \A i \in 1..Len(S) : S[i].part <= part
  BY DEF InPlace
<1>3. CASE R[1].out
  BY <1>1, <1>3 DEF Vc1!OutputPicture, NextShown
<1>4. CASE ~R[1].out
  <2>1. NextShown(R) = a /\ Vc1!OutputPicture(list, R[1]) = Append(list, a)
    BY <1>1, <1>4 DEF Vc1!OutputPicture, NextShown
  <2> HIDE DEF a, b
  <2>2. Displays(S, Append(list, a), gone) /\ Behind(S, part, Append(list, a), gone, b)
    <3>1. Behind(S, part, list, gone, a) /\ b \in Nat
      BY <1>1, <1>2, <2>1
    <3> QED BY <1>1, <1>2, <3>1, ShowReference
  <2>3. ListOK(S, Append(list, a)) /\ Range(Append(list, a)) = Range(list) \cup {a}
    BY <1>1, <1>2, ListOKAppend
  <2> QED BY <1>2, <2>1, <2>2, <2>3 DEF InPlace, a, b
<1> QED BY <1>3, <1>4

\* The references and what is complete of them, when a frame is sent.
LEMMA RefsOfVc1More ==
  ASSUME NEW S \in Seq(Frame), NEW f \in Frame, NEW part \in Nat, f.part = part, NEW gone \in SUBSET (1..Len(S)), NEW R,
         RefsOfVc1(S, part, R, gone)
  PROVE  /\ RefsOfVc1(Append(S, f), part, R, gone)
         /\ RefsOfVc1(Append(S, f), part, R, gone \cup {Len(S) + 1})
<1> DEFINE T == Append(S, f)
           n == Len(S)
<1>1. /\ n \in Nat /\ Len(T) = n + 1 /\ T[n + 1] = f /\ \A i \in 1..n : T[i] = S[i]
  OBVIOUS
<1> HIDE DEF T
<1>2. \A k \in 1..Len(R) : R[k].id \in 1..n
  BY DEF RefsOfVc1
<1> HIDE DEF n
<1>3. \A k \in 1..Len(R) : R[k].id # n + 1 /\ R[k].id \in 1..(n + 1) /\ T[R[k].id] = S[R[k].id]
  BY <1>1, <1>2
<1>4. RefsOfVc1(T, part, R, gone)
  BY <1>1, <1>3 DEF RefsOfVc1
<1>5. RefsOfVc1(T, part, R, gone \cup {n + 1})
  BY <1>1, <1>3 DEF RefsOfVc1
<1> QED BY <1>4, <1>5 DEF T, n

\* A reference that was shown is in the list, and one that was not is not.
LEMMA ShownIsListed ==
  ASSUME NEW S \in Seq(Frame), NEW part, NEW gone, NEW R, RefsOfVc1(S, part, R, gone), NEW list, NoneLost(S, R, list, gone)
  PROVE  \A k \in 1..Len(R) : R[k].id \in Range(list) <=> R[k].out
<1> SUFFICES ASSUME NEW k \in 1..Len(R)
             PROVE  R[k].id \in Range(list) <=> R[k].out
  OBVIOUS
<1>1. R[k].id \in 1..Len(S) /\ R[k].id \notin gone /\ R \in Seq(Reference) /\ Len(R) \in Nat /\ Len(R) <= 2
      /\ (Len(R) = 2 => R[1].id < R[2].id) /\ DOMAIN R = 1..Len(R)
  BY DEF RefsOfVc1
<1>2. \A m \in 1..Len(R) : R[m].id \in Nat /\ (R[m].id = R[k].id => m = k)
  <2>1. \A m \in 1..Len(R) : R[m].id \in 1..Len(S)
    BY DEF RefsOfVc1
  <2> QED BY <1>1, <2>1
<1>3. \A m \in 1..Len(R) : R[m] = [id |-> R[m].id, out |-> R[m].out] /\ R[m].out \in BOOLEAN
  <2>1. \A m \in 1..Len(R) : R[m] \in Reference
    BY <1>1
  <2> QED BY <2>1 DEF Reference
<1>4. (\E m \in DOMAIN R : R[m] = [id |-> R[k].id, out |-> FALSE]) <=> ~R[k].out
  <2>1. ASSUME NEW m \in 1..Len(R), R[m] = [id |-> R[k].id, out |-> FALSE]
        PROVE  ~R[k].out
    <3>1. R[m].id = R[k].id /\ R[m].out = FALSE
      BY <2>1
    <3> QED BY <3>1, <1>2
  <2>2. ASSUME ~R[k].out
        PROVE  R[k] = [id |-> R[k].id, out |-> FALSE]
    BY <2>2, <1>3
  <2> QED BY <2>1, <2>2, <1>1
<1> QED BY <1>1, <1>4 DEF NoneLost

\* A frame that decode() fails for.
LEMMA FailsOfVc1 ==
  ASSUME NEW S, NEW part, NEW R, NEW list, NEW gone, DecoderOfVc1(S, part, R, list, gone), NEW f \in Frame, f.part = part
  PROVE  DecoderOfVc1(Append(S, f), part, R, list, gone \cup {Len(S) + 1})
<1> DEFINE T == Append(S, f)
           n == Len(S)
           more == gone \cup {n + 1}
<1>1. /\ S \in Seq(Frame) /\ part \in Nat /\ gone \in SUBSET (1..n) /\ RefsOfVc1(S, part, R, gone)
      /\ Complete(S, part, R, gone) /\ InPlace(S, part, list, gone, NextShown(R)) /\ NoneLost(S, R, list, gone)
  BY DEF DecoderOfVc1
<1>2. /\ n \in Nat /\ T \in Seq(Frame) /\ Len(T) = n + 1 /\ T[n + 1] = f /\ \A i \in 1..n : T[i] = S[i]
  BY <1>1
<1>3. InPlace(T, part, list, more, NextShown(R))
  BY <1>1, InPlaceMore
<1>4. RefsOfVc1(T, part, R, more)
  BY <1>1, RefsOfVc1More
<1> HIDE DEF T
<1>5. Complete(T, part, R, more)
  BY <1>1, <1>2 DEF Complete
<1>6. NoneLost(T, R, list, more)
  BY <1>1, <1>2 DEF NoneLost
<1>7. more \in SUBSET (1..Len(T))
  <2>1. n \in Nat /\ \A x \in gone : x \in 1..n
    BY <1>1, <1>2
  <2> HIDE DEF n
  <2>2. \A x \in more : x \in 1..(n + 1)
    BY <2>1
  <2>3. Len(T) = n + 1
    BY <1>2
  <2> QED BY <2>2, <2>3
<1> QED BY <1>1, <1>2, <1>3, <1>4, <1>5, <1>6, <1>7 DEF DecoderOfVc1, T

\* When nothing that a B frame is predicted from was lost, that is both references.
LEMMA WantsBoth ==
  ASSUME NEW S, NEW part, NEW R, NEW list, NEW gone, DecoderOfVc1(S, part, R, list, gone), NEW f \in Frame, f.part = part,
         Len(R) = 2
  PROVE  /\ R[1].id \in References(Append(S, f), Len(S) + 1) /\ R[2].id \in References(Append(S, f), Len(S) + 1)
         /\ NewestTwo(References(Append(S, f), Len(S) + 1)) \cap gone = {} =>
                /\ NewestTwo(References(Append(S, f), Len(S) + 1)) = {R[1].id, R[2].id}
                /\ \A r \in References(Append(S, f), Len(S) + 1) : r <= R[2].id
<1> DEFINE n == Len(S)
           Refs == References(Append(S, f), n + 1)
           a == R[1].id
           b == R[2].id
<1>1. /\ S \in Seq(Frame) /\ RefsOfVc1(S, part, R, gone) /\ Complete(S, part, R, gone)
  BY DEF DecoderOfVc1
<1>2. n \in Nat /\ Refs = {i \in 1..n : S[i].part = part /\ ~IsB(S[i])}
  <2>1. n \in Nat /\ Append(S, f)[n + 1] = f /\ \A i \in 1..n : Append(S, f)[i] = S[i]
    BY <1>1
  <2> QED BY <2>1 DEF References
<1>3. 1 \in 1..Len(R) /\ 2 \in 1..Len(R)
  OBVIOUS
<1>4. a \in Refs /\ b \in Refs /\ a < b
  BY <1>1, <1>2, <1>3 DEF RefsOfVc1
<1>5. ASSUME NEW i \in Refs, i \notin gone
      PROVE  i <= a \/ i = b
  <2>1. (\E k \in 1..Len(R) : R[k].id = i) \/ i < a
    BY <1>1, <1>2, <1>5 DEF Complete
  <2>2. CASE i < a
    BY <1>2, <1>4, <2>2
  <2>3. ASSUME NEW k \in 1..Len(R), R[k].id = i
        PROVE  i <= a \/ i = b
    <3>1. k = 1 \/ k = 2
      OBVIOUS
    <3> QED BY <1>2, <1>4, <2>3, <3>1
  <2> QED BY <2>1, <2>2, <2>3
<1> HIDE DEF n, Refs, a, b
<1>6. Refs \in SUBSET (1..n)
  BY <1>2
<1>7. NewestTwo(Refs) \cap gone = {} => NewestTwo(Refs) = {a, b} /\ \A r \in Refs : r <= b
  <2>1. n \in Nat /\ \A r \in Refs : r \notin gone => r <= a \/ r = b
    BY <1>2, <1>5
  <2> QED BY <1>4, <1>6, <2>1, NewestTwoAre
<1> QED BY <1>4, <1>7 DEF n, Refs, a, b

\* For a P frame it is the newer one.
LEMMA WantsLast ==
  ASSUME NEW S, NEW part, NEW R, NEW list, NEW gone, DecoderOfVc1(S, part, R, list, gone), NEW f \in Frame, f.part = part,
         R # <<>>, Newest(References(Append(S, f), Len(S) + 1)) \cap gone = {}
  PROVE  Newest(References(Append(S, f), Len(S) + 1)) = {R[Len(R)].id}
<1> DEFINE n == Len(S)
           Refs == References(Append(S, f), n + 1)
           l == Len(R)
           b == R[l].id
<1>1. /\ S \in Seq(Frame) /\ RefsOfVc1(S, part, R, gone) /\ Complete(S, part, R, gone)
  BY DEF DecoderOfVc1
<1>2. n \in Nat /\ Refs = {i \in 1..n : S[i].part = part /\ ~IsB(S[i])}
  <2>1. n \in Nat /\ Append(S, f)[n + 1] = f /\ \A i \in 1..n : Append(S, f)[i] = S[i]
    BY <1>1
  <2> QED BY <2>1 DEF References
<1>3. R \in Seq(Reference) /\ (l = 1 \/ l = 2) /\ l \in 1..l
  <2>1. R \in Seq(Reference) /\ Len(R) <= 2
    BY <1>1 DEF RefsOfVc1
  <2>2. Len(R) \in Nat /\ Len(R) # 0
    BY <2>1
  <2>3. Len(R) = 1 \/ Len(R) = 2
    <3>1. \A m \in Nat : m # 0 /\ m <= 2 => m = 1 \/ m = 2
      OBVIOUS
    <3> QED BY <2>1, <2>2, <3>1, Zenon
  <2>4. R \in Seq(Reference) /\ (l = 1 \/ l = 2)
    BY <2>1, <2>3
  <2> HIDE DEF l
  <2> QED BY <2>4
<1>4. b \in Refs
  BY <1>1, <1>2, <1>3 DEF RefsOfVc1
<1>5. ASSUME NEW i \in Refs, i \notin gone
      PROVE  i <= b
  <2>1. (\E k \in 1..l : R[k].id = i) \/ (l = 2 /\ i < R[1].id)
    BY <1>1, <1>2, <1>5 DEF Complete
  <2>2. l = 2 => R[1].id < R[2].id /\ R[1].id \in Nat
    BY <1>1, <1>3 DEF RefsOfVc1
  <2>3. i \in Nat /\ b \in Nat
    BY <1>2, <1>4
  <2>4. ASSUME NEW k \in 1..l, R[k].id = i
        PROVE  i <= b
    <3>1. k = l \/ (k = 1 /\ l = 2)
      <4> HIDE DEF l
      <4> QED BY <1>3
    <3> QED BY <2>2, <2>3, <2>4, <3>1
  <2>5. CASE l = 2 /\ i < R[1].id
    BY <2>2, <2>3, <2>5
  <2> QED BY <2>1, <2>4, <2>5
<1> HIDE DEF n, Refs, b
<1>6. Refs \in SUBSET (1..n)
  BY <1>2
<1>7. Newest(Refs) \cap gone = {}
  BY DEF Refs, n
<1>8. Newest(Refs) = {b}
  <2>1. n \in Nat /\ \A r \in Refs : r \notin gone => r <= b
    BY <1>2, <1>5
  <2> QED BY <1>4, <1>6, <1>7, <2>1, NewestIs
<1> QED BY <1>8 DEF n, Refs, b

\* The two references of a decoder, of which the older was shown.
OlderShown(R) == <<[R[1] EXCEPT !.out = TRUE], R[2]>>

\* They are references as before.
LEMMA OlderOut ==
  ASSUME NEW S, NEW part, NEW gone, NEW R, RefsOfVc1(S, part, R, gone), Len(R) = 2
  PROVE  /\ RefsOfVc1(S, part, OlderShown(R), gone)
         /\ Len(OlderShown(R)) = 2
         /\ OlderShown(R)[1] = [id |-> R[1].id, out |-> TRUE]
         /\ OlderShown(R)[2] = [id |-> R[2].id, out |-> FALSE]
         /\ NextShown(OlderShown(R)) = R[2].id
<1> DEFINE Q == OlderShown(R)
<1>1. R \in Seq(Reference) /\ 1 \in 1..Len(R) /\ 2 \in 1..Len(R)
  BY DEF RefsOfVc1
<1>2. R[1] \in Reference /\ R[2] \in Reference
  <2>1. \A k \in 1..Len(R) : R[k] \in Reference
    BY <1>1
  <2> QED BY <1>1, <2>1
<1>3. ~R[2].out
  BY <1>1 DEF RefsOfVc1
<1>4. [R[1] EXCEPT !.out = TRUE] = [id |-> R[1].id, out |-> TRUE] /\ R[1].id \in Nat
  <2>1. \A i, o, v : [[id |-> i, out |-> o] EXCEPT !.out = v] = [id |-> i, out |-> v]
    OBVIOUS
  <2>2. R[1] = [id |-> R[1].id, out |-> R[1].out] /\ R[1].id \in Nat
    BY <1>2 DEF Reference
  <2>3. [[id |-> R[1].id, out |-> R[1].out] EXCEPT !.out = TRUE] = [id |-> R[1].id, out |-> TRUE]
    BY <2>1, Zenon
  <2> QED BY <2>2, <2>3, Zenon
<1>5. R[2] = [id |-> R[2].id, out |-> FALSE] /\ R[2].id \in Nat
  BY <1>2, <1>3 DEF Reference
<1>6. [id |-> R[1].id, out |-> TRUE] \in Reference
  BY <1>4 DEF Reference
<1>7. Q[1] = [id |-> R[1].id, out |-> TRUE] /\ Q[2] = R[2] /\ Q \in Seq(Reference) /\ Len(Q) = 2
  <2>1. Q = <<[id |-> R[1].id, out |-> TRUE], R[2]>>
    BY <1>4 DEF OlderShown
  <2> QED BY <1>2, <1>6, <2>1
<1>8. Q[1].id = R[1].id /\ Q[1].out = TRUE /\ Q[2].id = R[2].id /\ Q[2].out = FALSE
  BY <1>5, <1>7
<1> HIDE DEF Q
<1>9. Q # <<>>
  <2>1. 1 \in 1..Len(Q)
    BY <1>7
  <2> QED BY <2>1
<1>10. NextShown(Q) = R[2].id
  BY <1>8, <1>9 DEF NextShown
<1>11. RefsOfVc1(S, part, Q, gone)
  <2>1. \A k \in 1..2 : k = 1 \/ k = 2
    OBVIOUS
  <2> QED BY <2>1, <1>1, <1>7, <1>8 DEF RefsOfVc1
<1> QED BY <1>5, <1>7, <1>10, <1>11 DEF Q

\* A B frame is stored: the older reference is shown, and the frame.
LEMMA StoresB ==
  ASSUME NEW S, NEW part, NEW R, NEW list, NEW gone, DecoderOfVc1(S, part, R, list, gone), NEW f \in Frame, f.part = part,
         IsB(f), Len(R) = 2
  PROVE  DecoderOfVc1(Append(S, f), part, OlderShown(R),
                      Append(Vc1!OutputPicture(list, R[1]), Len(S) + 1), gone)
<1> DEFINE T == Append(S, f)
           n == Len(S)
           x == n + 1
           older == Vc1!OutputPicture(list, R[1])
           Q == OlderShown(R)
           b == R[2].id
<1>1. /\ S \in Seq(Frame) /\ part \in Nat /\ gone \in SUBSET (1..n) /\ RefsOfVc1(S, part, R, gone)
      /\ Complete(S, part, R, gone) /\ InPlace(S, part, list, gone, NextShown(R)) /\ NoneLost(S, R, list, gone)
  BY DEF DecoderOfVc1
<1>2. /\ n \in Nat /\ T \in Seq(Frame) /\ Len(T) = n + 1 /\ T[x] = f /\ \A i \in 1..n : T[i] = S[i]
  BY <1>1
<1>3. 1 \in 1..Len(R) /\ 2 \in 1..Len(R)
  OBVIOUS
<1>4. /\ InPlace(S, part, older, gone, b) /\ Range(older) = Range(list) \cup {R[1].id}
  BY <1>1, <1>3, ShowOlder, ShownIsListed
<1>5. /\ RefsOfVc1(T, part, R, gone)
  BY <1>1, RefsOfVc1More
<1>6. /\ RefsOfVc1(T, part, Q, gone) /\ Len(Q) = 2 /\ NextShown(Q) = b
      /\ Q[1] = [id |-> R[1].id, out |-> TRUE] /\ Q[2] = [id |-> R[2].id, out |-> FALSE]
  BY <1>5, OlderOut
<1>7. b \in References(T, x) /\ (NewestTwo(References(T, x)) \cap gone = {} => \A r \in References(T, x) : r <= b)
  BY WantsBoth
<1>8. b \in Nat /\ R[1].id \in 1..n
  BY <1>1, <1>3 DEF RefsOfVc1
<1>9. InPlace(T, part, older, gone, b)
  BY <1>1, <1>4, <1>8, InPlaceMore
<1>10. /\ ListOK(T, older) /\ Displays(T, older, gone) /\ Behind(T, part, older, gone, b)
       /\ \A i \in 1..Len(T) : T[i].part <= part
  BY <1>9 DEF InPlace
<1>11. \A a \in DOMAIN older : older[a] < x
  <2>1. \A a \in DOMAIN older : older[a] \in 1..n
    BY <1>4 DEF InPlace, ListOK
  <2> HIDE DEF older
  <2> QED BY <1>2, <2>1
<1>12. HasPlace(T, x, gone) => \A r \in References(T, x) : r <= b
  <2>1. IsB(T[x])
    BY <1>2
  <2> HIDE DEF x, T, b
  <2>2. Wanted(T, x) = NewestTwo(References(T, x))
    BY <2>1 DEF Wanted, IsB
  <2> QED BY <1>7, <2>1, <2>2 DEF HasPlace
<1> HIDE DEF T, n, older, Q, b
<1>13. x \in 1..Len(T) /\ T[x].part = part /\ IsB(T[x])
  BY <1>2
<1> HIDE DEF x
<1>14. Displays(T, Append(older, x), gone) /\ Behind(T, part, Append(older, x), gone, b)
  BY <1>1, <1>2, <1>7, <1>10, <1>11, <1>12, <1>13, ShowB
<1>15. ListOK(T, Append(older, x)) /\ Range(Append(older, x)) = Range(older) \cup {x}
  <2>1. x \in Nat
    BY <1>13, <1>2
  <2> QED BY <1>10, <1>13, <2>1, ListOKAppend
<1>16. InPlace(T, part, Append(older, x), gone, NextShown(Q))
  BY <1>6, <1>10, <1>14, <1>15 DEF InPlace
<1>17. Complete(T, part, Q, gone)
  <2>1. ASSUME NEW i \in 1..Len(T), T[i].part = part, ~IsB(T[i]), i \notin gone
        PROVE  (\E k \in 1..Len(Q) : Q[k].id = i) \/ (Len(Q) = 2 /\ i < Q[1].id)
    <3>1. i \in 1..n /\ S[i].part = part /\ ~IsB(S[i])
      BY <1>2, <1>13, <2>1 DEF x
    <3>2. (\E k \in 1..2 : R[k].id = i) \/ i < R[1].id
      BY <1>1, <2>1, <3>1 DEF Complete, n
    <3>3. ASSUME NEW k \in 1..2, R[k].id = i
          PROVE  \E m \in 1..2 : Q[m].id = i
      <4>1. k = 1 \/ k = 2
        OBVIOUS
      <4>2. Q[1].id = R[1].id /\ Q[2].id = R[2].id
        BY <1>6
      <4> QED BY <3>3, <4>1, <4>2
    <3>4. Q[1].id = R[1].id /\ Len(Q) = 2
      BY <1>6
    <3> QED BY <3>2, <3>3, <3>4
  <2> QED BY <2>1 DEF Complete
<1>18. NoneLost(T, Q, Append(older, x), gone)
  <2>1. ASSUME NEW i \in 1..Len(T), i \notin gone
        PROVE  i \in Range(Append(older, x)) <=> ~\E k \in DOMAIN Q : Q[k] = [id |-> i, out |-> FALSE]
    <3>1. DOMAIN Q = 1..2 /\ DOMAIN R = 1..2
      BY <1>1, <1>6 DEF RefsOfVc1
    <3>2. (\E k \in DOMAIN Q : Q[k] = [id |-> i, out |-> FALSE]) <=> i = b
      <4>1. Q[2] = [id |-> b, out |-> FALSE]
        BY <1>6 DEF b
      <4>2. Q[1].out = TRUE
        BY <1>6
      <4>3. ASSUME NEW k \in 1..2, Q[k] = [id |-> i, out |-> FALSE]
            PROVE  i = b
        <5>1. k = 2
          BY <4>2, <4>3
        <5> QED BY <4>1, <4>3, <5>1
      <4> QED BY <3>1, <4>1, <4>3
    <3>3. b \in Range(list) <=> R[2].out
      BY <1>1, <1>3, ShownIsListed DEF b
    <3>4. ~R[2].out
      BY <1>1, <1>3 DEF RefsOfVc1
    <3>5. R[1].id # b /\ b # x /\ b \in 1..n
      BY <1>1, <1>2, <1>3 DEF RefsOfVc1, b, x, n
    <3>6. CASE i = x
      BY <1>15, <3>2, <3>5, <3>6
    <3>7. CASE i # x
      <4>1. i \in 1..n
        BY <1>2, <3>7 DEF x
      <4>2. i \in Range(list) <=> ~\E k \in DOMAIN R : R[k] = [id |-> i, out |-> FALSE]
        BY <1>1, <2>1, <4>1 DEF NoneLost, n
      <4>3. CASE i = b
        BY <1>4, <1>15, <3>2, <3>3, <3>4, <3>5, <3>7, <4>3
      <4>4. CASE i = R[1].id
        BY <1>4, <1>15, <3>2, <3>5, <4>4
      <4>5. CASE i # b /\ i # R[1].id
        <5>1. ASSUME NEW k \in 1..2, R[k] = [id |-> i, out |-> FALSE]
              PROVE  FALSE
          <6>1. R[k].id = i /\ (k = 1 \/ k = 2)
            BY <5>1
          <6> QED BY <4>5, <6>1 DEF b
        <5>2. i \in Range(list)
          BY <3>1, <4>2, <5>1
        <5> QED BY <1>4, <1>15, <3>2, <4>5, <5>2
      <4> QED BY <4>3, <4>4, <4>5
    <3> QED BY <3>6, <3>7
  <2> QED BY <2>1 DEF NoneLost
<1>19. gone \in SUBSET (1..Len(T))
  <2>1. \A g \in gone : g \in 1..n
    BY <1>1
  <2> QED BY <1>2, <2>1
<1> QED BY <1>1, <1>2, <1>6, <1>16, <1>17, <1>18, <1>19 DEF DecoderOfVc1, T, Q, older, x, n

\* A second element.
LEMMA AppendPair ==
  ASSUME NEW U, NEW u \in U, NEW v \in U
  PROVE  Append(<<u>>, v) = <<u, v>>
<1>1. <<u>> \in Seq(U) /\ Len(<<u>>) = 1 /\ <<u>>[1] = u
  OBVIOUS
<1>2. <<u, v>> \in Seq(U) /\ Len(<<u, v>>) = 2 /\ <<u, v>>[1] = u /\ <<u, v>>[2] = v
  OBVIOUS
<1>3. \A s \in Seq(U) : Append(s, v) \in Seq(U) /\ Len(Append(s, v)) = Len(s) + 1 /\ Append(s, v)[Len(s) + 1] = v
                        /\ \A i \in 1..Len(s) : Append(s, v)[i] = s[i]
  OBVIOUS
<1>4. Append(<<u>>, v) \in Seq(U) /\ Len(Append(<<u>>, v)) = 2 /\ Append(<<u>>, v)[2] = v /\ Append(<<u>>, v)[1] = u
  BY <1>1, <1>3
<1>5. \A s, t \in Seq(U) : Len(s) = 2 /\ Len(t) = 2 /\ s[1] = t[1] /\ s[2] = t[2] => s = t
  BY SeqEqual
<1> QED BY <1>2, <1>4, <1>5, Zenon

\* The references after a new one: the newer of two and it.
NewRefs(R, x) == Append(IF Len(R) = 2 THEN Tail(R) ELSE R, [id |-> x, out |-> FALSE])

\* They are not shown yet, and are the last ones before it.
LEMMA NewRefsAre ==
  ASSUME NEW S, NEW part, NEW gone, NEW R, RefsOfVc1(S, part, R, gone), NEW x \in Nat
  PROVE  /\ R = <<>> => NewRefs(R, x) = <<[id |-> x, out |-> FALSE]>>
         /\ Len(R) = 1 => NewRefs(R, x) = <<[id |-> R[1].id, out |-> FALSE], [id |-> x, out |-> FALSE]>>
         /\ Len(R) = 2 => NewRefs(R, x) = <<[id |-> R[2].id, out |-> FALSE], [id |-> x, out |-> FALSE]>>
         /\ R = <<>> \/ Len(R) = 1 \/ Len(R) = 2
<1>1. R \in Seq(Reference) /\ Len(R) <= 2 /\ Len(R) \in Nat /\ \A k \in 1..Len(R) : R[k].out => k = 1 /\ Len(R) = 2
  BY DEF RefsOfVc1
<1>2. \A k \in 1..Len(R) : ~R[k].out => R[k] = [id |-> R[k].id, out |-> FALSE]
  <2>1. \A k \in 1..Len(R) : R[k] \in Reference
    BY <1>1
  <2> QED BY <2>1 DEF Reference
<1>3. ASSUME Len(R) = 1
      PROVE  NewRefs(R, x) = <<[id |-> R[1].id, out |-> FALSE], [id |-> x, out |-> FALSE]>>
  <2>1. 1 \in 1..Len(R)
    BY <1>3
  <2>2. ~R[1].out
    BY <1>1, <1>3, <2>1
  <2>3. R[1] = [id |-> R[1].id, out |-> FALSE]
    BY <1>2, <2>1, <2>2
  <2>4. R = <<R[1]>>
    BY <1>1, <1>3
  <2>5. NewRefs(R, x) = Append(R, [id |-> x, out |-> FALSE])
    BY <1>3 DEF NewRefs
  <2>6. [id |-> x, out |-> FALSE] \in Reference
    BY DEF Reference
  <2>7. R[1] \in Reference
    BY <1>1, <2>1, ElementOfSeq
  <2>8. Append(<<R[1]>>, [id |-> x, out |-> FALSE]) = <<R[1], [id |-> x, out |-> FALSE]>>
    BY <2>6, <2>7, AppendPair, Zenon
  <2> QED BY <2>3, <2>4, <2>5, <2>8, Zenon
<1>4. ASSUME Len(R) = 2
      PROVE  NewRefs(R, x) = <<[id |-> R[2].id, out |-> FALSE], [id |-> x, out |-> FALSE]>>
  <2>1. 2 \in 1..Len(R)
    BY <1>4
  <2>2. ~R[2].out
    BY <1>1, <2>1
  <2>3. R[2] = [id |-> R[2].id, out |-> FALSE]
    BY <1>2, <2>1, <2>2
  <2>4. Tail(R) = <<R[2]>>
    <3>1. Tail(R) \in Seq(Reference) /\ Len(Tail(R)) = 1 /\ Tail(R)[1] = R[2]
      BY <1>1, <1>4
    <3> HIDE DEF Reference
    <3>2. \A Q \in Seq(Reference) : Len(Q) = 1 => Q = <<Q[1]>>
      OBVIOUS
    <3> QED BY <3>1, <3>2, Zenon
  <2>5. NewRefs(R, x) = Append(Tail(R), [id |-> x, out |-> FALSE])
    BY <1>4 DEF NewRefs
  <2>6. [id |-> x, out |-> FALSE] \in Reference
    BY DEF Reference
  <2>7. R[2] \in Reference
    BY <1>1, <2>1, ElementOfSeq
  <2>8. Append(<<R[2]>>, [id |-> x, out |-> FALSE]) = <<R[2], [id |-> x, out |-> FALSE]>>
    BY <2>6, <2>7, AppendPair, Zenon
  <2> QED BY <2>3, <2>4, <2>5, <2>8, Zenon
<1>5. R = <<>> => NewRefs(R, x) = <<[id |-> x, out |-> FALSE]>>
  BY DEF NewRefs
<1>6. R = <<>> \/ Len(R) = 1 \/ Len(R) = 2
  <2>1. \A m \in Nat : m <= 2 => m = 0 \/ m = 1 \/ m = 2
    OBVIOUS
  <2>2. Len(R) = 0 \/ Len(R) = 1 \/ Len(R) = 2
    BY <1>1, <2>1, Zenon
  <2>3. Len(R) = 0 => R = <<>>
    BY <1>1
  <2> QED BY <2>2, <2>3
<1> QED BY <1>3, <1>4, <1>5, <1>6

\* A reference frame is stored: the older of two references is shown.
LEMMA StoresReference ==
  ASSUME NEW S, NEW part, NEW R, NEW list, NEW gone, DecoderOfVc1(S, part, R, list, gone), NEW f \in Frame, f.part = part,
         ~IsB(f)
  PROVE  DecoderOfVc1(Append(S, f), part, NewRefs(R, Len(S) + 1),
                      IF Len(R) = 2 THEN Vc1!OutputPicture(list, R[1]) ELSE list, gone)
<1> DEFINE T == Append(S, f)
           n == Len(S)
           x == n + 1
           after == IF Len(R) = 2 THEN Vc1!OutputPicture(list, R[1]) ELSE list
           Q == NewRefs(R, x)
<1>1. /\ S \in Seq(Frame) /\ part \in Nat /\ gone \in SUBSET (1..n) /\ RefsOfVc1(S, part, R, gone)
      /\ Complete(S, part, R, gone) /\ InPlace(S, part, list, gone, NextShown(R)) /\ NoneLost(S, R, list, gone)
  BY DEF DecoderOfVc1
<1>2. /\ n \in Nat /\ T \in Seq(Frame) /\ Len(T) = n + 1 /\ T[x] = f /\ \A i \in 1..n : T[i] = S[i]
  BY <1>1
<1>3. gone \in SUBSET (1..Len(T)) /\ x \notin gone
  <2>1. \A g \in gone : g \in 1..n
    BY <1>1
  <2> QED BY <1>2, <2>1
<1>4. x \in 1..Len(T) /\ T[x].part = part /\ ~IsB(T[x]) /\ x \in Nat
  BY <1>2
<1>5. /\ R = <<>> => Q = <<[id |-> x, out |-> FALSE]>>
      /\ Len(R) = 1 => Q = <<[id |-> R[1].id, out |-> FALSE], [id |-> x, out |-> FALSE]>>
      /\ Len(R) = 2 => Q = <<[id |-> R[2].id, out |-> FALSE], [id |-> x, out |-> FALSE]>>
      /\ R = <<>> \/ Len(R) = 1 \/ Len(R) = 2
  <2> HIDE DEF n, Q
  <2>1. x \in Nat
    BY <1>4
  <2> HIDE DEF x
  <2>2. RefsOfVc1(S, part, R, gone)
    BY <1>1
  <2> QED BY <2>1, <2>2, NewRefsAre DEF Q
<1>6. \A k \in 1..Len(R) : /\ R[k].id \in 1..n /\ S[R[k].id].part = part /\ ~IsB(S[R[k].id]) /\ R[k].id \notin gone
                           /\ R[k].out => k = 1 /\ Len(R) = 2
                           /\ R[k].id \in Range(list) <=> R[k].out
  <2>1. \A k \in 1..Len(R) : R[k].id \in Range(list) <=> R[k].out
    BY <1>1, ShownIsListed
  <2>2. \A k \in 1..Len(R) : /\ R[k].id \in 1..n /\ S[R[k].id].part = part /\ ~IsB(S[R[k].id]) /\ R[k].id \notin gone
                             /\ R[k].out => k = 1 /\ Len(R) = 2
    BY <1>1 DEF RefsOfVc1
  <2> QED BY <2>1, <2>2, Zenon
<1>7. \A k \in 1..Len(R) : R[k].id \in 1..Len(T) /\ R[k].id < x /\ T[R[k].id].part = part /\ ~IsB(T[R[k].id])
  <2>1. \A k \in 1..Len(R) : R[k].id \in 1..n
    BY <1>6
  <2> HIDE DEF n, T
  <2>2. \A k \in 1..Len(R) : R[k].id \in 1..Len(T) /\ R[k].id < x
    BY <1>2, <2>1
  <2>3. \A k \in 1..Len(R) : T[R[k].id] = S[R[k].id]
    BY <1>2, <2>1
  <2> QED BY <1>6, <2>2, <2>3
<1>8. ListOK(S, list) /\ InPlace(T, part, list, gone, NextShown(R))
  <2>1. InPlace(T, part, list, gone, NextShown(R))
    BY <1>1, InPlaceMore
  <2> QED BY <1>1, <2>1 DEF InPlace
<1>9. \A a \in DOMAIN list : list[a] \in 1..n
  BY <1>8 DEF ListOK
<1>10. \A i \in Range(list) : i \in 1..n /\ i # x
  <2>1. \A i \in Range(list) : i \in 1..n
    BY <1>9 DEF Range
  <2> HIDE DEF n
  <2> QED BY <1>2, <2>1
<1> SUFFICES /\ RefsOfVc1(T, part, Q, gone) /\ Complete(T, part, Q, gone)
             /\ InPlace(T, part, after, gone, NextShown(Q)) /\ NoneLost(T, Q, after, gone)
  BY <1>1, <1>2, <1>3 DEF DecoderOfVc1
<1> HIDE DEF T, n, x, after, Q
<1>11. \A i \in 1..Len(T) : T[i].part = part /\ ~IsB(T[i]) /\ i \notin gone /\ i # x =>
           (\E k \in 1..Len(R) : R[k].id = i) \/ (Len(R) = 2 /\ i < R[1].id)
  <2>1. ASSUME NEW i \in 1..Len(T), i # x
        PROVE  i \in 1..n /\ T[i] = S[i]
    BY <1>2, <2>1 DEF x
  <2> QED BY <1>1, <2>1 DEF Complete, n
<1>12. \A i \in 1..Len(T) : i \notin gone /\ i # x =>
           (i \in Range(list) <=> ~\E k \in DOMAIN R : R[k] = [id |-> i, out |-> FALSE])
  <2>1. ASSUME NEW i \in 1..Len(T), i # x
        PROVE  i \in 1..n
    BY <1>2, <2>1 DEF x
  <2> QED BY <1>1, <2>1 DEF NoneLost, n
<1>13. CASE R = <<>>
  <2>1. Q = <<[id |-> x, out |-> FALSE]>> /\ Len(R) = 0 /\ after = list
    BY <1>5, <1>13 DEF after
  <2>2. Len(Q) = 1 /\ Q[1] = [id |-> x, out |-> FALSE] /\ Q[1].id = x /\ Q[1].out = FALSE /\ Q # <<>> /\ DOMAIN Q = 1..1
        /\ Q \in Seq(Reference)
    <3>1. [id |-> x, out |-> FALSE] \in Reference
      BY <1>4 DEF Reference
    <3> QED BY <2>1, <3>1
  <2>3. RefsOfVc1(T, part, Q, gone)
    BY <1>3, <1>4, <2>2 DEF RefsOfVc1
  <2>4. Complete(T, part, Q, gone)
    BY <1>11, <2>1, <2>2 DEF Complete
  <2>5. InPlace(T, part, after, gone, NextShown(Q))
    <3>1. NextShown(R) = 0 /\ NextShown(Q) = x /\ 0 <= x /\ 0 \in Nat
      BY <1>4, <1>13, <2>2 DEF NextShown
    <3>2. ListOK(T, list) /\ Behind(T, part, list, gone, 0)
      BY <1>8, <3>1 DEF InPlace
    <3>3. Behind(T, part, list, gone, x)
      BY <1>4, <3>1, <3>2, BehindMore
    <3> QED BY <1>8, <2>1, <3>1, <3>3 DEF InPlace
  <2>6. NoneLost(T, Q, after, gone)
    <3>1. ASSUME NEW i \in 1..Len(T), i \notin gone
          PROVE  i \in Range(list) <=> ~\E k \in DOMAIN Q : Q[k] = [id |-> i, out |-> FALSE]
      <4>1. (\E k \in DOMAIN Q : Q[k] = [id |-> i, out |-> FALSE]) <=> i = x
        BY <2>2
      <4>2. i # x => i \in Range(list)
        <5>1. ~\E k \in DOMAIN R : R[k] = [id |-> i, out |-> FALSE]
          BY <1>13
        <5> QED BY <1>12, <3>1, <5>1
      <4> QED BY <1>10, <4>1, <4>2
    <3> QED BY <2>1, <3>1 DEF NoneLost
  <2> QED BY <2>3, <2>4, <2>5, <2>6
<1>14. ASSUME NEW a, NEW c \in 1..Len(R), c = Len(R), R # <<>>, a = R[c].id,
              Q = <<[id |-> a, out |-> FALSE], [id |-> x, out |-> FALSE]>>
       PROVE  /\ RefsOfVc1(T, part, Q, gone) /\ Complete(T, part, Q, gone) /\ NextShown(Q) = a
              /\ \A i : (\E k \in DOMAIN Q : Q[k] = [id |-> i, out |-> FALSE]) <=> i \in {a, x}
  <2>1. a \in 1..Len(T) /\ a < x /\ a \notin gone /\ T[a].part = part /\ ~IsB(T[a])
    BY <1>6, <1>7, <1>14
  <2>2. Len(Q) = 2 /\ Q[1] = [id |-> a, out |-> FALSE] /\ Q[2] = [id |-> x, out |-> FALSE]
        /\ Q \in Seq(Reference) /\ DOMAIN Q = 1..2 /\ Q # <<>>
    <3>1. [id |-> x, out |-> FALSE] \in Reference /\ [id |-> a, out |-> FALSE] \in Reference
      BY <1>4, <2>1 DEF Reference
    <3>2. \A u, v \in Reference : /\ Len(<<u, v>>) = 2 /\ <<u, v>>[1] = u /\ <<u, v>>[2] = v
                                  /\ <<u, v>> \in Seq(Reference) /\ DOMAIN <<u, v>> = 1..2 /\ <<u, v>> # <<>>
      OBVIOUS
    <3> QED BY <1>14, <3>1, <3>2, Zenon
  <2>3. Q[1].id = a /\ Q[1].out = FALSE /\ Q[2].id = x /\ Q[2].out = FALSE
    BY <2>2
  <2>4. \A k \in 1..2 : k = 1 \/ k = 2
    OBVIOUS
  <2>5. RefsOfVc1(T, part, Q, gone)
    BY <1>3, <1>4, <2>1, <2>2, <2>3, <2>4 DEF RefsOfVc1
  <2>6. NextShown(Q) = a
    BY <2>2, <2>3 DEF NextShown
  <2>7. \A i : (\E k \in DOMAIN Q : Q[k] = [id |-> i, out |-> FALSE]) <=> i \in {a, x}
    BY <2>2, <2>3, <2>4
  <2>8. Complete(T, part, Q, gone)
    <3>1. ASSUME NEW i \in 1..Len(T), T[i].part = part, ~IsB(T[i]), i \notin gone
          PROVE  i = a \/ i = x \/ i < a
      <4>1. i # x => (\E k \in 1..Len(R) : R[k].id = i) \/ (Len(R) = 2 /\ i < R[1].id)
        BY <1>11, <3>1
      <4>2. Len(R) = 2 => R[1].id < R[2].id /\ R[1].id \in Nat /\ R[2].id \in Nat
        <5>1. ASSUME Len(R) = 2
              PROVE  1 \in 1..Len(R) /\ 2 \in 1..Len(R)
          BY <5>1
        <5> QED BY <1>1, <1>6, <5>1 DEF RefsOfVc1
      <4>3. ASSUME NEW k \in 1..Len(R), R[k].id = i
            PROVE  i = a \/ i < a
        <5>1. k = c \/ (k = 1 /\ Len(R) = 2)
          BY <1>5, <1>14
        <5> QED BY <1>14, <4>2, <4>3, <5>1
      <4>4. ASSUME Len(R) = 2, i < R[1].id
            PROVE  i < a
        BY <1>14, <4>2, <4>4
      <4> QED BY <4>1, <4>3, <4>4
    <3> QED BY <2>2, <2>3, <3>1 DEF Complete
  <2> QED BY <2>5, <2>6, <2>7, <2>8
<1>15. CASE Len(R) = 1
  <2> DEFINE a == R[1].id
  <2>1. 1 \in 1..Len(R) /\ R # <<>> /\ after = list /\ DOMAIN R = 1..1
    <3>1. 1 \in 1..Len(R)
      BY <1>15
    <3>2. R # <<>> /\ after = list
      BY <1>15, <3>1 DEF after
    <3> QED BY <1>1, <1>15, <3>1, <3>2 DEF RefsOfVc1
  <2>2. RefsOfVc1(T, part, Q, gone) /\ Complete(T, part, Q, gone) /\ NextShown(Q) = a
        /\ \A i : (\E k \in DOMAIN Q : Q[k] = [id |-> i, out |-> FALSE]) <=> i \in {a, x}
    BY <1>5, <1>14, <1>15, <2>1
  <2>3. ~R[1].out
    BY <1>6, <1>15, <2>1
  <2>4. NextShown(R) = a
    BY <2>1, <2>3 DEF NextShown
  <2>5. NoneLost(T, Q, after, gone)
    <3>1. ASSUME NEW i \in 1..Len(T), i \notin gone
          PROVE  i \in Range(list) <=> i \notin {a, x}
      <4>1. a \notin Range(list)
        BY <1>6, <2>1, <2>3
      <4>2. ASSUME i # a, i # x
            PROVE  i \in Range(list)
        <5>1. ~\E k \in DOMAIN R : R[k] = [id |-> i, out |-> FALSE]
          BY <2>1, <4>2
        <5> QED BY <1>12, <3>1, <4>2, <5>1
      <4> QED BY <1>10, <4>1, <4>2
    <3> QED BY <2>1, <2>2, <3>1 DEF NoneLost
  <2> QED BY <1>8, <2>1, <2>2, <2>4, <2>5
<1>16. CASE Len(R) = 2
  <2> DEFINE a == R[2].id
             old == R[1].id
  <2>1. 1 \in 1..Len(R) /\ 2 \in 1..Len(R) /\ R # <<>> /\ after = Vc1!OutputPicture(list, R[1]) /\ DOMAIN R = 1..2
    <3>1. 1 \in 1..Len(R) /\ 2 \in 1..Len(R)
      BY <1>16
    <3>2. R # <<>> /\ after = Vc1!OutputPicture(list, R[1])
      BY <1>16, <3>1 DEF after
    <3> QED BY <1>1, <1>16, <3>1, <3>2 DEF RefsOfVc1
  <2>2. RefsOfVc1(T, part, Q, gone) /\ Complete(T, part, Q, gone) /\ NextShown(Q) = a
        /\ \A i : (\E k \in DOMAIN Q : Q[k] = [id |-> i, out |-> FALSE]) <=> i \in {a, x}
    BY <1>5, <1>14, <1>16, <2>1
  <2>3. ~R[2].out /\ old # a /\ old # x
    BY <1>1, <1>6, <1>7, <1>16, <2>1 DEF RefsOfVc1
  <2>4. InPlace(S, part, after, gone, a) /\ Range(after) = Range(list) \cup {old}
    BY <1>1, <1>6, <1>16, <2>1, ShowOlder
  <2>5. InPlace(T, part, after, gone, a)
    BY <1>1, <2>4, InPlaceMore DEF T
  <2>6. NoneLost(T, Q, after, gone)
    <3>1. ASSUME NEW i \in 1..Len(T), i \notin gone
          PROVE  i \in Range(after) <=> i \notin {a, x}
      <4>1. a \notin Range(list)
        BY <1>6, <2>1, <2>3
      <4>2. ASSUME i # a, i # x, i # old
            PROVE  i \in Range(list)
        <5>1. ~\E k \in DOMAIN R : R[k] = [id |-> i, out |-> FALSE]
          <6>1. ASSUME NEW k \in 1..2, R[k] = [id |-> i, out |-> FALSE]
                PROVE  FALSE
            <7>1. R[k].id = i /\ (k = 1 \/ k = 2)
              BY <6>1
            <7> QED BY <4>2, <7>1
          <6> QED BY <2>1, <6>1
        <5> QED BY <1>12, <3>1, <4>2, <5>1
      <4> QED BY <1>10, <2>3, <2>4, <4>1, <4>2
    <3> QED BY <2>2, <3>1 DEF NoneLost
  <2> QED BY <2>2, <2>5, <2>6
<1> QED BY <1>5, <1>13, <1>15, <1>16

\* The reference next is shown: the one after it is later.
LEMMA ShowNext ==
  ASSUME NEW S \in Seq(Frame), NEW part \in Nat, NEW gone, NEW list, NEW next \in 1..Len(S), S[next].part = part,
         ~IsB(S[next]), InPlace(S, part, list, gone, next)
  PROVE  /\ InPlace(S, part, Append(list, next), gone, next + 1)
         /\ Range(Append(list, next)) = Range(list) \cup {next}
<1>1. ListOK(S, list) /\ Displays(S, list, gone) /\ Behind(S, part, list, gone, next)
      /\ \A i \in 1..Len(S) : S[i].part <= part
  BY DEF InPlace
<1>2. next + 1 \in Nat /\ next < next + 1 /\ next \in Nat
  OBVIOUS
<1>3. Displays(S, Append(list, next), gone) /\ Behind(S, part, Append(list, next), gone, next + 1)
  BY <1>1, <1>2, ShowReference
<1>4. ListOK(S, Append(list, next)) /\ Range(Append(list, next)) = Range(list) \cup {next}
  BY <1>1, <1>2, ListOKAppend
<1> QED BY <1>1, <1>3, <1>4 DEF InPlace

\* bumpAll() ends the part, and all its references are shown.
LEMMA BumpsAll ==
  ASSUME NEW S, NEW part, NEW R, NEW list, NEW gone, DecoderOfVc1(S, part, R, list, gone)
  PROVE  DecoderOfVc1(S, part + 1, <<>>,
             CASE R = <<>> -> list
               [] Len(R) = 1 -> Vc1!OutputPicture(list, R[1])
               [] OTHER -> Vc1!OutputPicture(Vc1!OutputPicture(list, R[1]), R[2]), gone)
<1> DEFINE after == CASE R = <<>> -> list
                      [] Len(R) = 1 -> Vc1!OutputPicture(list, R[1])
                      [] OTHER -> Vc1!OutputPicture(Vc1!OutputPicture(list, R[1]), R[2])
           n == Len(S)
<1>1. /\ S \in Seq(Frame) /\ part \in Nat /\ gone \in SUBSET (1..n) /\ RefsOfVc1(S, part, R, gone)
      /\ Complete(S, part, R, gone) /\ InPlace(S, part, list, gone, NextShown(R)) /\ NoneLost(S, R, list, gone)
  BY DEF DecoderOfVc1
<1>2. R = <<>> \/ Len(R) = 1 \/ Len(R) = 2
  BY <1>1, NewRefsAre
<1>3. \A k \in 1..Len(R) : /\ R[k].id \in 1..n /\ S[R[k].id].part = part /\ ~IsB(S[R[k].id])
                           /\ R[k].out => k = 1 /\ Len(R) = 2
  BY <1>1 DEF RefsOfVc1
<1>4. \A k \in 1..Len(R) : R[k].id \in Range(list) <=> R[k].out
  BY <1>1, ShownIsListed
<1> HIDE DEF after
<1>5. \E next : InPlace(S, part, after, gone, next)
  <2>1. CASE R = <<>>
    <3>1. after = list
      BY <2>1 DEF after
    <3> QED BY <1>1, <3>1
  <2>2. CASE Len(R) = 1
    <3>1. 1 \in 1..Len(R)
      BY <2>2
    <3>2. R # <<>> /\ ~R[1].out
      <4>1. R # <<>>
        BY <3>1
      <4>2. Len(R) # 2
        BY <2>2
      <4> QED BY <1>3, <3>1, <4>1, <4>2
    <3>3. after = Append(list, R[1].id) /\ NextShown(R) = R[1].id
      BY <2>2, <3>2 DEF after, NextShown, Vc1!OutputPicture
    <3> QED BY <1>1, <1>3, <3>1, <3>3, ShowNext
  <2>3. CASE Len(R) = 2
    <3>1. 1 \in 1..Len(R) /\ 2 \in 1..Len(R)
      BY <2>3
    <3>2. R # <<>> /\ ~R[2].out
      BY <1>3, <3>1
    <3> DEFINE older == Vc1!OutputPicture(list, R[1])
    <3>3. after = Append(older, R[2].id)
      BY <2>3, <3>2 DEF after, Vc1!OutputPicture
    <3>4. InPlace(S, part, older, gone, R[2].id)
      BY <1>1, <1>4, <2>3, <3>1, ShowOlder
    <3> QED BY <1>1, <1>3, <3>1, <3>3, <3>4, ShowNext
  <2> QED BY <1>2, <2>1, <2>2, <2>3
<1>6. Range(after) = Range(list) \cup {R[k].id : k \in 1..Len(R)}
  <2>1. ListOK(S, list)
    BY <1>1 DEF InPlace
  <2>2. CASE R = <<>>
    <3>1. after = list /\ 1..Len(R) = {}
      BY <2>2 DEF after
    <3> QED BY <3>1
  <2>3. CASE Len(R) = 1
    <3>1. 1 \in 1..Len(R) /\ 1..Len(R) = {1}
      BY <2>3
    <3>2. R # <<>> /\ ~R[1].out
      <4>1. R # <<>>
        BY <3>1
      <4>2. Len(R) # 2
        BY <2>3
      <4> QED BY <1>3, <3>1, <4>1, <4>2
    <3>3. after = Append(list, R[1].id)
      BY <2>3, <3>2 DEF after, Vc1!OutputPicture
    <3>4. Range(after) = Range(list) \cup {R[1].id}
      BY <1>3, <2>1, <3>1, <3>3, ListOKAppend
    <3> QED BY <3>1, <3>4
  <2>4. CASE Len(R) = 2
    <3>1. 1 \in 1..Len(R) /\ 2 \in 1..Len(R) /\ 1..Len(R) = {1, 2}
      BY <2>4
    <3>2. R # <<>> /\ ~R[2].out
      BY <1>3, <3>1
    <3> DEFINE older == Vc1!OutputPicture(list, R[1])
    <3>3. after = Append(older, R[2].id)
      BY <2>4, <3>2 DEF after, Vc1!OutputPicture
    <3>4. InPlace(S, part, older, gone, R[2].id) /\ Range(older) = Range(list) \cup {R[1].id}
      BY <1>1, <1>4, <2>4, <3>1, ShowOlder
    <3>5. Range(after) = Range(older) \cup {R[2].id}
      BY <1>1, <1>3, <3>1, <3>3, <3>4, ShowNext
    <3> QED BY <3>1, <3>4, <3>5
  <2> QED BY <1>2, <2>2, <2>3, <2>4
<1>7. InPlace(S, part + 1, after, gone, 0)
  BY <1>1, <1>5, InPlaceAtFirst
<1>8. \A i \in 1..n : S[i].part # part + 1
  <2>1. \A i \in 1..n : S[i] \in Frame
    BY <1>1
  <2>2. \A i \in 1..n : S[i].part <= part /\ S[i].part \in Nat
    BY <1>1, <2>1 DEF InPlace, Frame
  <2> QED BY <1>1, <2>2
<1>9. Complete(S, part + 1, <<>>, gone)
  BY <1>8 DEF Complete
<1>10. RefsOfVc1(S, part + 1, <<>>, gone)
  BY DEF RefsOfVc1
<1>11. NoneLost(S, <<>>, after, gone)
  <2>1. ASSUME NEW i \in 1..n, i \notin gone
        PROVE  i \in Range(after)
    <3>1. i \in Range(list) \/ \E k \in DOMAIN R : R[k] = [id |-> i, out |-> FALSE]
      BY <1>1, <2>1 DEF NoneLost
    <3>2. ASSUME NEW k \in DOMAIN R, R[k] = [id |-> i, out |-> FALSE]
          PROVE  R[k].id = i /\ k \in 1..Len(R)
      BY <1>1, <3>2 DEF RefsOfVc1
    <3> QED BY <1>6, <3>1, <3>2
  <2> QED BY <2>1 DEF NoneLost
<1>12. NextShown(<<>>) = 0 /\ part + 1 \in Nat
  BY <1>1 DEF NextShown
<1> QED BY <1>1, <1>7, <1>9, <1>10, <1>11, <1>12 DEF DecoderOfVc1, after

\* The order of display is that of DisplayOrder.
LEMMA OrderOfVc1 ==
  /\ \A S, i : Vc1!Wanted(S, i) = Wanted(S, i)
  /\ \A S, list, gone : Vc1!Displays(S, list, gone) <=> Displays(S, list, gone)
  /\ \A list : Vc1!Range(list) = Range(list) /\ Vc1!Last(list) = Last(list)
<1>1. \A S, i : Vc1!References(S, i) = References(S, i)
  BY DEF Vc1!References, References, Vc1!IsB, IsB
<1>2. \A R : Vc1!Newest(R) = Newest(R) /\ Vc1!NewestTwo(R) = NewestTwo(R)
  BY DEF Vc1!Newest, Newest, Vc1!NewestTwo, NewestTwo
<1>3. \A S, i : Vc1!Wanted(S, i) = Wanted(S, i)
  BY <1>1, <1>2 DEF Vc1!Wanted, Wanted, Vc1!IsB, IsB
<1>4. \A S, i, j : Vc1!Precedes(S, i, j) <=> Precedes(S, i, j)
  BY <1>1 DEF Vc1!Precedes, Precedes, Vc1!IsB, IsB
<1>5. \A S, i, gone : Vc1!HasPlace(S, i, gone) <=> HasPlace(S, i, gone)
  BY <1>3 DEF Vc1!HasPlace, HasPlace, Vc1!IsB, IsB
<1>6. \A S, list, gone : Vc1!Displays(S, list, gone) <=> Displays(S, list, gone)
  BY <1>4, <1>5 DEF Vc1!Displays, Displays
<1>7. \A list : Vc1!Range(list) = Range(list) /\ Vc1!Last(list) = Last(list)
  BY DEF Vc1!Range, Range, Vc1!Last, Last
<1> QED BY <1>3, <1>6, <1>7

\* The types of the stream.
StreamType == [sent : Seq(Frame), part : Nat, restart : BOOLEAN]

\* The invariant: the decoder is as the stream says, and decoded the last frame from the right ones.
InvOfVc1 == stream \in StreamType /\ DecoderOfVc1(stream.sent, stream.part, refs, shown, lost) /\ Vc1!ReferencesAreTrue

\* At first nothing was sent.
LEMMA InitVc1 ==
  ASSUME Vc1!Init
  PROVE  InvOfVc1
<1>1. refs = <<>> /\ shown = <<>> /\ stream = [sent |-> <<>>, part |-> 1, restart |-> TRUE] /\ lost = {}
  BY DEF Vc1!Init
<1>2. stream \in StreamType /\ stream.sent = <<>> /\ stream.part = 1
  BY <1>1 DEF StreamType
<1>3. <<>> \in Seq(Frame) /\ <<>> \in Seq(Reference) /\ <<>> \in Seq(Nat) /\ Len(<<>>) = 0 /\ 1..0 = {} /\ DOMAIN <<>> = {}
  OBVIOUS
<1>4. DecoderOfVc1(<<>>, 1, <<>>, <<>>, {})
  BY <1>3 DEF DecoderOfVc1, RefsOfVc1, Complete, InPlace, NoneLost, ListOK, Displays, Behind
<1>5. Vc1!ReferencesAreTrue
  BY <1>2 DEF Vc1!ReferencesAreTrue
<1> QED BY <1>1, <1>2, <1>4, <1>5 DEF InvOfVc1

\* A frame is sent, and decoded or not.
LEMMA SendFrameVc1 ==
  ASSUME InvOfVc1, Hard = {}, Vc1!SendFrame
  PROVE  InvOfVc1'
<1>1. PICK kind \in {"I", "P", "skipped", "B", "BI"}, refused \in BOOLEAN :
          LET fails == refused \/ ~Vc1!HasReferences(kind)
              p == [id |-> Vc1!NextId, kind |-> kind]
          IN  /\ Vc1!MaySend(kind)
              /\ stream' = [stream EXCEPT !.restart = FALSE,
                               !.sent = Append(@, [part |-> stream.part, kind |-> IF kind = "BI" THEN "B" ELSE kind])]
              /\ pred' = IF fails THEN <<>> ELSE Vc1!ReferencesOf(kind)
              /\ IF fails THEN lost' = lost \union {p.id} /\ UNCHANGED <<refs, shown>>
                 ELSE Vc1!Store(p) /\ UNCHANGED lost
  BY DEF Vc1!SendFrame
<1>2. kind \in Kinds
  BY <1>1 DEF Vc1!MaySend, Kinds
<1> DEFINE S == stream.sent
           f == [part |-> stream.part, kind |-> kind]
           x == Len(S) + 1
           fails == refused \/ ~Vc1!HasReferences(kind)
<1>3. stream \in StreamType /\ DecoderOfVc1(S, stream.part, refs, shown, lost)
  BY DEF InvOfVc1
<1>4. stream.part \in Nat /\ S \in Seq(Frame)
  BY <1>3 DEF StreamType
<1>5. f \in Frame /\ f.part = stream.part /\ f.kind = kind /\ (IsB(f) <=> kind = "B")
  BY <1>2, <1>4 DEF Frame, IsB
<1>6. stream'.sent = Append(S, f) /\ stream'.part = stream.part /\ stream' \in StreamType
  <2>1. (IF kind = "BI" THEN "B" ELSE kind) = kind
    BY <1>2 DEF Kinds
  <2>2. stream' = [sent |-> Append(S, f), part |-> stream.part, restart |-> FALSE]
    BY <1>1, <1>3, <2>1 DEF StreamType
  <2>3. Append(S, f) \in Seq(Frame)
    BY <1>4, <1>5
  <2> HIDE DEF f, S
  <2> QED BY <1>4, <2>2, <2>3 DEF StreamType
<1>7. DecoderOfVc1(Append(S, f), stream.part, refs', shown', lost')
  <2>1. CASE fails
    <3>1. lost' = lost \cup {x} /\ refs' = refs /\ shown' = shown
      BY <1>1, <2>1 DEF Vc1!NextId
    <3> QED BY <1>3, <1>5, <3>1, FailsOfVc1
  <2>2. CASE ~fails /\ kind = "B"
    <3>1. Len(refs) = 2
      BY <2>2 DEF Vc1!HasReferences
    <3>2. shown' = Append(Vc1!OutputPicture(shown, refs[1]), x) /\ refs' = OlderShown(refs) /\ lost' = lost
      BY <1>1, <2>2 DEF Vc1!Store, Vc1!NextId, OlderShown
    <3> QED BY <1>3, <1>5, <2>2, <3>1, <3>2, StoresB
  <2>3. CASE ~fails /\ kind # "B"
    <3>1. /\ shown' = IF Len(refs) = 2 THEN Vc1!OutputPicture(shown, refs[1]) ELSE shown
          /\ refs' = NewRefs(refs, x) /\ lost' = lost
      BY <1>1, <2>3 DEF Vc1!Store, Vc1!NextId, NewRefs
    <3> QED BY <1>3, <1>5, <2>3, <3>1, StoresReference
  <2> QED BY <2>1, <2>2, <2>3
<1>8. Vc1!ReferencesAreTrue'
  <2> DEFINE T == Append(S, f)
  <2>1. Len(T) = x /\ T[x] = f
    BY <1>4, <1>5
  <2>2. pred' = <<>> \/ (~fails /\ pred' = Vc1!ReferencesOf(kind) /\ lost' = lost)
    BY <1>1
  <2> HIDE DEF T, x, fails
  <2>3. SUFFICES ASSUME pred' # <<>>, Wanted(T, x) \cap lost' = {}
                 PROVE  Range(pred') = Wanted(T, x) /\ \A a, b \in DOMAIN pred' : a < b => pred'[a] < pred'[b]
    BY <1>6, <2>1, OrderOfVc1 DEF Vc1!ReferencesAreTrue, T
  <2>4. ~fails /\ pred' = Vc1!ReferencesOf(kind) /\ lost' = lost
    BY <2>2, <2>3
  <2>5. kind # "I"
    BY <2>3, <2>4 DEF Vc1!ReferencesOf
  <2>6. CASE kind = "B"
    <3>1. Len(refs) = 2
      BY <2>4, <2>6 DEF fails, Vc1!HasReferences
    <3>2. Wanted(T, x) = NewestTwo(References(T, x))
      BY <1>5, <2>1, <2>6 DEF Wanted, IsB
    <3>3. Wanted(T, x) = {refs[1].id, refs[2].id}
      BY <1>3, <1>5, <2>3, <2>4, <3>1, <3>2, WantsBoth DEF T, x
    <3>4. pred' = <<refs[1].id, refs[2].id>>
      BY <2>4, <2>6 DEF Vc1!ReferencesOf
    <3>5. refs[1].id < refs[2].id
      BY <1>3, <3>1 DEF DecoderOfVc1, RefsOfVc1
    <3>6. \A k \in 1..2 : k = 1 \/ k = 2
      OBVIOUS
    <3>7. DOMAIN pred' = 1..2 /\ pred'[1] = refs[1].id /\ pred'[2] = refs[2].id
      BY <3>4
    <3>8. Range(pred') = {refs[1].id, refs[2].id}
      BY <3>6, <3>7 DEF Range
    <3> QED BY <3>3, <3>5, <3>6, <3>7, <3>8
  <2>7. CASE kind \in {"P", "skipped"}
    <3>1. Len(refs) >= 1
      BY <2>4, <2>7 DEF fails, Vc1!HasReferences
    <3>2. refs # <<>>
      BY <3>1
    <3>3. Wanted(T, x) = Newest(References(T, x))
      BY <1>5, <2>1, <2>7 DEF Wanted, IsB
    <3>4. Wanted(T, x) = {refs[Len(refs)].id}
      BY <1>3, <1>5, <2>3, <2>4, <3>2, <3>3, WantsLast DEF T, x
    <3>5. pred' = <<refs[Len(refs)].id>>
      BY <2>4, <2>7, OrderOfVc1 DEF Vc1!ReferencesOf, Last
    <3>6. DOMAIN pred' = 1..1 /\ pred'[1] = refs[Len(refs)].id
      BY <3>5
    <3> QED BY <3>4, <3>6 DEF Range
  <2> QED BY <1>2, <2>5, <2>6, <2>7 DEF Kinds
<1> QED BY <1>6, <1>7, <1>8 DEF InvOfVc1

\* bumpAll() of the references, the older one first, starts another part.
LEMMA BumpAllVc1 ==
  ASSUME InvOfVc1, Vc1!BumpAll
  PROVE  InvOfVc1'
<1>1. stream \in StreamType /\ DecoderOfVc1(stream.sent, stream.part, refs, shown, lost)
  BY DEF InvOfVc1
<1>2. stream' = [sent |-> stream.sent, part |-> stream.part + 1, restart |-> TRUE] /\ refs' = <<>> /\ lost' = lost
  BY <1>1 DEF Vc1!BumpAll, StreamType
<1>3. stream' \in StreamType /\ stream'.sent = stream.sent /\ stream'.part = stream.part + 1 /\ stream'.restart
  BY <1>1, <1>2 DEF StreamType
<1>4. DecoderOfVc1(stream.sent, stream.part + 1, <<>>, shown', lost)
  BY <1>1, BumpsAll DEF Vc1!BumpAll
<1>5. Vc1!ReferencesAreTrue'
  BY <1>3 DEF Vc1!ReferencesAreTrue
<1> QED BY <1>2, <1>3, <1>4, <1>5 DEF InvOfVc1

\* The invariant holds of the decoder, whatever the driver refuses and wherever the client seeks.
THEOREM Vc1Invariant ==
  ASSUME Hard = {}
  PROVE  Vc1!Spec => []InvOfVc1
<1>1. ASSUME InvOfVc1, UNCHANGED Vc1!vars
      PROVE  InvOfVc1'
  BY <1>1 DEF InvOfVc1, Vc1!vars, Vc1!ReferencesAreTrue
<1>2. InvOfVc1 /\ [Vc1!Next]_Vc1!vars => InvOfVc1'
  BY <1>1, SendFrameVc1, BumpAllVc1 DEF Vc1!Next
<1> QED BY <1>2, InitVc1, PTL DEF Vc1!Spec

\* Frames leave in the order of display and each at most once, none is lost, and each is decoded from
\* the frames it was encoded from, for every stream of I, P, B and skipped frames.
THEOREM Vc1Correct ==
  ASSUME Hard = {}
  PROVE  Vc1!Spec => [](Vc1!OutputInOrder /\ Vc1!NoPictureLost /\ Vc1!ReferencesAreTrue)
<1>1. ASSUME InvOfVc1
      PROVE  Vc1!NoPictureLost
  <2>1. DOMAIN stream.sent = 1..Len(stream.sent) /\ NoneLost(stream.sent, refs, shown, lost)
    BY <1>1 DEF InvOfVc1, DecoderOfVc1
  <2> QED BY <2>1, OrderOfVc1 DEF Vc1!NoPictureLost, NoneLost
<1>2. InvOfVc1 => Vc1!OutputInOrder /\ Vc1!ReferencesAreTrue
  BY OrderOfVc1 DEF InvOfVc1, DecoderOfVc1, InPlace, Vc1!OutputInOrder
<1> QED BY <1>1, <1>2, Vc1Invariant, PTL

-----------------------------------------------------------------------------
(* MPEG-2 *)

\* The picture being decoded, or a reference.
PictureType == [surf : Nat, id : Nat, kind : Kinds, field : BOOLEAN, refs : Nat \X Nat]

\* The reference that is shown when the next one is decoded.
LastSurf(R) == IF R = <<>> THEN 0 ELSE R[Len(R)].surf

\* The references R of the DPB: reference frames of the part, in the order of the stream, without the
\* frame that is being decoded.
RefsOfMpeg2(S, part, R, pending) ==
    /\ R \in Seq(PictureType) /\ Len(R) <= 2
    /\ \A k \in 1..Len(R) :
          R[k].surf \in 1..Len(S) /\ S[R[k].surf].part = part /\ ~IsB(S[R[k].surf]) /\ R[k].surf # pending
    /\ Len(R) = 2 => R[1].surf < R[2].surf

\* The other references of the part that were decoded are older than both.
CompleteRefs(S, part, R, gone, pending) ==
    \A i \in 1..Len(S) : S[i].part = part /\ ~IsB(S[i]) /\ i \notin gone /\ i # pending =>
        (\E k \in 1..Len(R) : R[k].surf = i) \/ (Len(R) = 2 /\ i < R[1].surf)

\* All that was decoded is shown, but for the last reference.
AllButLast(S, R, list, gone, pending) ==
    \A i \in 1..Len(S) : i \notin gone /\ i # pending => (i \in Range(list) <=> i # LastSurf(R))

\* The DPB is as the stream says; pending is the frame that is being decoded.
DpbOfMpeg2(S, part, R, list, gone, pending) ==
    /\ S \in Seq(Frame) /\ part \in Nat /\ gone \in SUBSET (1..Len(S))
    /\ pending = 0 \/ (pending \in 1..Len(S) /\ pending = Len(S) /\ S[pending].part = part)
    /\ pending \notin Range(list)
    /\ RefsOfMpeg2(S, part, R, pending) /\ CompleteRefs(S, part, R, gone, pending)
    /\ InPlace(S, part, list, gone, LastSurf(R)) /\ AllButLast(S, R, list, gone, pending)

\* The picture being decoded is the last frame of the stream, and a B frame comes after two references.
CurrentOf(S, part, c) ==
    /\ c \in PictureType /\ c.surf = c.id /\ c.id = Len(S) /\ c.surf \in 1..Len(S)
    /\ S[c.id] = [part |-> part, kind |-> c.kind]
    /\ c.kind # "I" => References(S, c.id) # {}
    /\ c.kind = "B" => \E r, s \in References(S, c.id) : r < s

\* The invariant.
InvOfMpeg2 ==
    /\ stream \in StreamType
    /\ cur = Mpeg2!None \/ CurrentOf(stream.sent, stream.part, cur)
    /\ firstField = Mpeg2!None \/ (cur # Mpeg2!None /\ cur.field /\ firstField \in PictureType /\ firstField.surf = cur.surf)
    /\ DpbOfMpeg2(stream.sent, stream.part, refs, shown, lost, cur.surf)
    /\ ~stream.restart => \E i \in 1..Len(stream.sent) : stream.sent[i].part = stream.part /\ ~IsB(stream.sent[i])
    /\ Mpeg2!ReferencesAreTrue

\* The list once the last reference is shown, and the references after a new one.
WithLast(R, list) == IF R = <<>> THEN list ELSE Append(list, R[Len(R)].surf)
WithNew(R, p)     == Append(IF Len(R) = 2 THEN Tail(R) ELSE R, p)

\* The last reference, and the two after a new one.
LEMMA LastOfMpeg2 ==
  ASSUME NEW S, NEW part, NEW R, NEW pending, RefsOfMpeg2(S, part, R, pending)
  PROVE  /\ LastSurf(R) \in Nat
         /\ R = <<>> <=> LastSurf(R) = 0
         /\ R # <<>> => /\ Len(R) \in 1..Len(R) /\ (Len(R) = 1 \/ Len(R) = 2) /\ LastSurf(R) = R[Len(R)].surf
                        /\ LastSurf(R) \in 1..Len(S) /\ S[LastSurf(R)].part = part /\ ~IsB(S[LastSurf(R)])
                        /\ LastSurf(R) # pending
<1>1. R \in Seq(PictureType) /\ Len(R) <= 2
  BY DEF RefsOfMpeg2
<1> SUFFICES ASSUME R # <<>>
             PROVE  Len(R) \in 1..Len(R) /\ (Len(R) = 1 \/ Len(R) = 2)
  BY DEF LastSurf, RefsOfMpeg2
<1>2. Len(R) \in Nat /\ Len(R) # 0
  BY <1>1, EmptySeq
<1>3. \A m \in Nat : m <= 2 /\ m # 0 => m \in 1..m /\ (m = 1 \/ m = 2)
  OBVIOUS
<1> QED BY <1>1, <1>2, <1>3, Zenon

\* A new reference is the second of two.
LEMMA NewRefsOfMpeg2 ==
  ASSUME NEW S, NEW part, NEW R, NEW pending, RefsOfMpeg2(S, part, R, pending), NEW p \in PictureType
  PROVE  /\ R = <<>> => WithNew(R, p) = <<p>>
         /\ R # <<>> => R[Len(R)] \in PictureType /\ WithNew(R, p) = <<R[Len(R)], p>>
<1>1. R \in Seq(PictureType) /\ Len(R) <= 2
  BY DEF RefsOfMpeg2
<1>2. R = <<>> => WithNew(R, p) = <<p>>
  BY DEF WithNew
<1> SUFFICES ASSUME R # <<>>
             PROVE  R[Len(R)] \in PictureType /\ WithNew(R, p) = <<R[Len(R)], p>>
  BY <1>2
<1>3. Len(R) \in 1..Len(R) /\ (Len(R) = 1 \/ Len(R) = 2)
  BY LastOfMpeg2
<1>4. R[Len(R)] \in PictureType
  BY <1>1, <1>3, ElementOfSeq
<1> HIDE DEF PictureType
<1>5. (IF Len(R) = 2 THEN Tail(R) ELSE R) = <<R[Len(R)]>>
  <2>1. \A Q \in Seq(PictureType) : Len(Q) = 1 => Q = <<Q[1]>>
    OBVIOUS
  <2>2. CASE Len(R) = 1
    BY <1>1, <2>1, <2>2
  <2>3. CASE Len(R) = 2
    <3>1. Tail(R) \in Seq(PictureType) /\ Len(Tail(R)) = Len(R) - 1
          /\ \A i \in 1..Len(Tail(R)) : Tail(R)[i] = R[i + 1]
      BY <1>1, HeadTailProperties
    <3> DEFINE W == Tail(R)
    <3>3. Len(W) = Len(R) - 1 /\ \A i \in 1..Len(W) : W[i] = R[i + 1]
      BY <3>1
    <3> HIDE DEF W
    <3>4. Len(W) = 1 /\ W[1] = R[2]
      BY <2>3, <3>3
    <3>2. Tail(R) = <<R[2]>>
      BY <2>1, <3>1, <3>4, Zenon DEF W
    <3> QED BY <2>3, <3>2
  <2> QED BY <1>3, <2>2, <2>3
<1>6. Append(<<R[Len(R)]>>, p) = <<R[Len(R)], p>>
  BY <1>4, AppendPair
<1> QED BY <1>4, <1>5, <1>6 DEF WithNew

\* The last reference is shown in its place.
LEMMA ShowsLast ==
  ASSUME NEW S \in Seq(Frame), NEW part \in Nat, NEW R, NEW pending, RefsOfMpeg2(S, part, R, pending), NEW gone, NEW list,
         InPlace(S, part, list, gone, LastSurf(R)), NEW later \in Nat, LastSurf(R) < later
  PROVE  /\ InPlace(S, part, WithLast(R, list), gone, later)
         /\ R = <<>> => WithLast(R, list) = list
         /\ R # <<>> => Range(WithLast(R, list)) = Range(list) \cup {LastSurf(R)}
<1> DEFINE last == LastSurf(R)
<1>1. CASE R = <<>>
  <2>1. WithLast(R, list) = list /\ last \in Nat /\ last <= later
    BY <1>1, LastOfMpeg2 DEF WithLast
  <2> HIDE DEF last
  <2>2. ListOK(S, list) /\ Displays(S, list, gone) /\ Behind(S, part, list, gone, last)
        /\ \A i \in 1..Len(S) : S[i].part <= part
    BY DEF InPlace, last
  <2>3. Behind(S, part, list, gone, later)
    BY <2>1, <2>2, BehindMore
  <2> QED BY <1>1, <2>1, <2>2, <2>3 DEF InPlace
<1>2. CASE R # <<>>
  <2>1. last \in 1..Len(S) /\ S[last].part = part /\ ~IsB(S[last]) /\ WithLast(R, list) = Append(list, last)
    BY <1>2, LastOfMpeg2 DEF WithLast
  <2>2. InPlace(S, part, list, gone, last) /\ last < later
    OBVIOUS
  <2> HIDE DEF last
  <2>3. InPlace(S, part, Append(list, last), gone, last + 1) /\ Range(Append(list, last)) = Range(list) \cup {last}
    BY <2>1, <2>2, ShowNext
  <2>4. last + 1 \in Nat /\ last + 1 <= later
    BY <2>1, <2>2
  <2>5. InPlace(S, part, Append(list, last), gone, later)
    BY <2>3, <2>4, BehindMore DEF InPlace
  <2> QED BY <1>2, <2>1, <2>3, <2>5 DEF last
<1> QED BY <1>1, <1>2

\* What is known of a list stays true when more is lost.
LEMMA InPlaceLost ==
  ASSUME NEW S, NEW part, NEW list, NEW gone, NEW more, gone \subseteq more, NEW next, InPlace(S, part, list, gone, next)
  PROVE  InPlace(S, part, list, more, next)
<1>1. \A i : HasPlace(S, i, more) => HasPlace(S, i, gone)
  BY DEF HasPlace
<1>2. ListOK(S, list) /\ Displays(S, list, gone) /\ Behind(S, part, list, gone, next)
      /\ \A i \in 1..Len(S) : S[i].part <= part
  BY DEF InPlace
<1>3. Displays(S, list, more)
  BY <1>1, <1>2 DEF Displays
<1>4. Behind(S, part, list, more, next)
  BY <1>1, <1>2 DEF Behind
<1> QED BY <1>2, <1>3, <1>4 DEF InPlace

\* The picture that is being decoded is lost.
LEMMA LosesPending ==
  ASSUME NEW S, NEW part, NEW R, NEW list, NEW gone, NEW pending, DpbOfMpeg2(S, part, R, list, gone, pending), pending # 0
  PROVE  DpbOfMpeg2(S, part, R, list, gone \cup {pending}, 0)
<1> DEFINE more == gone \cup {pending}
<1>1. /\ S \in Seq(Frame) /\ part \in Nat /\ gone \in SUBSET (1..Len(S)) /\ pending \in 1..Len(S)
      /\ RefsOfMpeg2(S, part, R, pending) /\ CompleteRefs(S, part, R, gone, pending)
      /\ InPlace(S, part, list, gone, LastSurf(R)) /\ AllButLast(S, R, list, gone, pending)
  BY DEF DpbOfMpeg2
<1>2. more \in SUBSET (1..Len(S))
  BY <1>1
<1>3. 0 \notin Range(list)
  <2>1. ListOK(S, list)
    BY <1>1 DEF InPlace
  <2>2. \A a \in DOMAIN list : list[a] # 0
    BY <2>1 DEF ListOK
  <2> QED BY <2>2 DEF Range
<1>4. RefsOfMpeg2(S, part, R, 0)
  BY <1>1 DEF RefsOfMpeg2
<1>5. CompleteRefs(S, part, R, more, 0)
  BY <1>1 DEF CompleteRefs
<1>6. AllButLast(S, R, list, more, 0)
  BY <1>1 DEF AllButLast
<1>7. InPlace(S, part, list, more, LastSurf(R))
  BY <1>1, InPlaceLost
<1> QED BY <1>1, <1>2, <1>3, <1>4, <1>5, <1>6, <1>7 DEF DpbOfMpeg2

\* A frame is sent.
LEMMA SendsMpeg2 ==
  ASSUME NEW S, NEW part, NEW R, NEW list, NEW gone, DpbOfMpeg2(S, part, R, list, gone, 0), NEW f \in Frame, f.part = part
  PROVE  DpbOfMpeg2(Append(S, f), part, R, list, gone, Len(S) + 1)
<1> DEFINE T == Append(S, f)
           n == Len(S)
           x == n + 1
<1>1. /\ S \in Seq(Frame) /\ part \in Nat /\ gone \in SUBSET (1..n)
      /\ RefsOfMpeg2(S, part, R, 0) /\ CompleteRefs(S, part, R, gone, 0)
      /\ InPlace(S, part, list, gone, LastSurf(R)) /\ AllButLast(S, R, list, gone, 0)
  BY DEF DpbOfMpeg2
<1>2. /\ n \in Nat /\ T \in Seq(Frame) /\ Len(T) = x /\ T[x] = f /\ (\A i \in 1..n : T[i] = S[i]) /\ x \in 1..Len(T) /\ x # 0
  BY <1>1
<1>3. InPlace(T, part, list, gone, LastSurf(R))
  BY <1>1, InPlaceMore
<1>4. \A a \in DOMAIN list : list[a] \in 1..n
  BY <1>1 DEF InPlace, ListOK
<1>5. \A k \in 1..Len(R) : R[k].surf \in 1..n /\ S[R[k].surf].part = part /\ ~IsB(S[R[k].surf])
  BY <1>1 DEF RefsOfMpeg2
<1>6. \A i \in gone : i \in 1..n
  BY <1>1
<1> HIDE DEF T, n
<1>7. \A i \in 1..n : i \in 1..Len(T) /\ i # x
  BY <1>2
<1>8. \A i \in 1..Len(T) : i # x => i \in 1..n
  BY <1>2
<1> HIDE DEF x
<1>9. x \notin Range(list) /\ gone \in SUBSET (1..Len(T))
  BY <1>4, <1>6, <1>7 DEF Range
<1>10. RefsOfMpeg2(T, part, R, x)
  BY <1>1, <1>2, <1>5, <1>7 DEF RefsOfMpeg2
<1>11. CompleteRefs(T, part, R, gone, x)
  <2>1. \A i \in 1..n : i # 0
    BY <1>2
  <2> QED BY <1>1, <1>2, <1>8, <2>1 DEF CompleteRefs, n
<1>12. AllButLast(T, R, list, gone, x)
  <2>1. \A i \in 1..n : i # 0
    BY <1>2
  <2> QED BY <1>1, <1>8, <2>1 DEF AllButLast, n
<1> QED BY <1>1, <1>2, <1>3, <1>9, <1>10, <1>11, <1>12 DEF DpbOfMpeg2, T, x, n

\* A flush: the last reference is shown, and a part begins without references.
LEMMA FlushesMpeg2 ==
  ASSUME NEW S, NEW part, NEW R, NEW list, NEW gone, DpbOfMpeg2(S, part, R, list, gone, 0)
  PROVE  DpbOfMpeg2(S, part + 1, <<>>, WithLast(R, list), gone, 0)
<1> DEFINE n == Len(S)
           after == WithLast(R, list)
<1>1. /\ S \in Seq(Frame) /\ part \in Nat /\ gone \in SUBSET (1..n)
      /\ RefsOfMpeg2(S, part, R, 0) /\ CompleteRefs(S, part, R, gone, 0)
      /\ InPlace(S, part, list, gone, LastSurf(R)) /\ AllButLast(S, R, list, gone, 0)
  BY DEF DpbOfMpeg2
<1>2. LastSurf(R) \in Nat /\ (R = <<>> <=> LastSurf(R) = 0)
  BY <1>1, LastOfMpeg2
<1>3. LastSurf(R) + 1 \in Nat /\ LastSurf(R) < LastSurf(R) + 1
  BY <1>2
<1>4. /\ InPlace(S, part, after, gone, LastSurf(R) + 1)
      /\ R = <<>> => after = list
      /\ R # <<>> => Range(after) = Range(list) \cup {LastSurf(R)}
  BY <1>1, <1>3, ShowsLast
<1>5. InPlace(S, part + 1, after, gone, 0)
  BY <1>1, <1>4, InPlaceAtFirst
<1>6. \A i \in 1..n : S[i].part # part + 1
  <2>1. \A i \in 1..n : S[i] \in Frame
    BY <1>1
  <2>2. \A i \in 1..n : S[i].part <= part /\ S[i].part \in Nat
    BY <1>1, <2>1 DEF InPlace, Frame
  <2> QED BY <1>1, <2>2
<1> HIDE DEF after
<1>7. CompleteRefs(S, part + 1, <<>>, gone, 0)
  BY <1>6 DEF CompleteRefs
<1>8. RefsOfMpeg2(S, part + 1, <<>>, 0)
  BY DEF RefsOfMpeg2
<1>9. LastSurf(<<>>) = 0
  BY DEF LastSurf
<1>10. AllButLast(S, <<>>, after, gone, 0)
  <2>1. ASSUME NEW i \in 1..n, i \notin gone
        PROVE  i \in Range(after) /\ i # 0
    <3>1. i # 0
      OBVIOUS
    <3>2. i \in Range(list) <=> i # LastSurf(R)
      BY <1>1, <2>1, <3>1 DEF AllButLast
    <3> QED BY <1>2, <1>4, <3>1, <3>2
  <2> QED BY <1>9, <2>1 DEF AllButLast
<1>11. 0 \notin Range(after)
  <2>1. \A a \in DOMAIN after : after[a] # 0
    BY <1>5 DEF InPlace, ListOK
  <2> QED BY <2>1 DEF Range
<1>12. part + 1 \in Nat
  BY <1>1
<1> QED BY <1>1, <1>5, <1>7, <1>8, <1>9, <1>10, <1>11, <1>12 DEF DpbOfMpeg2, after

\* A reference frame is added: the one before it is shown.
LEMMA AddsReference ==
  ASSUME NEW S, NEW part, NEW R, NEW list, NEW gone, NEW x, DpbOfMpeg2(S, part, R, list, gone, x), x # 0, ~IsB(S[x]),
         NEW p \in PictureType, p.surf = x
  PROVE  DpbOfMpeg2(S, part, WithNew(R, p), WithLast(R, list), gone, 0)
<1> DEFINE after == WithLast(R, list)
           Q == WithNew(R, p)
           last == LastSurf(R)
<1>1. /\ S \in Seq(Frame) /\ part \in Nat /\ gone \in SUBSET (1..Len(S))
      /\ RefsOfMpeg2(S, part, R, x) /\ CompleteRefs(S, part, R, gone, x)
      /\ InPlace(S, part, list, gone, last) /\ AllButLast(S, R, list, gone, x)
      /\ x \in 1..Len(S) /\ x = Len(S) /\ S[x].part = part /\ x \notin Range(list) /\ x \in Nat
  BY DEF DpbOfMpeg2
<1>2. /\ last \in Nat
      /\ R = <<>> <=> last = 0
      /\ R # <<>> => /\ Len(R) \in 1..Len(R) /\ (Len(R) = 1 \/ Len(R) = 2) /\ last = R[Len(R)].surf
                     /\ last \in 1..Len(S) /\ S[last].part = part /\ ~IsB(S[last]) /\ last # x
  BY <1>1, LastOfMpeg2
<1>3. last < x
  BY <1>1, <1>2
<1>4. /\ InPlace(S, part, after, gone, x)
      /\ R = <<>> => after = list
      /\ R # <<>> => Range(after) = Range(list) \cup {last}
  BY <1>1, <1>3, ShowsLast
<1>5. /\ R = <<>> => Q = <<p>>
      /\ R # <<>> => R[Len(R)] \in PictureType /\ Q = <<R[Len(R)], p>>
  BY <1>1, NewRefsOfMpeg2
<1> HIDE DEF after, Q
<1>6. Q \in Seq(PictureType) /\ Len(Q) \in {1, 2} /\ Q[Len(Q)] = p /\ Q # <<>>
      /\ (Len(Q) = 2 <=> R # <<>>) /\ (R # <<>> => Q[1].surf = last) /\ (R = <<>> => Q[1] = p)
  <2>1. CASE R = <<>>
    <3>1. Q = <<p>>
      BY <1>5, <2>1
    <3>2. Q \in Seq(PictureType) /\ Len(Q) = 1 /\ Q[1] = p
      BY <3>1
    <3>3. Q # <<>> /\ Len(Q) \in {1, 2} /\ Len(Q) # 2 /\ Q[Len(Q)] = p
      BY <3>2
    <3> QED BY <2>1, <3>2, <3>3, Zenon
  <2>2. CASE R # <<>>
    <3> DEFINE r == R[Len(R)]
    <3>1. r \in PictureType /\ r.surf = last /\ Q = <<r, p>>
      BY <1>2, <1>5, <2>2
    <3> HIDE DEF r, last
    <3>2. \A u, v \in PictureType : /\ Len(<<u, v>>) = 2 /\ <<u, v>>[1] = u /\ <<u, v>>[2] = v
                                    /\ <<u, v>> \in Seq(PictureType) /\ <<u, v>> # <<>>
      OBVIOUS
    <3>3. Len(Q) = 2 /\ Q[1] = r /\ Q[2] = p /\ Q \in Seq(PictureType) /\ Q # <<>>
      BY <3>1, <3>2, Zenon
    <3>4. Q[1].surf = last /\ Q[Len(Q)] = p /\ Len(Q) \in {1, 2}
      BY <3>1, <3>3
    <3> QED BY <2>2, <3>3, <3>4, Zenon
  <2> QED BY <2>1, <2>2
<1>7. \A k \in 1..Len(Q) : Q[k].surf = x \/ (R # <<>> /\ k = 1 /\ Q[k].surf = last)
  <2>1. \A k \in 1..Len(Q) : k = Len(Q) \/ k = 1
    BY <1>6
  <2> QED BY <1>6, <2>1
<1>8. LastSurf(Q) = x
  BY <1>6 DEF LastSurf
<1> HIDE DEF last
<1>9. RefsOfMpeg2(S, part, Q, 0)
  <2>1. ASSUME NEW k \in 1..Len(Q)
        PROVE  Q[k].surf \in 1..Len(S) /\ S[Q[k].surf].part = part /\ ~IsB(S[Q[k].surf]) /\ Q[k].surf # 0
    BY <1>1, <1>2, <1>7
  <2>2. Len(Q) = 2 => Q[1].surf < Q[2].surf
    BY <1>3, <1>6
  <2>3. Len(Q) <= 2
    BY <1>6
  <2> QED BY <1>6, <2>1, <2>2, <2>3 DEF RefsOfMpeg2
<1>10. CompleteRefs(S, part, Q, gone, 0)
  <2>1. ASSUME NEW i \in 1..Len(S), S[i].part = part, ~IsB(S[i]), i \notin gone
        PROVE  (\E k \in 1..Len(Q) : Q[k].surf = i) \/ (Len(Q) = 2 /\ i < Q[1].surf)
    <3>1. CASE i = x
      BY <1>6, <3>1
    <3>2. CASE i # x
      <4>1. (\E k \in 1..Len(R) : R[k].surf = i) \/ (Len(R) = 2 /\ i < R[1].surf)
        BY <1>1, <2>1, <3>2 DEF CompleteRefs
      <4>2. R # <<>> /\ (i = last \/ i < last)
        <5>1. R # <<>>
          BY <4>1
        <5>2. Len(R) = 2 => R[1].surf < R[2].surf /\ R[1].surf \in Nat /\ R[2].surf \in Nat
          <6>1. Len(R) = 2 => 1 \in 1..Len(R) /\ 2 \in 1..Len(R)
            OBVIOUS
          <6> QED BY <1>1, <6>1 DEF RefsOfMpeg2
        <5>3. last = R[Len(R)].surf /\ (Len(R) = 1 \/ Len(R) = 2)
          BY <1>2, <5>1
        <5>4. ASSUME NEW k \in 1..Len(R), R[k].surf = i
              PROVE  i = last \/ i < last
          <6>1. k = Len(R) \/ (k = 1 /\ Len(R) = 2)
            BY <5>3
          <6> QED BY <5>2, <5>3, <5>4, <6>1
        <5>5. ASSUME Len(R) = 2, i < R[1].surf
              PROVE  i < last
          BY <5>2, <5>3, <5>5
        <5> QED BY <4>1, <5>1, <5>4, <5>5
      <4>3. Len(Q) = 2 /\ Q[1].surf = last /\ 1 \in 1..Len(Q)
        BY <1>6, <4>2
      <4> QED BY <4>2, <4>3
    <3> QED BY <3>1, <3>2
  <2> QED BY <2>1 DEF CompleteRefs
<1>11. AllButLast(S, Q, after, gone, 0)
  <2>1. ASSUME NEW i \in 1..Len(S), i \notin gone
        PROVE  i \in Range(after) <=> i # x
    <3>1. i # x => (i \in Range(list) <=> i # last)
      BY <1>1, <2>1 DEF AllButLast, last
    <3>2. CASE R = <<>>
      BY <1>1, <1>2, <1>4, <3>1, <3>2
    <3>3. CASE R # <<>>
      BY <1>1, <1>2, <1>4, <3>1, <3>3
    <3> QED BY <3>2, <3>3
  <2> QED BY <1>8, <2>1 DEF AllButLast
<1>12. 0 \notin Range(after)
  <2>1. \A a \in DOMAIN after : after[a] # 0
    BY <1>4 DEF InPlace, ListOK
  <2> QED BY <2>1 DEF Range
<1>13. InPlace(S, part, after, gone, LastSurf(Q))
  BY <1>4, <1>8
<1> QED BY <1>1, <1>9, <1>10, <1>11, <1>12, <1>13 DEF DpbOfMpeg2, after, Q

\* What a B frame is predicted from, when none of it was lost.
LEMMA WantsBothOfMpeg2 ==
  ASSUME NEW S, NEW part, NEW R, NEW list, NEW gone, NEW x, DpbOfMpeg2(S, part, R, list, gone, x), x # 0,
         \E r, s \in References(S, x) : r < s, NewestTwo(References(S, x)) \cap gone = {}
  PROVE  /\ Len(R) = 2 /\ R[1].surf < R[2].surf
         /\ NewestTwo(References(S, x)) = {R[1].surf, R[2].surf}
         /\ \A r \in References(S, x) : r <= R[2].surf
<1> DEFINE Refs == References(S, x)
<1>1. /\ S \in Seq(Frame) /\ RefsOfMpeg2(S, part, R, x) /\ CompleteRefs(S, part, R, gone, x)
      /\ x \in 1..Len(S) /\ x = Len(S) /\ S[x].part = part /\ x \in Nat /\ Len(S) \in Nat
  BY DEF DpbOfMpeg2
<1>2. Refs = {i \in 1..Len(S) : S[i].part = part /\ ~IsB(S[i]) /\ i # x}
  BY <1>1 DEF References
<1>3. R \in Seq(PictureType) /\ Len(R) <= 2 /\ Len(R) \in Nat
      /\ (\A k \in 1..Len(R) : R[k].surf \in Refs) /\ (Len(R) = 2 => R[1].surf < R[2].surf)
  BY <1>1, <1>2 DEF RefsOfMpeg2
<1>4. \A i \in Refs : i \notin gone => (\E k \in 1..Len(R) : R[k].surf = i) \/ (Len(R) = 2 /\ i < R[1].surf)
  BY <1>1, <1>2 DEF CompleteRefs
<1>5. PICK u, v \in Refs : u < v
  OBVIOUS
<1>6. Refs \in SUBSET (1..Len(S)) /\ Refs \in SUBSET Nat
  BY <1>2
<1> HIDE DEF Refs
<1>7. PICK m \in Refs : \A s \in Refs : s <= m
  BY <1>1, <1>5, <1>6, LastNumber
<1>8. u \in Refs \ {m}
  BY <1>5, <1>6, <1>7
<1>9. PICK k \in Refs \ {m} : \A s \in Refs \ {m} : s <= k
  <2>1. Refs \ {m} \in SUBSET (1..Len(S)) /\ Refs \ {m} # {}
    BY <1>6, <1>8
  <2> QED BY <1>1, <2>1, LastNumber
<1>10. m \in NewestTwo(Refs) /\ k \in NewestTwo(Refs)
  <2>1. m \in NewestTwo(Refs)
    BY <1>6, <1>7 DEF NewestTwo
  <2>2. ASSUME NEW s \in Refs, NEW t \in Refs, k < s, s < t
        PROVE  FALSE
    <3>1. s = m
      BY <1>6, <1>9, <2>2
    <3> QED BY <1>6, <1>7, <2>2, <3>1
  <2> QED BY <1>9, <2>1, <2>2 DEF NewestTwo
<1>11. m \notin gone /\ k \notin gone /\ m # k
  BY <1>9, <1>10 DEF Refs
<1>12. Len(R) = 2
  <2>1. CASE Len(R) = 0
    BY <1>4, <1>7, <1>11, <2>1
  <2>2. CASE Len(R) = 1
    <3>1. \E j \in 1..Len(R) : R[j].surf = m
      BY <1>4, <1>7, <1>11, <2>2
    <3>2. \E j \in 1..Len(R) : R[j].surf = k
      BY <1>4, <1>9, <1>11, <2>2
    <3>3. \A j \in 1..Len(R) : j = 1
      BY <2>2
    <3> QED BY <1>11, <3>1, <3>2, <3>3
  <2>3. \A c \in Nat : c <= 2 => c = 0 \/ c = 1 \/ c = 2
    OBVIOUS
  <2> QED BY <1>3, <2>1, <2>2, <2>3, Zenon
<1> DEFINE a == R[1].surf
           b == R[2].surf
<1>13. a \in Refs /\ b \in Refs /\ a < b
  <2>1. 1 \in 1..Len(R) /\ 2 \in 1..Len(R)
    BY <1>12
  <2> QED BY <1>3, <1>12, <2>1
<1>14. \A r \in Refs : r \notin gone => r <= a \/ r = b
  <2>1. ASSUME NEW r \in Refs, r \notin gone
        PROVE  r <= a \/ r = b
    <3>1. (\E j \in 1..Len(R) : R[j].surf = r) \/ r < a
      BY <1>4, <2>1
    <3>2. \A j \in 1..Len(R) : j = 1 \/ j = 2
      BY <1>12
    <3>4. ASSUME NEW j \in 1..Len(R), R[j].surf = r
          PROVE  r = a \/ r = b
      BY <3>2, <3>4
    <3> HIDE DEF a, b
    <3>5. r \in Nat /\ a \in Nat
      BY <1>6, <1>13
    <3>6. \A c, d \in Nat : c < d \/ c = d => c <= d
      OBVIOUS
    <3> QED BY <3>1, <3>4, <3>5, <3>6, Zenon
  <2> QED BY <2>1
<1> HIDE DEF a, b
<1>16. \A r \in Refs : r \notin gone => r <= a \/ r = b
  BY <1>14
<1>15. NewestTwo(Refs) = {a, b} /\ \A r \in Refs : r <= b
  <2>1. NewestTwo(Refs) \cap gone = {}
    BY DEF Refs
  <2>2. Len(S) \in Nat /\ Refs \in SUBSET (1..Len(S)) /\ a \in Refs /\ b \in Refs /\ a < b
    BY <1>1, <1>6, <1>13
  <2> QED BY <1>16, <2>1, <2>2, NewestTwoAre
<1> QED BY <1>12, <1>13, <1>15 DEF a, b, Refs

\* A B frame is added: it is shown.
LEMMA AddsB ==
  ASSUME NEW S, NEW part, NEW R, NEW list, NEW gone, NEW x, DpbOfMpeg2(S, part, R, list, gone, x), x # 0, IsB(S[x]),
         \E r, s \in References(S, x) : r < s
  PROVE  DpbOfMpeg2(S, part, R, Append(list, x), gone, 0)
<1> DEFINE last == LastSurf(R)
           after == Append(list, x)
<1>1. /\ S \in Seq(Frame) /\ part \in Nat /\ gone \in SUBSET (1..Len(S))
      /\ RefsOfMpeg2(S, part, R, x) /\ CompleteRefs(S, part, R, gone, x)
      /\ InPlace(S, part, list, gone, last) /\ AllButLast(S, R, list, gone, x)
      /\ x \in 1..Len(S) /\ x = Len(S) /\ S[x].part = part /\ x \notin Range(list) /\ x \in Nat
  BY DEF DpbOfMpeg2
<1>2. ListOK(S, list) /\ Displays(S, list, gone) /\ Behind(S, part, list, gone, last)
      /\ \A i \in 1..Len(S) : S[i].part <= part
  BY <1>1 DEF InPlace
<1>3. \A a \in DOMAIN list : list[a] < x
  <2>1. \A a \in DOMAIN list : list[a] \in 1..Len(S) /\ list[a] # x
    BY <1>1, <1>2 DEF ListOK, Range
  <2> QED BY <1>1, <2>1
<1>4. Displays(S, after, gone) /\ Behind(S, part, after, gone, last)
  <2>1. CASE ~HasPlace(S, x, gone)
    <3>1. Displays(S, after, gone)
      BY <1>1, <1>2, <2>1, DisplaysAppend DEF ListOK
    <3>2. Behind(S, part, after, gone, last)
      BY <1>1, <1>2, <2>1, BehindAppend DEF ListOK
    <3> QED BY <3>1, <3>2
  <2>2. CASE HasPlace(S, x, gone)
    <3>1. NewestTwo(References(S, x)) \cap gone = {}
      BY <2>2 DEF HasPlace, Wanted, IsB
    <3>2. Len(R) = 2 /\ R[1].surf < R[2].surf /\ \A r \in References(S, x) : r <= R[2].surf
      BY <3>1, WantsBothOfMpeg2
    <3>3. R # <<>> /\ 2 \in 1..Len(R)
      <4>1. 2 \in 1..Len(R)
        BY <3>2
      <4> QED BY <4>1
    <3>4. last = R[2].surf
      BY <3>2, <3>3 DEF LastSurf
    <3>5. last \in References(S, x)
      BY <1>1, <3>3, <3>4 DEF RefsOfMpeg2, References
    <3> HIDE DEF last
    <3> QED BY <1>1, <1>2, <1>3, <3>2, <3>4, <3>5, ShowB
  <2> QED BY <2>1, <2>2
<1>5. ListOK(S, after) /\ Range(after) = Range(list) \cup {x}
  BY <1>1, <1>2, ListOKAppend
<1> HIDE DEF after
<1>6. InPlace(S, part, after, gone, last)
  BY <1>2, <1>4, <1>5 DEF InPlace
<1>7. RefsOfMpeg2(S, part, R, 0)
  BY <1>1 DEF RefsOfMpeg2
<1>8. CompleteRefs(S, part, R, gone, 0)
  <2>1. \A i \in 1..Len(S) : ~IsB(S[i]) => i # x
    OBVIOUS
  <2> QED BY <1>1, <2>1 DEF CompleteRefs
<1>9. x # last
  BY <1>1, LastOfMpeg2
<1>10. AllButLast(S, R, after, gone, 0)
  BY <1>1, <1>5, <1>9 DEF AllButLast
<1>11. 0 \notin Range(after)
  <2>1. \A a \in DOMAIN after : after[a] # 0
    BY <1>5 DEF ListOK
  <2> QED BY <2>1 DEF Range
<1> QED BY <1>1, <1>6, <1>7, <1>8, <1>10, <1>11 DEF DpbOfMpeg2, after

\* What the driver is given is what the frame was encoded from, when none of that was lost.
LEMMA GetsReferences ==
  ASSUME NEW S, NEW part, NEW R, NEW list, NEW gone, NEW x, DpbOfMpeg2(S, part, R, list, gone, x), x # 0,
         NEW kind \in Kinds, S[x].kind = kind, kind # "I" => References(S, x) # {},
         kind = "B" => \E r, s \in References(S, x) : r < s
  PROVE  /\ Mpeg2!GetReferences(kind, R) \in Nat \X Nat
         /\ Wanted(S, x) \cap gone = {} =>
                /\ Range(Mpeg2!GetReferences(kind, R)) \ {0} = Wanted(S, x)
                /\ IF kind = "B" THEN Mpeg2!GetReferences(kind, R)[1] < Mpeg2!GetReferences(kind, R)[2]
                   ELSE Mpeg2!GetReferences(kind, R)[2] = 0
<1> DEFINE g == Mpeg2!GetReferences(kind, R)
           Refs == References(S, x)
<1>1. /\ S \in Seq(Frame) /\ RefsOfMpeg2(S, part, R, x) /\ CompleteRefs(S, part, R, gone, x)
      /\ x \in 1..Len(S) /\ x = Len(S) /\ S[x].part = part /\ x \in Nat /\ Len(S) \in Nat
  BY DEF DpbOfMpeg2
<1>2. Refs = {i \in 1..Len(S) : S[i].part = part /\ ~IsB(S[i]) /\ i # x}
  BY <1>1 DEF References
<1>3. /\ LastSurf(R) \in Nat
      /\ R = <<>> <=> LastSurf(R) = 0
      /\ R # <<>> => /\ Len(R) \in 1..Len(R) /\ (Len(R) = 1 \/ Len(R) = 2) /\ LastSurf(R) = R[Len(R)].surf
                     /\ LastSurf(R) \in 1..Len(S) /\ S[LastSurf(R)].part = part /\ ~IsB(S[LastSurf(R)])
                     /\ LastSurf(R) # x
  BY <1>1, LastOfMpeg2
<1>4. \A k \in 1..Len(R) : R[k].surf \in Refs /\ R[k].surf \in Nat /\ R[k].surf # 0
  BY <1>1, <1>2 DEF RefsOfMpeg2
<1>5. \A u, v : Range(<<u, v>>) = {u, v} /\ <<u, v>>[1] = u /\ <<u, v>>[2] = v
  <2>1. ASSUME NEW u, NEW v
        PROVE  DOMAIN <<u, v>> = 1..2 /\ <<u, v>>[1] = u /\ <<u, v>>[2] = v
    OBVIOUS
  <2>2. \A k \in 1..2 : k = 1 \/ k = 2
    OBVIOUS
  <2>3. 1 \in 1..2 /\ 2 \in 1..2
    OBVIOUS
  <2> QED BY <2>1, <2>2, <2>3 DEF Range
<1>6. CASE kind = "I" \/ R = <<>>
  <2>1. g = <<0, 0>>
    BY <1>6 DEF Mpeg2!GetReferences
  <2>2. g \in Nat \X Nat /\ Range(g) = {0} /\ g[2] = 0
    BY <1>5, <2>1
  <2>3. CASE kind = "I"
    <3>1. Wanted(S, x) = {}
      BY <2>3 DEF Wanted, IsB
    <3> QED BY <2>2, <2>3, <3>1
  <2>4. CASE kind # "I"
    <3> SUFFICES ASSUME Wanted(S, x) \cap gone = {}
                 PROVE  FALSE
      BY <2>2
    <3>1. R = <<>> /\ \A k \in 1..Len(R) : FALSE
      BY <1>6, <2>4
    <3>2. Refs \subseteq gone
      BY <1>1, <1>2, <3>1 DEF CompleteRefs
    <3>3. CASE kind = "B"
      <4>1. NewestTwo(Refs) \cap gone = {}
        BY <3>3 DEF Wanted, IsB
      <4>2. Len(R) = 2
        BY <3>3, <4>1, WantsBothOfMpeg2
      <4> QED BY <3>1, <4>2
    <3>4. CASE kind # "B"
      <4>1. Wanted(S, x) = Newest(Refs)
        BY <2>4, <3>4 DEF Wanted, IsB
      <4>2. Refs \in SUBSET (1..Len(S)) /\ Refs # {}
        BY <1>2, <2>4
      <4> HIDE DEF Refs
      <4>3. PICK m \in Refs : \A s \in Refs : s <= m
        BY <1>1, <4>2, LastNumber
      <4>4. m \in Newest(Refs)
        BY <4>3 DEF Newest
      <4> QED BY <3>2, <4>1, <4>4
    <3> QED BY <3>3, <3>4
  <2> QED BY <2>3, <2>4
<1>7. CASE kind # "I" /\ R # <<>> /\ ~(kind = "B" /\ Len(R) = 2)
  <2> DEFINE last == LastSurf(R)
  <2>1. g = <<last, 0>>
    BY <1>3, <1>7 DEF Mpeg2!GetReferences, Mpeg2!Last
  <2>2. last \in Nat /\ last # 0 /\ last \in Refs
    BY <1>3, <1>4, <1>7
  <2>3. g \in Nat \X Nat
    BY <2>1, <2>2
  <2>4. Range(g) = {last, 0} /\ g[2] = 0
    BY <1>5, <2>1
  <2> HIDE DEF last
  <2>5. Range(g) \ {0} = {last}
    BY <2>2, <2>4
  <2> SUFFICES ASSUME Wanted(S, x) \cap gone = {}
               PROVE  Wanted(S, x) = {last} /\ kind # "B"
    BY <2>3, <2>4, <2>5
  <2>6. CASE kind = "B"
    <3>1. NewestTwo(Refs) \cap gone = {}
      BY <2>6 DEF Wanted, IsB
    <3>2. Len(R) = 2
      BY <2>6, <3>1, WantsBothOfMpeg2
    <3> QED BY <1>7, <2>6, <3>2
  <2>7. CASE kind # "B"
    <3>1. Wanted(S, x) = Newest(Refs)
      BY <1>7, <2>7 DEF Wanted, IsB
    <3>2. \A i \in Refs : i \notin gone => i <= last
      <4>1. ASSUME NEW i \in Refs, i \notin gone
            PROVE  i <= last
        <5>1. (\E k \in 1..Len(R) : R[k].surf = i) \/ (Len(R) = 2 /\ i < R[1].surf)
          BY <1>1, <1>2, <4>1 DEF CompleteRefs
        <5>2. last = R[Len(R)].surf /\ (Len(R) = 1 \/ Len(R) = 2)
          BY <1>3, <1>7 DEF last
        <5>3. Len(R) = 2 => R[1].surf < R[2].surf /\ R[1].surf \in Nat
          <6>1. Len(R) = 2 => 1 \in 1..Len(R)
            OBVIOUS
          <6> QED BY <1>1, <1>4, <6>1 DEF RefsOfMpeg2
        <5>4. i \in Nat
          BY <1>2
        <5>5. ASSUME NEW k \in 1..Len(R), R[k].surf = i
              PROVE  i = last \/ i < last
          <6>1. k = Len(R) \/ (k = 1 /\ Len(R) = 2)
            BY <5>2
          <6> QED BY <5>2, <5>3, <5>5, <6>1
        <5>6. ASSUME Len(R) = 2, i < R[1].surf
              PROVE  i < last
          BY <2>2, <5>2, <5>3, <5>4, <5>6
        <5> QED BY <2>2, <5>1, <5>4, <5>5, <5>6
      <4> QED BY <4>1
    <3>3. Refs \in SUBSET (1..Len(S))
      BY <1>2
    <3> HIDE DEF Refs
    <3>4. Newest(Refs) \cap gone = {}
      BY <3>1
    <3>5. Newest(Refs) = {last}
      BY <1>1, <2>2, <3>2, <3>3, <3>4, NewestIs
    <3> QED BY <2>7, <3>1, <3>5
  <2> QED BY <2>6, <2>7
<1>8. CASE kind = "B" /\ Len(R) = 2
  <2>1. 1 \in 1..Len(R) /\ 2 \in 1..Len(R)
    BY <1>8
  <2>2. R # <<>>
    BY <2>1
  <2> DEFINE a == R[1].surf
             b == R[2].surf
  <2>3. g = <<a, b>>
    BY <1>8, <2>2 DEF Mpeg2!GetReferences
  <2>4. a \in Nat /\ b \in Nat /\ a # 0 /\ b # 0
    BY <1>4, <2>1
  <2>5. a < b
    BY <1>1, <1>8 DEF RefsOfMpeg2
  <2> SUFFICES ASSUME Wanted(S, x) \cap gone = {}
               PROVE  Wanted(S, x) = {a, b}
    <3> HIDE DEF a, b, g
    <3>1. g \in Nat \X Nat /\ Range(g) = {a, b} /\ g[1] = a /\ g[2] = b
      BY <1>5, <2>3, <2>4
    <3>2. Range(g) \ {0} = {a, b}
      BY <2>4, <3>1
    <3> QED BY <1>8, <2>5, <3>1, <3>2 DEF g
  <2>6. Wanted(S, x) = NewestTwo(Refs)
    BY <1>8 DEF Wanted, IsB
  <2> QED BY <1>8, <2>6, WantsBothOfMpeg2
<1> QED BY <1>6, <1>7, <1>8

\* The order of display is that of DisplayOrder.
LEMMA OrderOfMpeg2 ==
  /\ \A S, i : Mpeg2!Wanted(S, i) = Wanted(S, i) /\ Mpeg2!References(S, i) = References(S, i)
  /\ \A S, list, gone : Mpeg2!Displays(S, list, gone) <=> Displays(S, list, gone)
  /\ \A list : Mpeg2!Range(list) = Range(list) /\ Mpeg2!Last(list) = list[Len(list)]
  /\ \A f : Mpeg2!IsB(f) <=> IsB(f)
<1>1. \A S, i : Mpeg2!References(S, i) = References(S, i)
  BY DEF Mpeg2!References, References, Mpeg2!IsB, IsB
<1>2. \A R : Mpeg2!Newest(R) = Newest(R) /\ Mpeg2!NewestTwo(R) = NewestTwo(R)
  BY DEF Mpeg2!Newest, Newest, Mpeg2!NewestTwo, NewestTwo
<1>3. \A S, i : Mpeg2!Wanted(S, i) = Wanted(S, i)
  BY <1>1, <1>2 DEF Mpeg2!Wanted, Wanted, Mpeg2!IsB, IsB
<1>4. \A S, i, j : Mpeg2!Precedes(S, i, j) <=> Precedes(S, i, j)
  BY <1>1 DEF Mpeg2!Precedes, Precedes, Mpeg2!IsB, IsB
<1>5. \A S, i, gone : Mpeg2!HasPlace(S, i, gone) <=> HasPlace(S, i, gone)
  BY <1>3 DEF Mpeg2!HasPlace, HasPlace, Mpeg2!IsB, IsB
<1>6. \A S, list, gone : Mpeg2!Displays(S, list, gone) <=> Displays(S, list, gone)
  BY <1>4, <1>5 DEF Mpeg2!Displays, Displays
<1>7. \A list : Mpeg2!Range(list) = Range(list) /\ Mpeg2!Last(list) = list[Len(list)]
  BY DEF Mpeg2!Range, Range, Mpeg2!Last
<1>8. \A f : Mpeg2!IsB(f) <=> IsB(f)
  BY DEF Mpeg2!IsB, IsB
<1> QED BY <1>1, <1>3, <1>6, <1>7, <1>8

\* What decodeCurrent() makes of the DPB.
LEMMA DecodeCurrentIs ==
  LET before == cur.field /\ firstField = Mpeg2!None
  IN  /\ cur = Mpeg2!None => Mpeg2!DecodeCurrent = [refs |-> refs, first |-> firstField, shown |-> shown]
      /\ cur # Mpeg2!None /\ before => Mpeg2!DecodeCurrent = [refs |-> refs, first |-> cur, shown |-> shown]
      /\ cur # Mpeg2!None /\ ~before /\ IsB(cur) =>
             Mpeg2!DecodeCurrent = [refs |-> refs, first |-> Mpeg2!None, shown |-> Append(shown, cur.surf)]
      /\ cur # Mpeg2!None /\ ~before /\ ~IsB(cur) =>
             Mpeg2!DecodeCurrent =
                 [refs |-> WithNew(refs, cur), first |-> Mpeg2!None, shown |-> WithLast(refs, shown)]
<1> DEFINE before == cur.field /\ firstField = Mpeg2!None
           d == Mpeg2!Dpb
           none == [d EXCEPT !.first = Mpeg2!None]
<1>1. d = [refs |-> refs, first |-> firstField, shown |-> shown]
  BY DEF Mpeg2!Dpb
<1>2. none = [refs |-> refs, first |-> Mpeg2!None, shown |-> shown]
  BY <1>1
<1>3. cur # Mpeg2!None =>
          Mpeg2!DecodeCurrent = IF before THEN [d EXCEPT !.first = cur] ELSE Mpeg2!AddNewFrame(none, cur)
  BY DEF Mpeg2!DecodeCurrent, Mpeg2!Add, Mpeg2!Dpb
<1>4. cur = Mpeg2!None => Mpeg2!DecodeCurrent = d
  BY DEF Mpeg2!DecodeCurrent
<1>5. [d EXCEPT !.first = cur] = [refs |-> refs, first |-> cur, shown |-> shown]
  BY <1>1
<1> HIDE DEF d, none, before
<1>6. ASSUME IsB(cur)
      PROVE  Mpeg2!AddNewFrame(none, cur) = [refs |-> refs, first |-> Mpeg2!None, shown |-> Append(shown, cur.surf)]
  <2>1. Mpeg2!AddNewFrame(none, cur) = [none EXCEPT !.shown = Append(@, cur.surf)]
    BY <1>6, OrderOfMpeg2 DEF Mpeg2!AddNewFrame
  <2> QED BY <1>2, <2>1
<1>7. ASSUME ~IsB(cur)
      PROVE  Mpeg2!AddNewFrame(none, cur) =
                 [refs |-> WithNew(refs, cur), first |-> Mpeg2!None, shown |-> WithLast(refs, shown)]
  <2>1. Mpeg2!AddNewFrame(none, cur)
            = [Mpeg2!ShowLast(none) EXCEPT !.refs = Append(IF Len(@) = 2 THEN Tail(@) ELSE @, cur)]
    BY <1>7, OrderOfMpeg2 DEF Mpeg2!AddNewFrame
  <2>2. Mpeg2!ShowLast(none) = [refs |-> refs, first |-> Mpeg2!None, shown |-> WithLast(refs, shown)]
    <3>1. Mpeg2!ShowLast(none) = IF refs = <<>> THEN none ELSE [none EXCEPT !.shown = Append(@, refs[Len(refs)].surf)]
      BY <1>2, OrderOfMpeg2 DEF Mpeg2!ShowLast
    <3> QED BY <1>2, <3>1 DEF WithLast
  <2> QED BY <2>1, <2>2 DEF WithNew
<1> QED BY <1>1, <1>3, <1>4, <1>5, <1>6, <1>7 DEF before

\* A flush of the DPB.
LEMMA FlushDpbIs ==
  ASSUME NEW R, NEW first, NEW list
  PROVE  Mpeg2!FlushDpb([refs |-> R, first |-> first, shown |-> list])
             = [refs |-> <<>>, first |-> Mpeg2!None, shown |-> WithLast(R, list)]
<1> DEFINE d == [refs |-> R, first |-> first, shown |-> list]
<1>1. Mpeg2!ShowLast(d) = [refs |-> R, first |-> first, shown |-> WithLast(R, list)]
  <2>1. Mpeg2!ShowLast(d) = IF R = <<>> THEN d ELSE [d EXCEPT !.shown = Append(@, R[Len(R)].surf)]
    BY OrderOfMpeg2 DEF Mpeg2!ShowLast
  <2> QED BY <2>1 DEF WithLast
<1> HIDE DEF d
<1>2. Mpeg2!FlushDpb(d) = [Mpeg2!ShowLast(d) EXCEPT !.refs = <<>>, !.first = Mpeg2!None]
  BY DEF Mpeg2!FlushDpb
<1>3. ASSUME NEW a, NEW b, NEW c, NEW none
      PROVE  [[refs |-> a, first |-> b, shown |-> c] EXCEPT !.refs = <<>>, !.first = none]
                 = [refs |-> <<>>, first |-> none, shown |-> c]
  <2>1. \A w, v : [[refs |-> a, first |-> b, shown |-> c] EXCEPT !.refs = w] = [refs |-> w, first |-> b, shown |-> c]
                  /\ [[refs |-> a, first |-> b, shown |-> c] EXCEPT !.first = v] = [refs |-> a, first |-> v, shown |-> c]
    OBVIOUS
  <2>2. \A r, w, v : [r EXCEPT !.refs = w, !.first = v] = [[r EXCEPT !.refs = w] EXCEPT !.first = v]
    OBVIOUS
  <2>3. [[refs |-> <<>>, first |-> b, shown |-> c] EXCEPT !.first = none] = [refs |-> <<>>, first |-> none, shown |-> c]
    OBVIOUS
  <2> QED BY <2>1, <2>2, <2>3, Zenon
<1>4. Mpeg2!FlushDpb(d)
          = [[refs |-> R, first |-> first, shown |-> WithLast(R, list)] EXCEPT !.refs = <<>>, !.first = Mpeg2!None]
  BY <1>1, <1>2, Zenon
<1> QED BY <1>3, <1>4, Zenon DEF d

\* What the invariant says of the stream, and of the frame that is being decoded.
LEMMA CurrentOfMpeg2 ==
  ASSUME InvOfMpeg2
  PROVE  /\ cur = Mpeg2!None => cur.surf = 0 /\ firstField = Mpeg2!None
         /\ cur # Mpeg2!None => /\ CurrentOf(stream.sent, stream.part, cur) /\ cur.surf # 0
                                /\ IsB(stream.sent[cur.surf]) <=> IsB(cur)
                                /\ firstField # Mpeg2!None => cur.field
         /\ stream.part \in Nat /\ stream.sent \in Seq(Frame)
<1>1. cur = Mpeg2!None => cur.surf = 0
  BY DEF Mpeg2!None
<1>2. cur = Mpeg2!None => firstField = Mpeg2!None
  BY DEF InvOfMpeg2
<1>3. stream.part \in Nat /\ stream.sent \in Seq(Frame)
  BY DEF InvOfMpeg2, StreamType
<1> SUFFICES ASSUME cur # Mpeg2!None
             PROVE  /\ CurrentOf(stream.sent, stream.part, cur) /\ cur.surf # 0
                    /\ IsB(stream.sent[cur.surf]) <=> IsB(cur)
                    /\ firstField # Mpeg2!None => cur.field
  BY <1>1, <1>2, <1>3
<1>4. CurrentOf(stream.sent, stream.part, cur)
  BY DEF InvOfMpeg2
<1>5. cur.surf \in 1..Len(stream.sent) /\ stream.sent[cur.surf].kind = cur.kind
  BY <1>4 DEF CurrentOf
<1>6. cur.surf # 0
  BY <1>5
<1>7. IsB(stream.sent[cur.surf]) <=> IsB(cur)
  BY <1>5 DEF IsB
<1>8. firstField # Mpeg2!None => cur.field
  BY DEF InvOfMpeg2
<1> QED BY <1>4, <1>6, <1>7, <1>8

\* A whole frame is decoded: it goes to the DPB.
LEMMA DecodesWhole ==
  ASSUME InvOfMpeg2, Mpeg2!WholeFrame
  PROVE  \E R, list : /\ Mpeg2!DecodeCurrent = [refs |-> R, first |-> Mpeg2!None, shown |-> list]
                      /\ DpbOfMpeg2(stream.sent, stream.part, R, list, lost, 0)
<1>1. DpbOfMpeg2(stream.sent, stream.part, refs, shown, lost, cur.surf)
  BY DEF InvOfMpeg2
<1>2. CASE cur = Mpeg2!None
  <2>1. cur.surf = 0 /\ firstField = Mpeg2!None
    BY <1>2, CurrentOfMpeg2
  <2>2. Mpeg2!DecodeCurrent = [refs |-> refs, first |-> Mpeg2!None, shown |-> shown]
    BY <1>2, <2>1, DecodeCurrentIs
  <2>3. DpbOfMpeg2(stream.sent, stream.part, refs, shown, lost, 0)
    BY <1>1, <2>1
  <2> QED BY <2>2, <2>3
<1>3. CASE cur # Mpeg2!None
  <2>1. ~(cur.field /\ firstField = Mpeg2!None)
    BY <1>3 DEF Mpeg2!WholeFrame
  <2>2. CurrentOf(stream.sent, stream.part, cur) /\ cur.surf # 0 /\ (IsB(stream.sent[cur.surf]) <=> IsB(cur))
    BY <1>3, CurrentOfMpeg2
  <2>3. cur \in PictureType /\ cur.surf = cur.id /\ (IsB(cur) => \E r, s \in References(stream.sent, cur.surf) : r < s)
    BY <2>2 DEF CurrentOf, IsB
  <2>4. CASE IsB(cur)
    <3>1. Mpeg2!DecodeCurrent = [refs |-> refs, first |-> Mpeg2!None, shown |-> Append(shown, cur.surf)]
      BY <1>3, <2>1, <2>4, DecodeCurrentIs
    <3>2. DpbOfMpeg2(stream.sent, stream.part, refs, Append(shown, cur.surf), lost, 0)
      BY <1>1, <2>2, <2>3, <2>4, AddsB
    <3> QED BY <3>1, <3>2
  <2>5. CASE ~IsB(cur)
    <3>1. Mpeg2!DecodeCurrent = [refs |-> WithNew(refs, cur), first |-> Mpeg2!None, shown |-> WithLast(refs, shown)]
      BY <1>3, <2>1, <2>5, DecodeCurrentIs
    <3>2. DpbOfMpeg2(stream.sent, stream.part, WithNew(refs, cur), WithLast(refs, shown), lost, 0)
      BY <1>1, <2>2, <2>3, <2>5, AddsReference
    <3> QED BY <3>1, <3>2
  <2> QED BY <2>4, <2>5
<1> QED BY <1>2, <1>3

\* A frame may be sent: what it is predicted from is there.
LEMMA MaySendMpeg2 ==
  ASSUME InvOfMpeg2, Hard = {}, NEW kind \in {"I", "P", "B"}, Mpeg2!MaySend(kind),
         NEW f, f = [part |-> stream.part, kind |-> kind]
  PROVE  /\ f \in Frame /\ f.part = stream.part /\ f.kind = kind
         /\ kind # "I" => References(Append(stream.sent, f), Len(stream.sent) + 1) # {}
         /\ kind = "B" => \E r, s \in References(Append(stream.sent, f), Len(stream.sent) + 1) : r < s
         /\ \E i \in 1..(Len(stream.sent) + 1) :
                Append(stream.sent, f)[i].part = stream.part /\ ~IsB(Append(stream.sent, f)[i])
<1> DEFINE S == stream.sent
           n == Len(S)
           T == Append(S, f)
           g == [part |-> stream.part]
           Refs == References(T, n + 1)
<1>1. stream.part \in Nat /\ S \in Seq(Frame)
  BY CurrentOfMpeg2
<1>2. f \in Frame /\ f.part = stream.part /\ f.kind = kind
  BY <1>1 DEF Frame, Kinds
<1>3. n \in Nat /\ T[n + 1] = f /\ \A i \in 1..n : T[i] = S[i]
  BY <1>1, <1>2
<1>4. Refs = {i \in 1..n : S[i].part = stream.part /\ ~IsB(S[i])}
  BY <1>2, <1>3 DEF References
<1>5. References(Append(S, g), n + 1) = Refs
  <2>1. S \in Seq(Frame \cup {g}) /\ g \in Frame \cup {g}
    BY <1>1, SeqMonotonic
  <2>2. Append(S, g)[n + 1] = g /\ \A i \in 1..n : Append(S, g)[i] = S[i]
    BY <2>1
  <2>3. g.part = stream.part
    OBVIOUS
  <2> QED BY <1>3, <1>4, <2>2, <2>3 DEF References
<1>6. /\ kind = "P" => ~stream.restart
      /\ kind = "B" => ~stream.restart /\ \E r, s \in Refs : r < s
  BY <1>5, OrderOfMpeg2 DEF Mpeg2!MaySend, Mpeg2!NextId
<1>7. kind # "I" => Refs # {}
  <2>1. ~stream.restart => \E i \in 1..n : S[i].part = stream.part /\ ~IsB(S[i])
    BY DEF InvOfMpeg2
  <2> QED BY <1>4, <1>6, <2>1
<1>8. \E i \in 1..(n + 1) : T[i].part = stream.part /\ ~IsB(T[i])
  <2>1. CASE kind = "I"
    <3>1. n + 1 \in 1..(n + 1)
      BY <1>3
    <3> QED BY <1>2, <1>3, <2>1, <3>1 DEF IsB
  <2>2. CASE kind # "I"
    <3>1. PICK r \in Refs : TRUE
      BY <1>7, <2>2
    <3>2. r \in 1..n /\ S[r].part = stream.part /\ ~IsB(S[r])
      BY <1>4, <3>1
    <3>3. r \in 1..(n + 1)
      BY <1>3, <3>2
    <3> QED BY <1>3, <3>2, <3>3
  <2> QED BY <2>1, <2>2
<1> QED BY <1>2, <1>6, <1>7, <1>8

\* A step that leaves no picture being decoded.
LEMMA NoneIsDecoded ==
  ASSUME stream' \in StreamType, cur' = Mpeg2!None, firstField' = Mpeg2!None,
         DpbOfMpeg2(stream'.sent, stream'.part, refs', shown', lost', 0),
         ~stream'.restart => \E i \in 1..Len(stream'.sent) : stream'.sent[i].part = stream'.part /\ ~IsB(stream'.sent[i])
  PROVE  InvOfMpeg2'
<1>1. cur'.surf = 0
  BY DEF Mpeg2!None
<1>2. Mpeg2!ReferencesAreTrue'
  BY DEF Mpeg2!ReferencesAreTrue, Mpeg2!None
<1> QED BY <1>1, <1>2 DEF InvOfMpeg2, Mpeg2!None

\* A step that begins a picture of the last frame.
LEMMA OneIsDecoded ==
  ASSUME stream' \in StreamType, NEW x, x # 0, NEW kind \in Kinds, NEW field \in BOOLEAN,
         cur' = [surf |-> x, id |-> x, kind |-> kind, field |-> field, refs |-> Mpeg2!GetReferences(kind, refs')],
         firstField' = Mpeg2!None \/ (field /\ firstField' \in PictureType /\ firstField'.surf = x),
         DpbOfMpeg2(stream'.sent, stream'.part, refs', shown', lost', x),
         stream'.sent[x] = [part |-> stream'.part, kind |-> kind],
         kind # "I" => References(stream'.sent, x) # {},
         kind = "B" => \E r, s \in References(stream'.sent, x) : r < s,
         ~stream'.restart => \E i \in 1..Len(stream'.sent) : stream'.sent[i].part = stream'.part /\ ~IsB(stream'.sent[i])
  PROVE  InvOfMpeg2'
<1> DEFINE S == stream'.sent
           g == Mpeg2!GetReferences(kind, refs')
<1>1. x \in 1..Len(S) /\ x = Len(S) /\ x \in Nat
  BY DEF DpbOfMpeg2
<1>2. S[x].kind = kind
  OBVIOUS
<1>3. /\ g \in Nat \X Nat
      /\ Wanted(S, x) \cap lost' = {} =>
             /\ Range(g) \ {0} = Wanted(S, x)
             /\ IF kind = "B" THEN g[1] < g[2] ELSE g[2] = 0
  BY <1>2, GetsReferences
<1> HIDE DEF g
<1>4. cur'.surf = x /\ cur'.id = x /\ cur'.kind = kind /\ (cur'.field <=> field) /\ cur'.refs = g
  BY DEF g
<1>5. cur' \in PictureType
  <2>1. cur' = [surf |-> x, id |-> x, kind |-> kind, field |-> field, refs |-> g]
    BY DEF g
  <2> QED BY <1>1, <1>3, <2>1 DEF PictureType
<1>6. cur' # Mpeg2!None
  BY <1>4 DEF Mpeg2!None
<1>7. CurrentOf(S, stream'.part, cur')
  BY <1>1, <1>4, <1>5 DEF CurrentOf
<1>8. Mpeg2!ReferencesAreTrue'
  BY <1>3, <1>4, OrderOfMpeg2 DEF Mpeg2!ReferencesAreTrue
<1>9. (firstField = Mpeg2!None \/ (cur # Mpeg2!None /\ cur.field /\ firstField \in PictureType /\ firstField.surf = cur.surf))'
  <2>1. CASE firstField' = Mpeg2!None
    BY <2>1 DEF Mpeg2!None
  <2>2. CASE field /\ firstField' \in PictureType /\ firstField'.surf = x
    BY <1>4, <1>6, <2>2 DEF Mpeg2!None
  <2> QED BY <2>1, <2>2
<1> QED BY <1>4, <1>7, <1>8, <1>9 DEF InvOfMpeg2

\* The client sends a frame, or its first field.
LEMMA SendFrameMpeg2 ==
  ASSUME InvOfMpeg2, Hard = {}, Mpeg2!SendFrame
  PROVE  InvOfMpeg2'
<1>1. PICK kind \in {"I", "P", "B"}, field \in BOOLEAN :
        /\ Mpeg2!WholeFrame /\ Mpeg2!MaySend(kind)
        /\ stream' = [stream EXCEPT !.sent = Append(@, [part |-> stream.part, kind |-> kind]), !.restart = FALSE]
        /\ \/ Mpeg2!BeginPicture(Mpeg2!NextId, kind, field) /\ UNCHANGED <<lost, special>>
           \/ Mpeg2!RefusePicture /\ lost' = lost \union {cur.id, Mpeg2!NextId}
  BY DEF Mpeg2!SendFrame
<1> DEFINE S == stream.sent
           f == [part |-> stream.part, kind |-> kind]
           T == Append(S, f)
           x == Len(S) + 1
<1>2. stream.part \in Nat /\ S \in Seq(Frame) /\ stream \in StreamType
  BY CurrentOfMpeg2 DEF InvOfMpeg2
<1>3. /\ f \in Frame /\ f.part = stream.part /\ f.kind = kind
      /\ kind # "I" => References(T, x) # {}
      /\ kind = "B" => \E r, s \in References(T, x) : r < s
      /\ \E i \in 1..x : T[i].part = stream.part /\ ~IsB(T[i])
  BY <1>1, MaySendMpeg2
<1> HIDE DEF f
<1>4. x \in Nat /\ x # 0 /\ Len(T) = x /\ T[x] = f /\ T \in Seq(Frame)
  BY <1>2, <1>3
<1> HIDE DEF T, S, x
<1>5. stream' = [sent |-> T, part |-> stream.part, restart |-> FALSE]
  BY <1>1, <1>2 DEF StreamType, T, S, f
<1>6. stream' \in StreamType /\ stream'.sent = T /\ stream'.part = stream.part
  BY <1>2, <1>4, <1>5 DEF StreamType
<1>7. \E i \in 1..Len(stream'.sent) : stream'.sent[i].part = stream'.part /\ ~IsB(stream'.sent[i])
  BY <1>3, <1>4, <1>6
<1>8. Mpeg2!NextId = x
  BY DEF Mpeg2!NextId, x, S
<1>9. CASE Mpeg2!BeginPicture(Mpeg2!NextId, kind, field) /\ UNCHANGED <<lost, special>>
  <2>1. PICK R, list : /\ Mpeg2!DecodeCurrent = [refs |-> R, first |-> Mpeg2!None, shown |-> list]
                       /\ DpbOfMpeg2(S, stream.part, R, list, lost, 0)
    BY <1>1, DecodesWhole DEF S
  <2>2. refs' = R /\ firstField' = Mpeg2!None /\ shown' = list /\ lost' = lost
    BY <1>9, <2>1 DEF Mpeg2!BeginPicture, Mpeg2!SetDpb
  <2>3. cur' = [surf |-> x, id |-> x, kind |-> kind, field |-> field, refs |-> Mpeg2!GetReferences(kind, refs')]
    BY <1>8, <1>9, <2>2 DEF Mpeg2!BeginPicture
  <2>4. DpbOfMpeg2(T, stream.part, refs', shown', lost', x)
    BY <1>3, <2>1, <2>2, SendsMpeg2 DEF T, x
  <2>5. kind \in Kinds /\ T[x] = [part |-> stream.part, kind |-> kind]
    BY <1>4 DEF Kinds, f
  <2> QED BY <1>3, <1>4, <1>6, <1>7, <2>2, <2>3, <2>4, <2>5, OneIsDecoded
<1>10. CASE Mpeg2!RefusePicture /\ lost' = lost \union {cur.id, Mpeg2!NextId}
  <2>1. cur # Mpeg2!None /\ cur' = Mpeg2!None /\ refs' = refs /\ firstField' = firstField /\ shown' = shown
        /\ ~(cur.field /\ firstField # Mpeg2!None)
    BY <1>10 DEF Mpeg2!RefusePicture
  <2>2. CurrentOf(S, stream.part, cur) /\ cur.surf # 0 /\ (firstField # Mpeg2!None => cur.field)
    BY <2>1, CurrentOfMpeg2 DEF S
  <2>3. firstField' = Mpeg2!None /\ cur.id = cur.surf
    BY <2>1, <2>2 DEF CurrentOf
  <2>4. DpbOfMpeg2(S, stream.part, refs, shown, lost, cur.surf)
    BY DEF InvOfMpeg2, S
  <2>5. DpbOfMpeg2(S, stream.part, refs, shown, lost \cup {cur.surf}, 0)
    BY <2>2, <2>4, LosesPending
  <2>6. DpbOfMpeg2(T, stream.part, refs, shown, lost \cup {cur.surf}, x)
    BY <1>3, <2>5, SendsMpeg2 DEF T, x
  <2>7. DpbOfMpeg2(T, stream.part, refs, shown, (lost \cup {cur.surf}) \cup {x}, 0)
    BY <1>4, <2>6, LosesPending
  <2>8. lost' = (lost \cup {cur.surf}) \cup {x}
    BY <1>8, <1>10, <2>3
  <2>9. DpbOfMpeg2(T, stream.part, refs', shown', lost', 0)
    BY <2>1, <2>7, <2>8
  <2> QED BY <1>6, <1>7, <2>1, <2>3, <2>9, NoneIsDecoded
<1> QED BY <1>1, <1>9, <1>10

\* The client sends the second field.
LEMMA SendSecondFieldMpeg2 ==
  ASSUME InvOfMpeg2, Hard = {}, Mpeg2!SendSecondField
  PROVE  InvOfMpeg2'
<1> DEFINE S == stream.sent
<1>1. cur # Mpeg2!None /\ cur.field /\ firstField = Mpeg2!None /\ stream' = stream
  BY DEF Mpeg2!SendSecondField, Mpeg2!WholeFrame
<1>2. CurrentOf(S, stream.part, cur) /\ cur.surf # 0 /\ stream \in StreamType
      /\ DpbOfMpeg2(S, stream.part, refs, shown, lost, cur.surf)
      /\ (~stream.restart => \E i \in 1..Len(S) : S[i].part = stream.part /\ ~IsB(S[i]))
  BY <1>1, CurrentOfMpeg2 DEF InvOfMpeg2
<1> HIDE DEF S
<1>3. cur.surf = cur.id /\ cur \in PictureType /\ cur.kind \in Kinds
      /\ S[cur.surf] = [part |-> stream.part, kind |-> cur.kind]
      /\ (cur.kind # "I" => References(S, cur.surf) # {})
      /\ (cur.kind = "B" => \E r, s \in References(S, cur.surf) : r < s)
  BY <1>2 DEF CurrentOf, PictureType
<1>4. CASE Mpeg2!BeginPicture(cur.id, cur.kind, TRUE) /\ UNCHANGED <<lost, special>>
  <2>1. Mpeg2!DecodeCurrent = [refs |-> refs, first |-> cur, shown |-> shown]
    BY <1>1, DecodeCurrentIs
  <2>2. refs' = refs /\ firstField' = cur /\ shown' = shown /\ lost' = lost
    BY <1>4, <2>1 DEF Mpeg2!BeginPicture, Mpeg2!SetDpb
  <2> DEFINE x == cur.surf
             kind == cur.kind
  <2>3. cur' = [surf |-> x, id |-> x, kind |-> kind, field |-> TRUE, refs |-> Mpeg2!GetReferences(kind, refs')]
    <3>1. firstField' # Mpeg2!None /\ firstField'.surf = x /\ cur.id = x
      BY <1>1, <1>3, <2>2
    <3> QED BY <1>4, <3>1 DEF Mpeg2!BeginPicture
  <2>4. stream'.sent = S /\ stream'.part = stream.part /\ stream'.restart = stream.restart /\ stream' \in StreamType
    BY <1>1, <1>2 DEF S
  <2>5. DpbOfMpeg2(stream'.sent, stream'.part, refs', shown', lost', x)
    BY <1>2, <2>2, <2>4
  <2>6. x # 0 /\ kind \in Kinds /\ TRUE \in BOOLEAN /\ firstField' \in PictureType /\ firstField'.surf = x
        /\ stream'.sent[x] = [part |-> stream'.part, kind |-> kind]
    BY <1>2, <1>3, <2>2, <2>4
  <2>7. /\ kind # "I" => References(stream'.sent, x) # {}
        /\ kind = "B" => \E r, s \in References(stream'.sent, x) : r < s
        /\ ~stream'.restart => \E i \in 1..Len(stream'.sent) : stream'.sent[i].part = stream'.part /\ ~IsB(stream'.sent[i])
    BY <1>2, <1>3, <2>4
  <2> HIDE DEF x, kind
  <2> QED BY <2>3, <2>4, <2>5, <2>6, <2>7, OneIsDecoded
<1>5. CASE Mpeg2!RefusePicture /\ lost' = lost \union {cur.id}
  <2>1. cur' = Mpeg2!None /\ refs' = refs /\ firstField' = Mpeg2!None /\ shown' = shown
    BY <1>1, <1>5 DEF Mpeg2!RefusePicture
  <2>2. DpbOfMpeg2(S, stream.part, refs, shown, lost \cup {cur.surf}, 0)
    BY <1>2, LosesPending
  <2>3. lost' = lost \cup {cur.surf}
    BY <1>3, <1>5
  <2>4. DpbOfMpeg2(stream'.sent, stream'.part, refs', shown', lost', 0)
    BY <1>1, <2>1, <2>2, <2>3 DEF S
  <2>5. stream' \in StreamType
        /\ (~stream'.restart => \E i \in 1..Len(stream'.sent) : stream'.sent[i].part = stream'.part /\ ~IsB(stream'.sent[i]))
    BY <1>1, <1>2 DEF S
  <2> QED BY <2>1, <2>4, <2>5, NoneIsDecoded
<1> QED BY <1>4, <1>5 DEF Mpeg2!SendSecondField

\* Another NAL unit.
LEMMA OtherUnitMpeg2 ==
  ASSUME InvOfMpeg2, Mpeg2!OtherUnit
  PROVE  InvOfMpeg2'
<1>1. PICK R, list : /\ Mpeg2!DecodeCurrent = [refs |-> R, first |-> Mpeg2!None, shown |-> list]
                     /\ DpbOfMpeg2(stream.sent, stream.part, R, list, lost, 0)
  BY DecodesWhole DEF Mpeg2!OtherUnit
<1>2. refs' = R /\ firstField' = Mpeg2!None /\ shown' = list /\ lost' = lost /\ stream' = stream /\ cur' = Mpeg2!None
  BY <1>1 DEF Mpeg2!OtherUnit, Mpeg2!SetDpb
<1>3. stream' \in StreamType
      /\ (~stream'.restart => \E i \in 1..Len(stream'.sent) : stream'.sent[i].part = stream'.part /\ ~IsB(stream'.sent[i]))
  BY <1>2 DEF InvOfMpeg2
<1>4. DpbOfMpeg2(stream'.sent, stream'.part, refs', shown', lost', 0)
  BY <1>1, <1>2
<1> QED BY <1>2, <1>3, <1>4, NoneIsDecoded

\* The DPB is flushed, and the stream goes on with another part.
LEMMA NewPartMpeg2 ==
  ASSUME InvOfMpeg2, NEW R, NEW first, NEW list, NEW gone, DpbOfMpeg2(stream.sent, stream.part, R, list, gone, 0),
         Mpeg2!SetDpb(Mpeg2!FlushDpb([refs |-> R, first |-> first, shown |-> list])), lost' = gone,
         Mpeg2!NewPart, cur' = Mpeg2!None
  PROVE  InvOfMpeg2'
<1>1. refs' = <<>> /\ firstField' = Mpeg2!None /\ shown' = WithLast(R, list)
  <2> DEFINE d == [refs |-> <<>>, first |-> Mpeg2!None, shown |-> WithLast(R, list)]
  <2>1. Mpeg2!FlushDpb([refs |-> R, first |-> first, shown |-> list]) = d
    BY FlushDpbIs
  <2>2. Mpeg2!SetDpb(d)
    BY <2>1
  <2>3. d.refs = <<>> /\ d.first = Mpeg2!None /\ d.shown = WithLast(R, list)
    OBVIOUS
  <2> HIDE DEF d
  <2> QED BY <2>2, <2>3 DEF Mpeg2!SetDpb
<1>2. stream \in StreamType
  BY DEF InvOfMpeg2
<1>3. stream' = [sent |-> stream.sent, part |-> stream.part + 1, restart |-> TRUE]
  BY <1>2 DEF Mpeg2!NewPart, StreamType
<1>4. stream' \in StreamType /\ stream'.sent = stream.sent /\ stream'.part = stream.part + 1 /\ stream'.restart
  BY <1>2, <1>3 DEF StreamType
<1>5. DpbOfMpeg2(stream'.sent, stream'.part, refs', shown', lost', 0)
  BY <1>1, <1>4, FlushesMpeg2
<1> QED BY <1>1, <1>4, <1>5, NoneIsDecoded

\* A GOP breaks the link, or the client flushes.
LEMMA FlushMpeg2 ==
  ASSUME InvOfMpeg2, Mpeg2!BreakLink \/ Mpeg2!Flush
  PROVE  InvOfMpeg2'
<1> DEFINE S == stream.sent
<1>1. DpbOfMpeg2(S, stream.part, refs, shown, lost, cur.surf)
  BY DEF InvOfMpeg2
<1>2. Mpeg2!NewPart /\ cur' = Mpeg2!None
  BY DEF Mpeg2!BreakLink, Mpeg2!Flush
<1>3. CASE Mpeg2!WholeFrame /\ Mpeg2!SetDpb(Mpeg2!FlushDpb(Mpeg2!DecodeCurrent)) /\ lost' = lost
  <2>1. PICK R, list : /\ Mpeg2!DecodeCurrent = [refs |-> R, first |-> Mpeg2!None, shown |-> list]
                       /\ DpbOfMpeg2(S, stream.part, R, list, lost, 0)
    BY <1>3, DecodesWhole
  <2> QED BY <1>2, <1>3, <2>1, NewPartMpeg2
<1>4. CASE cur # Mpeg2!None /\ (\E first : Mpeg2!SetDpb(Mpeg2!FlushDpb([refs |-> refs, first |-> first, shown |-> shown])))
           /\ lost' = lost \cup {cur.id}
  <2>1. CurrentOf(S, stream.part, cur) /\ cur.surf # 0
    BY <1>4, CurrentOfMpeg2
  <2>2. cur.id = cur.surf
    BY <2>1 DEF CurrentOf
  <2>3. DpbOfMpeg2(S, stream.part, refs, shown, lost \cup {cur.surf}, 0)
    BY <1>1, <2>1, LosesPending
  <2>4. PICK first : Mpeg2!SetDpb(Mpeg2!FlushDpb([refs |-> refs, first |-> first, shown |-> shown]))
    BY <1>4
  <2> QED BY <1>2, <1>4, <2>2, <2>3, <2>4, NewPartMpeg2
<1>5. CASE Mpeg2!BreakLink
  BY <1>3, <1>5 DEF Mpeg2!BreakLink
<1>6. CASE Mpeg2!Flush
  <2>1. CASE Mpeg2!SetDpb(Mpeg2!FlushDpb(Mpeg2!DecodeCurrent))
             /\ lost' = IF Mpeg2!WholeFrame THEN lost ELSE lost \union {cur.id}
    <3>1. CASE Mpeg2!WholeFrame
      BY <1>3, <2>1, <3>1
    <3>2. CASE ~Mpeg2!WholeFrame
      <4>1. cur # Mpeg2!None /\ cur.field /\ firstField = Mpeg2!None
        BY <3>2 DEF Mpeg2!WholeFrame
      <4>2. Mpeg2!DecodeCurrent = [refs |-> refs, first |-> cur, shown |-> shown]
        BY <4>1, DecodeCurrentIs
      <4> QED BY <1>4, <2>1, <3>2, <4>1, <4>2
    <3> QED BY <3>1, <3>2
  <2>2. CASE cur # Mpeg2!None /\ Mpeg2!SetDpb(Mpeg2!FlushDpb(Mpeg2!Dpb)) /\ lost' = lost \union {cur.id}
    BY <1>4, <2>2 DEF Mpeg2!Dpb
  <2> QED BY <1>6, <2>1, <2>2 DEF Mpeg2!Flush
<1> QED BY <1>5, <1>6

\* At first nothing was sent.
LEMMA InitMpeg2 ==
  ASSUME Mpeg2!Init
  PROVE  InvOfMpeg2
<1>1. refs = <<>> /\ shown = <<>> /\ stream = [sent |-> <<>>, part |-> 1, restart |-> TRUE] /\ lost = {}
      /\ firstField = Mpeg2!None /\ cur = Mpeg2!None
  BY DEF Mpeg2!Init
<1>2. stream \in StreamType /\ stream.sent = <<>> /\ stream.part = 1 /\ stream.restart
  BY <1>1 DEF StreamType
<1>3. <<>> \in Seq(Frame) /\ <<>> \in Seq(PictureType) /\ <<>> \in Seq(Nat) /\ Len(<<>>) = 0 /\ 1..0 = {} /\ DOMAIN <<>> = {}
  OBVIOUS
<1>4. DpbOfMpeg2(<<>>, 1, <<>>, <<>>, {}, 0)
  BY <1>3 DEF DpbOfMpeg2, RefsOfMpeg2, CompleteRefs, AllButLast, InPlace, ListOK, Displays, Behind, Range
<1>5. cur.surf = 0
  BY <1>1 DEF Mpeg2!None
<1>6. Mpeg2!ReferencesAreTrue
  BY <1>1 DEF Mpeg2!ReferencesAreTrue
<1> QED BY <1>1, <1>2, <1>4, <1>5, <1>6 DEF InvOfMpeg2

\* The invariant holds of the decoder, over frames and field pairs, refused pictures, broken links and seeks.
THEOREM Mpeg2Invariant ==
  ASSUME Hard = {}
  PROVE  Mpeg2!Spec => []InvOfMpeg2
<1>1. ASSUME InvOfMpeg2, UNCHANGED Mpeg2!vars
      PROVE  InvOfMpeg2'
  BY <1>1 DEF InvOfMpeg2, Mpeg2!vars, Mpeg2!ReferencesAreTrue
<1>2. InvOfMpeg2 /\ [Mpeg2!Next]_Mpeg2!vars => InvOfMpeg2'
  BY <1>1, SendFrameMpeg2, SendSecondFieldMpeg2, OtherUnitMpeg2, FlushMpeg2 DEF Mpeg2!Next
<1> QED BY <1>2, InitMpeg2, PTL DEF Mpeg2!Spec

\* Frames leave in the order of display and each at most once, none is lost, and each picture is
\* decoded from the frames it was encoded from, into the surface of its frame.
THEOREM Mpeg2Correct ==
  ASSUME Hard = {}
  PROVE  Mpeg2!Spec => [](Mpeg2!OutputInOrder /\ Mpeg2!NoPictureLost /\ Mpeg2!ReferencesAreTrue)
<1>1. ASSUME InvOfMpeg2
      PROVE  Mpeg2!NoPictureLost
  <2>1. DpbOfMpeg2(stream.sent, stream.part, refs, shown, lost, cur.surf)
    BY <1>1 DEF InvOfMpeg2
  <2>2. DOMAIN stream.sent = 1..Len(stream.sent)
        /\ \A i \in 1..Len(stream.sent) : i \notin lost /\ i # cur.surf => (i \in Range(shown) <=> i # LastSurf(refs))
    BY <2>1 DEF DpbOfMpeg2, AllButLast
  <2>3. \A i \in 1..Len(stream.sent) : i = LastSurf(refs) <=> (refs # <<>> /\ i = refs[Len(refs)].surf)
    BY DEF LastSurf
  <2> QED BY <2>2, <2>3, OrderOfMpeg2 DEF Mpeg2!NoPictureLost
<1>2. InvOfMpeg2 => Mpeg2!OutputInOrder /\ Mpeg2!ReferencesAreTrue
  BY OrderOfMpeg2 DEF InvOfMpeg2, DpbOfMpeg2, InPlace, Mpeg2!OutputInOrder
<1> QED BY <1>1, <1>2, Mpeg2Invariant, PTL
=============================================================================
