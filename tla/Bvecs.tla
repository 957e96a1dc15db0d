------------------------------- MODULE Bvecs --------------------------------
(***************************************************************************)
(* The segments of a bio: the lengths, in bytes, of the pieces of memory   *)
(* that the block layer hands to a RAM disk, which moves them in turn.     *)
(***************************************************************************)
EXTENDS Naturals, Sequences, Functions, TLAPS

CONSTANT SectorSize  \* bytes in a sector (512)

ASSUME SectorAssumption == SectorSize \in Nat \ {0}

\* The bvecs of the bios considered: one sector, two, and two in two pieces.
Segments == {<<SectorSize>>, <<2 * SectorSize>>, <<SectorSize, SectorSize>>}
Total(segs) == FoldFunction(LAMBDA x, y : x + y, 0, segs)

-----------------------------------------------------------------------------
(* The sum of the lengths goes down by that of the first segment. *)

\* The fold that adds up the segments, on the two lengths that occur.
LEMMA FoldUnfolds ==
  ASSUME NEW segs
  PROVE  Total(segs) =
           (CHOOSE g : g = [s \in SUBSET DOMAIN segs |->
              IF s = {} THEN 0
              ELSE segs[CHOOSE x \in s : TRUE] + g[s \ {CHOOSE x \in s : TRUE}]])[DOMAIN segs]
BY DEF Total, FoldFunction, FoldFunctionOnSet, MapThenFoldSet

LEMMA TotalNone == Total(<<>>) = 0
<1>. DEFINE segs == <<>>
            pick(s) == CHOOSE x \in s : TRUE
            Rec(g) == g = [s \in SUBSET {} |->
                             IF s = {} THEN 0 ELSE segs[pick(s)] + g[s \ {pick(s)}]]
            sums == [s \in SUBSET {} |-> 0]
<1>1. DOMAIN segs = {}
  OBVIOUS
<1>2. Rec(sums)
  <2>. HIDE DEF segs, pick
  <2>. QED  OBVIOUS
<1>3. ASSUME NEW g, Rec(g) PROVE g[{}] = 0
  <2>. HIDE DEF segs, pick
  <2>. QED  BY <1>3
<1>4. (CHOOSE g : Rec(g))[{}] = 0
  <2>. HIDE DEF Rec
  <2>. QED  BY <1>2, <1>3
<1>5. Total(segs) = (CHOOSE g : Rec(g))[{}]
  <2>. HIDE DEF segs
  <2>. QED  BY <1>1, FoldUnfolds
<1>. QED  BY <1>4, <1>5

LEMMA TotalTwo ==
  ASSUME NEW a \in Nat, NEW b \in Nat
  PROVE  Total(<<a, b>>) = a + b
<1>. DEFINE segs == <<a, b>>
            pick(s) == CHOOSE x \in s : TRUE
            Rec(g) == g = [s \in SUBSET {1, 2} |->
                             IF s = {} THEN 0 ELSE segs[pick(s)] + g[s \ {pick(s)}]]
            sums == [s \in SUBSET {1, 2} |-> (IF 1 \in s THEN a ELSE 0) + (IF 2 \in s THEN b ELSE 0)]
<1>1. DOMAIN segs = {1, 2} /\ segs[1] = a /\ segs[2] = b
  OBVIOUS
<1>2. \A s \in SUBSET {1, 2} : s # {} => pick(s) \in s
  OBVIOUS
<1>3. Rec(sums)
  <2>1. ASSUME NEW s \in SUBSET {1, 2}, s # {}
        PROVE  sums[s] = segs[pick(s)] + sums[s \ {pick(s)}]
    <3>1. s = {1} \/ s = {2} \/ s = {1, 2}
      BY <2>1
    <3>. HIDE DEF pick, segs
    <3>. QED  BY <3>1, <1>1, <1>2, <2>1
  <2>2. sums[{}] = 0
    OBVIOUS
  <2>. HIDE DEF segs, pick
  <2>. QED  BY <2>1, <2>2
<1>4. ASSUME NEW g, Rec(g) PROVE g[{1, 2}] = a + b
  <2>1. g[{}] = 0 /\ \A s \in SUBSET {1, 2} : s # {} => g[s] = segs[pick(s)] + g[s \ {pick(s)}]
    <3>. HIDE DEF segs, pick
    <3>. QED  BY <1>4
  <2>. HIDE DEF Rec, segs, pick
  <2>2. pick({1}) = 1 /\ pick({2}) = 2 /\ {1} \ {1} = {} /\ {2} \ {2} = {}
    BY <1>2
  <2>3. g[{1}] = a /\ g[{2}] = b
    BY <1>1, <2>1, <2>2
  <2>4. g[{1, 2}] = segs[pick({1, 2})] + g[{1, 2} \ {pick({1, 2})}] /\ pick({1, 2}) \in {1, 2}
    BY <1>2, <2>1
  <2>5. {1, 2} \ {1} = {2} /\ {1, 2} \ {2} = {1}
    OBVIOUS
  <2>. QED  BY <1>1, <2>3, <2>4, <2>5
<1>5. (CHOOSE g : Rec(g))[{1, 2}] = a + b
  <2>. HIDE DEF Rec
  <2>. QED  BY <1>3, <1>4
<1>6. Total(segs) = (CHOOSE g : Rec(g))[{1, 2}]
  <2>. HIDE DEF segs
  <2>. QED  BY <1>1, FoldUnfolds
<1>. QED  BY <1>5, <1>6

LEMMA TotalOne ==
  ASSUME NEW a \in Nat
  PROVE  Total(<<a>>) = a
<1>. DEFINE segs == <<a>>
            pick(s) == CHOOSE x \in s : TRUE
            Rec(g) == g = [s \in SUBSET {1} |->
                             IF s = {} THEN 0 ELSE segs[pick(s)] + g[s \ {pick(s)}]]
            sums == [s \in SUBSET {1} |-> IF 1 \in s THEN a ELSE 0]
<1>1. DOMAIN segs = {1} /\ segs[1] = a /\ pick({1}) = 1
  OBVIOUS
<1>2. Rec(sums)
  <2>1. ASSUME NEW s \in SUBSET {1}, s # {}
        PROVE  sums[s] = segs[pick(s)] + sums[s \ {pick(s)}]
    <3>1. s = {1}
      BY <2>1
    <3>. HIDE DEF pick, segs
    <3>. QED  BY <3>1, <1>1
  <2>2. sums[{}] = 0
    OBVIOUS
  <2>. HIDE DEF segs, pick
  <2>. QED  BY <2>1, <2>2
<1>3. ASSUME NEW g, Rec(g) PROVE g[{1}] = a
  <2>1. g[{}] = 0 /\ g[{1}] = segs[pick({1})] + g[{1} \ {pick({1})}]
    <3>. HIDE DEF segs, pick
    <3>. QED  BY <1>3
  <2>2. {1} \ {1} = {}
    OBVIOUS
  <2>. HIDE DEF Rec, segs, pick
  <2>. QED  BY <1>1, <2>1, <2>2
<1>4. (CHOOSE g : Rec(g))[{1}] = a
  <2>. HIDE DEF Rec
  <2>. QED  BY <1>2, <1>3
<1>5. Total(segs) = (CHOOSE g : Rec(g))[{1}]
  <2>. HIDE DEF segs
  <2>. QED  BY <1>1, FoldUnfolds
<1>. QED  BY <1>4, <1>5

\* What is left of the segments when the first has been moved.
LEMMA FirstSegment ==
  ASSUME NEW segs \in Segments
  PROVE  /\ segs # <<>>
         /\ Head(segs) \in Nat \ {0}
         /\ Tail(segs) \in Segments \cup {<<>>}
         /\ Total(Tail(segs)) \in Nat
         /\ Tail(segs) = <<>> \/ Head(Tail(segs)) > 0
         /\ Total(segs) = Head(segs) + Total(Tail(segs))
<1>. DEFINE S == SectorSize
<1>1. S \in Nat \ {0} /\ 2 * S \in Nat \ {0}
  BY SectorAssumption
<1>2. CASE segs \in {<<S>>, <<2 * S>>}
  <2>1. PICK a \in {S, 2 * S} : segs = <<a>>
    BY <1>2
  <2>2. a \in Nat \ {0}
    BY <1>1
  <2>3. segs # <<>> /\ Head(segs) = a /\ Tail(segs) = <<>> /\ Total(segs) = a
    BY <2>1, <2>2, TotalOne
  <2>4. Total(Tail(segs)) = 0
    BY <2>3, TotalNone
  <2>5. Tail(segs) \in Segments \cup {<<>>}
    BY <2>3
  <2>. HIDE DEF S
  <2>. QED  BY <2>2, <2>3, <2>4, <2>5
<1>3. CASE segs = <<S, S>>
  <2>1. Len(segs) = 2 /\ segs # <<>> /\ Head(segs) = S
    BY <1>3
  <2>2. Tail(segs) = <<S>> /\ Tail(segs) # <<>> /\ Head(Tail(segs)) = S
    BY <1>3
  <2>3. Total(segs) = S + S /\ Total(Tail(segs)) = S
    BY <1>1, <1>3, <2>2, TotalOne, TotalTwo
  <2>4. Tail(segs) \in Segments
    BY <2>2 DEF Segments
  <2>. HIDE DEF S
  <2>. QED  BY <1>1, <2>1, <2>2, <2>3, <2>4
<1>. QED  BY <1>2, <1>3 DEF Segments
=============================================================================
