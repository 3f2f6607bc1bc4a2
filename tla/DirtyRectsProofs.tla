-------------------------- MODULE DirtyRectsProofs --------------------------
(***************************************************************************)
(* For every screen size, list capacity and sequence of requests: the      *)
(* damage list is conservative, exact until it overflows, and implements   *)
(* the abstract damage set.                                                *)
(***************************************************************************)
EXTENDS DirtyRects, TLAPS

(* The hull of two rectangles covers both.                                 *)
LEMMA HullCovers ==
  ASSUME NEW r \in Rects, NEW s \in Rects
  PROVE  /\ Hull(r, s) \in Rects
         /\ Contains(Hull(r, s), r) /\ Contains(Hull(r, s), s)
         /\ OnScreen(r) /\ OnScreen(s) => OnScreen(Hull(r, s))
  BY DEF Rects, Hull, FromEdges, Contains, Lesser, Greater, Right, Bottom,
         OnScreen

(* Every rectangle that contains two others contains their hull.           *)
LEMMA HullLeast ==
  ASSUME NEW b \in Rects, NEW r \in Rects, NEW s \in Rects,
         Contains(b, r), Contains(b, s)
  PROVE  Contains(b, Hull(r, s))
  BY DEF Rects, Hull, FromEdges, Contains, Lesser, Greater, Right, Bottom

(* Rectangles that video_record_dirty_rect merges leave no gap: every      *)
(* pixel of the hull belongs to one of them.                               *)
LEMMA HullExact ==
  ASSUME NEW r \in Rects, NEW s \in Rects, Merges(r, s),
         NEW p \in Int \X Int, In(p, Hull(r, s))
  PROVE  In(p, r) \/ In(p, s)
  BY DEF Rects, Hull, FromEdges, Merges, Contains, SameRow, SameColumn, In,
         Lesser, Greater, Right, Bottom

LEMMA ContainsIn ==
  ASSUME NEW r \in Rects, NEW s \in Rects, Contains(r, s),
         NEW p \in Int \X Int, In(p, s)
  PROVE  In(p, r)
  BY DEF Rects, Contains, In, Right, Bottom

LEMMA ContainsTrans ==
  ASSUME NEW r \in Rects, NEW s \in Rects, NEW t \in Rects,
         Contains(r, s), Contains(s, t)
  PROVE  Contains(r, t)
  BY DEF Rects, Contains, Right, Bottom

(* A clipped rectangle that is not empty lies on the screen.               *)
LEMMA ClipOnScreen ==
  ASSUME NEW r \in Rects, Clip(r).w > 0, Clip(r).h > 0
  PROVE  Clip(r) \in Rects /\ OnScreen(Clip(r))
  BY SizeAssumption
     DEF Rects, Clip, FromEdges, Lesser, Greater, Right, Bottom, OnScreen

(* Taking one entry out of the list keeps the others, in their order.      *)
LEMMA WithoutEntries ==
  ASSUME NEW s \in Seq(Rects), NEW k \in 1..Len(s)
  PROVE  /\ Without(s, k) \in Seq(Rects)
         /\ Len(Without(s, k)) = Len(s) - 1
         /\ \A j \in 1..Len(s) - 1 :
              Without(s, k)[j] = s[IF j < k THEN j ELSE j + 1]
  BY DEF Without

-----------------------------------------------------------------------------
(* Pixel p is in the list or in the rectangle that is being recorded.      *)
Listed(p) == \/ \E k \in 1..Len(rects) : In(p, rects[k])
             \/ pc = "scan" /\ In(p, cur)

(* The inductive invariant.  Conservative alone is not inductive: the      *)
(* overflow falls back on the union, which must have covered every noted   *)
(* pixel all along, and a merge needs the entry and the new rectangle to   *)
(* be on the screen.                                                       *)
DirtyInv ==
  /\ TypeOK
  /\ Bounded
  /\ valid /\ pc = "idle" /\ ~overflow => Len(rects) > 0
  /\ pc = "scan" \/ overflow \/ rects # << >> => valid
  /\ overflow => rects = << >> /\ pc = "idle"
  /\ pc = "idle" => i = 1
  /\ \A p \in stale : valid /\ In(p, box) /\ (overflow \/ Listed(p))
  /\ ~overflow => \A p \in Screen : Listed(p) => p \in stale

LEMMA ScreenPixels == Screen \subseteq Int \X Int
  BY SizeAssumption DEF Screen

LEMMA DirtyInit == Init => DirtyInv
<1> SUFFICES ASSUME Init PROVE DirtyInv
  OBVIOUS
<1>1. /\ valid = FALSE /\ overflow = FALSE /\ rects = << >> /\ pc = "idle"
      /\ i = 1 /\ stale = {}
      /\ box = NoRect /\ cur = NoRect
  BY DEF Init
<1>2. NoRect \in Rects
  BY DEF NoRect, FromEdges, Rects
<1>3. valid \in BOOLEAN /\ overflow \in BOOLEAN
  BY <1>1, Zenon
<1>4. TypeOK
  BY <1>1, <1>2, <1>3, CapacityAssumption DEF TypeOK
<1> QED
  BY <1>1, <1>4 DEF DirtyInv, Bounded, Listed

(* video_note_dirty_locked.                                                *)
LEMMA NoteStep ==
  ASSUME DirtyInv, NEW r \in Requests, NoteDirty(r)
  PROVE  DirtyInv'
<1> DEFINE c == Clip(r)
<1> USE DEF DirtyInv
<1>1. r \in Rects /\ c \in Rects /\ OnScreen(c)
  BY RequestsAssumption, ClipOnScreen DEF NoteDirty
<1>2. /\ pc = "idle" /\ valid' = TRUE
      /\ box' = DirtyUnion(c)
      /\ stale' = stale \cup Pixels(c)
      /\ rects' = rects /\ overflow' = overflow
      /\ overflow => pc' = pc /\ cur' = cur /\ i' = i
      /\ ~overflow => pc' = "scan" /\ cur' = c /\ i' = 1
  BY Zenon DEF NoteDirty
<1> HIDE DEF c
<1>3. /\ box' \in Rects /\ OnScreen(box') /\ Contains(box', c)
      /\ valid => Contains(box', box)
  <2>1. CASE valid
    <3>1. box' = Hull(box, c)
      BY <1>2, <2>1 DEF DirtyUnion
    <3>2. box \in Rects /\ OnScreen(box)
      BY <2>1 DEF TypeOK, Bounded
    <3> QED
      BY <1>1, <3>1, <3>2, HullCovers
  <2>2. CASE ~valid
    <3>1. box' = c
      BY <1>2, <2>2 DEF DirtyUnion
    <3> QED
      BY <1>1, <2>2, <3>1 DEF Contains, Rects, Right, Bottom
  <2> QED
    BY <2>1, <2>2
<1>4. TypeOK'
  <2>1. valid' \in BOOLEAN /\ overflow' \in BOOLEAN
    BY <1>2, Zenon DEF TypeOK
  <2> QED
    BY <1>1, <1>2, <1>3, <2>1 DEF TypeOK, Pixels
<1>5. Bounded'
  <2>1. ASSUME NEW k \in 1..Len(rects)
        PROVE  OnScreen(rects[k]) /\ Contains(box', rects[k])
    BY <2>1, <1>3, ContainsTrans DEF Bounded, TypeOK
  <2> QED
    BY <1>1, <1>2, <1>3, <2>1 DEF Bounded, OnScreen, Contains
<1>6. ASSUME NEW p \in stale' PROVE In(p, box') /\ (overflow' \/ Listed(p)')
  <2>1. p \in Int \X Int
    BY ScreenPixels, <1>4 DEF TypeOK
  <2>2. CASE p \in stale
    BY <1>2, <1>3, <2>1, <2>2, ContainsIn DEF TypeOK, Listed
  <2>3. CASE p \in Pixels(c)
    BY <1>1, <1>2, <1>3, <2>1, <2>3, ContainsIn DEF Pixels, Listed, TypeOK
  <2> QED
    BY <1>2, <2>2, <2>3
<1>7. ASSUME ~overflow', NEW p \in Screen, Listed(p)' PROVE p \in stale'
  BY <1>2, <1>7 DEF Listed, Pixels
<1> QED
  BY <1>2, <1>4, <1>5, <1>6, <1>7

(* An entry of the list contains the new rectangle.                        *)
LEMMA CoveredStep ==
  ASSUME DirtyInv, Covered
  PROVE  DirtyInv'
<1> USE DEF DirtyInv
<1>1. /\ pc = "scan" /\ pc' = "idle" /\ i' = 1 /\ cur' = NoRect
      /\ i \in 1..Len(rects) /\ Contains(rects[i], cur)
      /\ UNCHANGED <<valid, box, rects, overflow, stale>>
  BY DEF Covered, ScanDone, TypeOK
<1>2. NoRect \in Rects
  BY DEF NoRect, FromEdges, Rects
<1>3. TypeOK'
  BY <1>1, <1>2 DEF TypeOK
<1>4. ASSUME NEW p \in stale PROVE Listed(p)'
  <2>1. p \in Int \X Int
    BY ScreenPixels DEF TypeOK
  <2>2. Listed(p)
    BY <1>1
  <2> QED
    BY <1>1, <2>1, <2>2, ContainsIn DEF Listed, TypeOK
<1>5. ASSUME NEW p \in Screen, Listed(p)' PROVE Listed(p)
  BY <1>1, <1>5 DEF Listed
<1> QED
  BY <1>1, <1>3, <1>4, <1>5 DEF Bounded

(* An entry is merged with the new rectangle and leaves the list.          *)
LEMMA MergeStep ==
  ASSUME DirtyInv, Merge
  PROVE  DirtyInv'
<1> USE DEF DirtyInv
<1> DEFINE e == rects[i]
<1>1. /\ pc = "scan" /\ i \in 1..Len(rects) /\ ~overflow
      /\ Merges(e, cur)
      /\ cur' = Hull(e, cur) /\ rects' = Without(rects, i) /\ i' = 1
      /\ UNCHANGED <<valid, box, overflow, pc, stale>>
  BY DEF Merge, TypeOK
<1>2. /\ rects' \in Seq(Rects) /\ Len(rects') = Len(rects) - 1
      /\ \A j \in 1..Len(rects) - 1 :
           rects'[j] = rects[IF j < i THEN j ELSE j + 1]
  BY <1>1, WithoutEntries DEF TypeOK
<1>3. /\ e \in Rects /\ cur \in Rects /\ OnScreen(e) /\ OnScreen(cur)
      /\ Contains(box, e) /\ Contains(box, cur) /\ box \in Rects
  BY <1>1 DEF TypeOK, Bounded
<1> HIDE DEF e
<1>4. /\ cur' \in Rects /\ OnScreen(cur') /\ Contains(box, cur')
      /\ Contains(cur', e) /\ Contains(cur', cur)
  <2>1. /\ Hull(e, cur) \in Rects /\ OnScreen(Hull(e, cur))
        /\ Contains(Hull(e, cur), e) /\ Contains(Hull(e, cur), cur)
    BY <1>3, HullCovers
  <2>2. Contains(box, Hull(e, cur))
    BY <1>3, HullLeast
  <2> QED
    BY <1>1, <2>1, <2>2
<1>5. TypeOK'
  <2>1. valid' \in BOOLEAN /\ overflow' \in BOOLEAN
    BY <1>1, Zenon DEF TypeOK
  <2>2. box' \in Rects /\ pc' \in {"idle", "scan"} /\ stale' \subseteq Screen
    BY <1>1, Zenon DEF TypeOK
  <2>3. Len(rects) \in Nat /\ Len(rects) <= Capacity /\ Len(rects) >= 1
    BY <1>1 DEF TypeOK
  <2>4. Len(rects') <= Capacity /\ i' \in 1..(Len(rects') + 1)
    BY <1>1, <1>2, <2>3, CapacityAssumption
  <2> QED
    BY <1>2, <1>4, <2>1, <2>2, <2>4 DEF TypeOK
<1>6. Bounded'
  BY <1>1, <1>2, <1>4 DEF Bounded
<1>7. ASSUME NEW p \in stale PROVE Listed(p)'
  <2>1. p \in Int \X Int
    BY ScreenPixels DEF TypeOK
  <2>2. CASE In(p, cur) \/ In(p, e)
    BY <1>1, <1>3, <1>4, <2>1, <2>2, ContainsIn DEF Listed
  <2>3. ASSUME NEW k \in 1..Len(rects), k # i, In(p, rects[k])
        PROVE  Listed(p)'
    <3>1. \E j \in 1..Len(rects) - 1 : rects'[j] = rects[k]
      <4>1. CASE k < i
        BY <1>1, <1>2, <2>3, <4>1 DEF TypeOK
      <4>2. CASE k > i
        <5>1. k - 1 \in 1..Len(rects) - 1 /\ ~(k - 1 < i)
          BY <1>1, <2>3, <4>2 DEF TypeOK
        <5> QED
          BY <1>2, <5>1
      <4> QED
        BY <1>1, <2>3, <4>1, <4>2 DEF TypeOK
    <3> QED
      BY <1>2, <2>3, <3>1 DEF Listed
  <2> QED
    BY <1>1, <2>2, <2>3 DEF Listed, e
<1>8. ASSUME NEW p \in Screen, Listed(p)' PROVE p \in stale
  <2>1. p \in Int \X Int
    BY ScreenPixels
  <2>2. CASE In(p, cur')
    BY <1>1, <1>3, <2>1, <2>2, HullExact DEF Listed, e
  <2>3. CASE \E k \in 1..Len(rects') : In(p, rects'[k])
    BY <1>1, <1>2, <2>3 DEF Listed
  <2> QED
    BY <1>1, <1>8, <2>2, <2>3 DEF Listed
<1> QED
  BY <1>1, <1>5, <1>6, <1>7, <1>8


(* The scan passes an entry.                                               *)
LEMMA PassStep ==
  ASSUME DirtyInv, Pass
  PROVE  DirtyInv'
<1>1. /\ pc = "scan" /\ i \in 1..Len(rects) /\ i' = i + 1
      /\ UNCHANGED <<valid, box, rects, overflow, pc, cur, stale>>
  BY DEF Pass, DirtyInv, TypeOK
<1>2. TypeOK'
  BY <1>1 DEF DirtyInv, TypeOK
<1> QED
  BY <1>1, <1>2 DEF DirtyInv, Bounded, Listed

(* The new rectangle is appended, or the list overflows.                   *)
LEMMA RecordStep ==
  ASSUME DirtyInv, Record
  PROVE  DirtyInv'
<1> USE DEF DirtyInv
<1>1. /\ pc = "scan" /\ pc' = "idle" /\ i' = 1 /\ cur' = NoRect
      /\ UNCHANGED <<valid, box, stale>> /\ ~overflow /\ valid
  BY DEF Record, ScanDone
<1>2. NoRect \in Rects
  BY DEF NoRect, FromEdges, Rects
<1>3. CASE /\ Len(rects) < Capacity
           /\ rects' = Append(rects, cur)
           /\ overflow' = overflow
  <2>1. /\ Len(rects') = Len(rects) + 1 /\ rects' \in Seq(Rects)
        /\ \A k \in 1..Len(rects) : rects'[k] = rects[k]
        /\ rects'[Len(rects) + 1] = cur
    BY <1>3 DEF TypeOK
  <2>2. TypeOK'
    BY <1>1, <1>2, <1>3, <2>1, CapacityAssumption DEF TypeOK
  <2>3. Bounded'
    BY <1>1, <2>1 DEF Bounded, TypeOK
  <2>4. ASSUME NEW p PROVE Listed(p)' <=> Listed(p)
    <3>1. Listed(p)' <=> \E k \in 1..Len(rects) + 1 : In(p, rects'[k])
      BY <1>1, <2>1 DEF Listed
    <3>2. \A k : k \in 1..Len(rects) + 1
                   <=> k \in 1..Len(rects) \/ k = Len(rects) + 1
      BY DEF TypeOK
    <3> QED
      BY <1>1, <2>1, <3>1, <3>2 DEF Listed
  <2> QED
    BY <1>1, <1>3, <2>1, <2>2, <2>3, <2>4
<1>4. CASE rects' = << >> /\ overflow' = TRUE
  <2>1. valid' \in BOOLEAN /\ overflow' \in BOOLEAN
    BY <1>1, <1>4, Zenon DEF TypeOK
  <2>2. TypeOK'
    BY <1>1, <1>2, <1>4, <2>1, CapacityAssumption DEF TypeOK
  <2>3. Bounded'
    BY <1>1, <1>4 DEF Bounded
  <2> QED
    BY <1>1, <1>4, <2>2, <2>3
<1> QED
  BY <1>3, <1>4 DEF Record

(* video_present_pending copies everything that is stale.                  *)
LEMMA PresentCopiesAll ==
  ASSUME DirtyInv, pc = "idle", NEW p \in stale
  PROVE  InRegion(p)
<1>1. In(p, box) /\ (overflow \/ \E k \in 1..Len(rects) : In(p, rects[k]))
  BY DEF DirtyInv, Listed
<1> QED
  BY <1>1 DEF InRegion

LEMMA PresentStep ==
  ASSUME DirtyInv, Present
  PROVE  DirtyInv' /\ stale' = {}
<1>1. stale' = {}
  BY PresentCopiesAll DEF Present
<1>2. /\ valid' = FALSE /\ overflow' = FALSE /\ rects' = << >>
      /\ pc' = "idle" /\ i' = i /\ cur' = cur /\ box' = NoRect
      /\ pc = "idle"
  BY DEF Present
<1>3. NoRect \in Rects
  BY DEF NoRect, FromEdges, Rects
<1>4. valid' \in BOOLEAN /\ overflow' \in BOOLEAN
  BY <1>2, Zenon
<1>5. i = 1
  BY <1>2 DEF DirtyInv
<1>6. TypeOK'
  BY <1>1, <1>2, <1>3, <1>4, <1>5, CapacityAssumption DEF DirtyInv, TypeOK
<1> QED
  BY <1>1, <1>2, <1>6 DEF DirtyInv, Bounded, Listed

LEMMA DirtyStep == DirtyInv /\ [Next]_vars => DirtyInv'
<1> SUFFICES ASSUME DirtyInv, [Next]_vars PROVE DirtyInv'
  OBVIOUS
<1>1. CASE UNCHANGED vars
  BY <1>1 DEF vars, DirtyInv, TypeOK, Bounded, Listed
<1> QED
  BY <1>1, NoteStep, CoveredStep, MergeStep, PassStep, RecordStep, PresentStep
     DEF Next

THEOREM DirtyInvariant == Spec => []DirtyInv
<1> QED
  BY DirtyInit, DirtyStep, PTL DEF Spec

(* Coalescing and overflow lose no drawn pixel, for every screen, capacity *)
(* and sequence of requests.                                               *)
THEOREM DamageConservative == Spec => []Conservative
<1>1. DirtyInv => Conservative
  <2> SUFFICES ASSUME DirtyInv, NEW p \in stale,
                      ~(pc = "scan" /\ In(p, cur))
               PROVE  InRegion(p)
    BY DEF Conservative
  <2>1. In(p, box) /\ (overflow \/ \E k \in 1..Len(rects) : In(p, rects[k]))
    BY DEF DirtyInv, Listed
  <2> QED
    BY <2>1 DEF InRegion
<1> QED
  BY <1>1, DirtyInvariant, PTL

(* The entries the scan has passed neither contain the rectangle in hand   *)
(* nor merge with it: this is what makes Reduced inductive, and it is why  *)
(* a merge, which enlarges that rectangle, has to restart the scan.        *)
ReducedInv ==
  /\ Reduced
  /\ pc = "scan" =>
       \A j \in 1..Len(rects) :
         j < i => ~Contains(rects[j], cur) /\ ~Merges(rects[j], cur)

(* An entry taken out of the list leaves it reduced.                       *)
LEMMA MergeReduced ==
  ASSUME DirtyInv, ReducedInv, Merge
  PROVE  ReducedInv'
<1>1. /\ rects \in Seq(Rects) /\ i \in 1..Len(rects) /\ i' = 1
      /\ rects' = Without(rects, i)
  BY DEF Merge, DirtyInv, TypeOK
<1>2. /\ Len(rects') = Len(rects) - 1
      /\ \A j \in 1..Len(rects) - 1 :
           rects'[j] = rects[IF j < i THEN j ELSE j + 1]
  BY <1>1, WithoutEntries
<1>3. ASSUME NEW j \in 1..Len(rects'), NEW k \in 1..Len(rects'), j # k
      PROVE  ~Contains(rects'[j], rects'[k]) /\ ~Merges(rects'[j], rects'[k])
  <2> DEFINE old(n) == IF n < i THEN n ELSE n + 1
  <2>1. /\ old(j) \in 1..Len(rects) /\ old(k) \in 1..Len(rects)
        /\ old(j) # old(k)
    BY <1>1, <1>2, <1>3
  <2>2. rects'[j] = rects[old(j)] /\ rects'[k] = rects[old(k)]
    BY <1>1, <1>2, <1>3
  <2> QED
    BY <2>1, <2>2 DEF ReducedInv, Reduced
<1>4. Reduced'
  BY <1>3 DEF Reduced
<1> QED
  BY <1>1, <1>4 DEF ReducedInv

(* A rectangle that passed every entry is appended.                        *)
LEMMA RecordReduced ==
  ASSUME DirtyInv, ReducedInv, Record
  PROVE  ReducedInv'
<1>1. rects \in Seq(Rects) /\ cur \in Rects /\ i > Len(rects) /\ i \in Int
  BY DEF Record, DirtyInv, TypeOK
<1>2. pc = "scan" /\ pc' = "idle"
  BY DEF Record, ScanDone
<1>3. CASE rects' = Append(rects, cur)
  <2>1. /\ Len(rects') = Len(rects) + 1
        /\ \A k \in 1..Len(rects) : rects'[k] = rects[k]
        /\ rects'[Len(rects) + 1] = cur
    BY <1>1, <1>3
  <2>2. ASSUME NEW j \in 1..Len(rects)
        PROVE  /\ ~Contains(rects[j], cur) /\ ~Merges(rects[j], cur)
               /\ ~Contains(cur, rects[j]) /\ ~Merges(cur, rects[j])
    <3>1. ~Contains(rects[j], cur) /\ ~Merges(rects[j], cur)
      BY <1>1, <1>2 DEF ReducedInv
    <3> QED
      BY <3>1 DEF Merges, SameRow, SameColumn
  <2>3. ASSUME NEW j \in 1..Len(rects'), NEW k \in 1..Len(rects'), j # k
        PROVE  ~Contains(rects'[j], rects'[k]) /\ ~Merges(rects'[j], rects'[k])
    BY <1>1, <2>1, <2>2, <2>3 DEF ReducedInv, Reduced
  <2> QED
    BY <1>2, <2>3 DEF ReducedInv, Reduced
<1>4. CASE rects' = << >>
  BY <1>2, <1>4 DEF ReducedInv, Reduced
<1> QED
  BY <1>3, <1>4 DEF Record

LEMMA ReducedStep == DirtyInv /\ ReducedInv /\ [Next]_vars => ReducedInv'
<1> SUFFICES ASSUME DirtyInv, ReducedInv, [Next]_vars PROVE ReducedInv'
  OBVIOUS
<1>1. ASSUME NEW r \in Requests, NoteDirty(r) PROVE ReducedInv'
  <2>1. rects' = rects /\ (pc' = "scan" => i' = 1)
    BY <1>1 DEF NoteDirty
  <2> QED
    BY <2>1 DEF ReducedInv, Reduced
<1>2. CASE Covered
  BY <1>2 DEF Covered, ScanDone, ReducedInv, Reduced
<1>3. CASE Pass
  <2>1. /\ i \in Int /\ i' = i + 1
        /\ ~Contains(rects[i], cur) /\ ~Merges(rects[i], cur)
        /\ UNCHANGED <<rects, pc, cur>>
    BY <1>3 DEF Pass, DirtyInv, TypeOK
  <2> QED
    BY <2>1 DEF ReducedInv, Reduced
<1>4. CASE Present
  BY <1>4 DEF Present, ReducedInv, Reduced
<1>5. CASE UNCHANGED vars
  BY <1>5 DEF vars, ReducedInv, Reduced
<1> QED
  BY <1>1, <1>2, <1>3, <1>4, <1>5, MergeReduced, RecordReduced DEF Next

(* Before an overflow the list never grows beyond what was drawn, no two   *)
(* of its entries could be one, and present never writes outside the frame *)
(* buffer, for every screen, capacity and sequence of requests.            *)
THEOREM DamageListSound == Spec => []ListIsSound
<1>1. Init => ReducedInv
  BY DEF Init, ReducedInv, Reduced
<1>2. DirtyInv /\ ReducedInv => ListIsSound
  <2>1. DirtyInv => Exact
    BY DEF DirtyInv, Exact, InRegion, Listed
  <2> QED
    BY <2>1 DEF ListIsSound, DirtyInv, ReducedInv
<1> QED
  BY <1>1, <1>2, ReducedStep, DirtyInvariant, PTL DEF Spec

(* The list with its scan and its fallback implements the abstract damage  *)
(* set: what is noted accumulates and one present shows it all.            *)
THEOREM DamageRefinement == Spec => ImplementsDamage
<1>1. Init => D!Init
  BY DEF Init, D!Init
<1>2. DirtyInv /\ DirtyInv' /\ [Next]_vars => [D!Note \/ D!Present]_stale
  <2> SUFFICES ASSUME DirtyInv, DirtyInv', [Next]_vars
               PROVE  D!Note \/ D!Present \/ stale' = stale
    OBVIOUS
  <2>1. CASE \E r \in Requests : NoteDirty(r)
    BY <2>1 DEF NoteDirty, D!Note, DirtyInv, TypeOK
  <2>2. CASE Present
    BY <2>2, PresentStep DEF D!Present
  <2>3. CASE Covered \/ Merge \/ Pass \/ Record \/ UNCHANGED vars
    BY <2>3 DEF Covered, Merge, Pass, Record, vars
  <2> QED
    BY <2>1, <2>2, <2>3 DEF Next
<1> QED
  BY <1>1, <1>2, DirtyInvariant, PTL DEF Spec, ImplementsDamage, D!Spec

=============================================================================
