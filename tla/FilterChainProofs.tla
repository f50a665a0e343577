------------------------- MODULE FilterChainProofs -------------------------
(***************************************************************************)
(* Proofs about FilterChain, for any finite tree of filters, any settings  *)
(* and any tiles.                                                          *)
(***************************************************************************)
EXTENDS FilterChain, FiniteSetTheorems, SequenceTheorems, NaturalsInduction, TLAPS

FrameSet == [filter : Filters, roi : Rois, asked : SUBSET Tiles]

Entries == [do : {"visit", "emit"}, filter : Filters, dim : BOOLEAN]

(* What a walk has left is ordered as a recursion leaves it: no filter is  *)
(* visited after one behind it was, or after "changed" was emitted by one  *)
(* behind it, and no two visits are to the same branch.                    *)
InOrder(a, b) == b.do = "visit" => /\ b.filter \notin Above[a.filter]
                                   /\ a.do = "visit" => a.filter \notin Above[b.filter]

Ordered(w) == \A i, j \in 1 .. Len(w) : i < j => InOrder(w[i], w[j])

(* The visits of w reach f; those that announce a change of dimensions do. *)
Reaches(w, f) ==
  \E i \in 1 .. Len(w) : w[i].do = "visit" /\ w[i].filter \in Above[f]

ReachesSize(w, f) ==
  \E i \in 1 .. Len(w) : w[i].do = "visit" /\ w[i].dim = TRUE /\ w[i].filter \in Above[f]

(* SizesAgree alone is not inductive: a walk that announces a change of    *)
(* pixels makes no resample filter work out its size again.                *)
SizesFollow ==
  \A r \in Resamples :
    dims[r] # None => dims[r] = Dimensions(r, setting[r]) \/ ReachesSize(walk, r)

(* What a cache says of its image is true. *)
CacheHonest ==
  \A c \in Caches : cached[c] # None =>
    /\ cached[c].roi \subseteq cached[c].image.area
    /\ cached[c].image.quick => cached[c].quick
    /\ c \in IgnoreRoi => cached[c].roi = Tiles

CallType ==
  /\ DOMAIN call = {"end", "roi", "quick", "frames", "image"}
  /\ call.quick \in BOOLEAN /\ call.roi \subseteq Tiles
  /\ call.frames \in Seq(FrameSet)

(* No filter a request depends on is still to be visited. *)
CallAfterWalk ==
  call # Idle => /\ call.end \in Filters
                 /\ ~ Reaches(walk, call.end)

(* The region a frame has asked for serves the one it was asked for. *)
AskedFits(frame) ==
  /\ frame.filter \notin Sources
  /\ frame.asked \in Rois
  /\ frame.filter \notin Shapes => frame.roi \subseteq frame.asked
  /\ frame.filter \in IgnoreRoi => frame.asked = Tiles

(* The frames lead from the end that was asked up its chain, each asking   *)
(* the next for what that one is asked for.                                *)
FramesLinked ==
  /\ \A i \in 1 .. Len(call.frames) : call.frames[i].filter \in Above[call.end]
  /\ \A i \in 2 .. Len(call.frames) :
       /\ AskedFits(call.frames[i])
       /\ Previous[call.frames[i].filter] = call.frames[i - 1].filter
       /\ call.frames[i].asked = call.frames[i - 1].roi
  /\ call.frames # << >> =>
       /\ call.frames[Len(call.frames)].filter = call.end
       /\ call.frames[Len(call.frames)].roi = call.roi

(* The image on its way back is the one of the current settings and serves *)
(* the frame it comes to.                                                  *)
ImageFits ==
  call.image # None =>
    /\ call.image.quick => call.quick
    /\ call.frames = << >> => /\ call.image.of = Now(call.end)
                              /\ call.roi \subseteq call.image.area
    /\ call.frames # << >> =>
         /\ AskedFits(Top)
         /\ call.image.of = Now(Previous[Top.filter])
         /\ Top.asked \subseteq call.image.area

CallInv == CallType /\ CallAfterWalk /\ FramesLinked /\ ImageFits

IInv == /\ TypeOK /\ Ordered(walk)
        /\ CachesCoherent /\ SizesFollow /\ CacheHonest
        /\ CallInv
-----------------------------------------------------------------------------
(* The tree of filters. *)

(* A non-empty set of natural numbers has a least element. *)
LEMMA LeastNat ==
  ASSUME NEW T \in SUBSET Nat, T # {}
  PROVE  \E n \in T : \A m \in T : n <= m
<1> DEFINE Less == {p \in Nat \X Nat : p[1] < p[2]}
<1>1. IsWellFoundedOn(Less, Nat)
  BY NatLessThanWellFounded DEF OpToRel
<1>2. \E n \in T : \A m \in T : ~ (<<m, n>> \in Less)
  <2> HIDE DEF Less
  <2> QED
    BY <1>1, WFMin
<1>3. \A m, n \in Nat : ~ (<<m, n>> \in Less) => n <= m
  OBVIOUS
<1> QED
  BY <1>2, <1>3

(* A set of filters has one that is a source or whose previous filter is   *)
(* not in it: what fails somewhere on a chain fails a first time.          *)
LEMMA FirstOnChain ==
  ASSUME NEW B \in SUBSET Filters, B # {}
  PROVE  \E f \in B : f \in Sources \/ Previous[f] \notin B
<1> DEFINE depth(f) == Cardinality(Above[f])
           T == {depth(f) : f \in B}
<1>1. ASSUME NEW f \in Filters PROVE IsFiniteSet(Above[f]) /\ depth(f) \in Nat
  <2>1. Above[f] \in SUBSET Filters
    BY TreeAssumption
  <2> QED
    BY <2>1, TreeAssumption, FS_Subset, FS_CardinalityType
<1>2. PICK n \in T : \A m \in T : n <= m
  <2>1. T \in SUBSET Nat /\ T # {}
    BY <1>1
  <2> HIDE DEF T
  <2> QED
    BY <2>1, LeastNat
<1>3. PICK f \in B : n = depth(f)
  BY <1>2
<1>4. ASSUME f \notin Sources, Previous[f] \in B PROVE FALSE
  <2>1. /\ Above[f] = {f} \cup Above[Previous[f]] /\ f \notin Above[Previous[f]]
        /\ Previous[f] \in Filters
    BY <1>4, TreeAssumption
  <2>2. depth(f) = depth(Previous[f]) + 1
    <3>1. IsFiniteSet(Above[Previous[f]])
      BY <1>1, <2>1
    <3>2. Above[f] = Above[Previous[f]] \cup {f}
      BY <2>1
    <3> QED
      BY <2>1, <3>1, <3>2, FS_AddElement
  <2>3. depth(f) <= depth(Previous[f])
    BY <1>2, <1>3, <1>4
  <2> QED
    BY <1>1, <2>1, <2>2, <2>3
<1> QED
  BY <1>4

LEMMA TreeFacts ==
  /\ \A f \in Filters : f \in Above[f] /\ Above[f] \subseteq Filters
  /\ \A f \in Filters \ Sources : /\ Previous[f] \in Filters
                                  /\ Above[f] = {f} \cup Above[Previous[f]]
                                  /\ f \notin Above[Previous[f]]
  BY TreeAssumption

LEMMA AboveTransitive ==
  ASSUME NEW g \in Filters, NEW f \in Above[g]
  PROVE  Above[f] \subseteq Above[g]
<1> DEFINE B == {h \in Filters : \E e \in Above[h] : ~ (Above[e] \subseteq Above[h])}
<1>1. SUFFICES ASSUME B # {} PROVE FALSE
  OBVIOUS
<1>2. PICK h \in B : h \in Sources \/ Previous[h] \notin B
  <2>1. B \in SUBSET Filters
    OBVIOUS
  <2> HIDE DEF B
  <2> QED
    BY <1>1, <2>1, FirstOnChain
<1>3. PICK e \in Above[h] : ~ (Above[e] \subseteq Above[h])
  OBVIOUS
<1>4. CASE h \in Sources
  BY <1>3, <1>4, TreeAssumption
<1>5. CASE h \notin Sources
  <2>1. Previous[h] \in Filters /\ Above[h] = {h} \cup Above[Previous[h]]
    BY <1>5, TreeFacts
  <2>2. Previous[h] \notin B
    BY <1>2, <1>5
  <2>3. \A d \in Above[Previous[h]] : Above[d] \subseteq Above[Previous[h]]
    BY <2>1, <2>2
  <2> QED
    BY <1>3, <2>1, <2>3
<1> QED
  BY <1>4, <1>5

(* A filter that g depends on is g, or has g behind one of its next ones.  *)
LEMMA NextOnPath ==
  ASSUME NEW g \in Filters, NEW f \in Above[g], f # g
  PROVE  \E h \in Filters \ Sources : Previous[h] = f /\ h \in Above[g]
<1> DEFINE Fails(h, e) ==
             e # h /\ ~ \E d \in Filters \ Sources : Previous[d] = e /\ d \in Above[h]
           B == {h \in Filters : \E e \in Above[h] : Fails(h, e)}
<1>1. SUFFICES ASSUME B # {} PROVE FALSE
  OBVIOUS
<1>2. PICK h \in B : h \in Sources \/ Previous[h] \notin B
  <2>1. B \in SUBSET Filters
    OBVIOUS
  <2> HIDE DEF B
  <2> QED
    BY <1>1, <2>1, FirstOnChain
<1>3. PICK e \in Above[h] : Fails(h, e)
  OBVIOUS
<1>4. CASE h \in Sources
  BY <1>3, <1>4, TreeAssumption
<1>5. CASE h \notin Sources
  <2>1. /\ Previous[h] \in Filters /\ h \in Above[h]
        /\ Above[h] = {h} \cup Above[Previous[h]]
    BY <1>5, TreeFacts
  <2>2. e # Previous[h] /\ e \in Above[Previous[h]]
    BY <1>3, <1>5, <2>1
  <2>3. ~ Fails(Previous[h], e)
    BY <1>2, <1>5, <2>1, <2>2
  <2> QED
    BY <1>3, <2>1, <2>2, <2>3
<1> QED
  BY <1>4, <1>5

(* The next filters of f are those it is the previous one of. *)
LEMMA NextOf ==
  ASSUME NEW f \in Filters
  PROVE  /\ NextFilters[f] \in Seq(Filters)
         /\ \A i \in 1 .. Len(NextFilters[f]) :
              /\ NextFilters[f][i] \in Filters \ Sources
              /\ Previous[NextFilters[f][i]] = f
              /\ Above[NextFilters[f][i]] = {NextFilters[f][i]} \cup Above[f]
              /\ NextFilters[f][i] \notin Above[f]
         /\ \A i, k \in 1 .. Len(NextFilters[f]) :
              NextFilters[f][i] = NextFilters[f][k] => i = k
         /\ \A h \in Filters \ Sources : Previous[h] = f =>
              \E i \in 1 .. Len(NextFilters[f]) : NextFilters[f][i] = h
<1>1. NextFilters[f] \in Seq(Filters) /\ DOMAIN NextFilters[f] = 1 .. Len(NextFilters[f])
  BY TreeAssumption
<1>2. ASSUME NEW i \in 1 .. Len(NextFilters[f])
      PROVE  /\ NextFilters[f][i] \in Filters \ Sources
             /\ Previous[NextFilters[f][i]] = f
  <2>1. NextFilters[f][i] \in Filters
    BY <1>1
  <2>2. NextFilters[f][i] \notin Sources /\ Previous[NextFilters[f][i]] = f
    BY <1>1, TreeAssumption
  <2> QED
    BY <2>1, <2>2
<1>3. \A i, k \in 1 .. Len(NextFilters[f]) :
        NextFilters[f][i] = NextFilters[f][k] => i = k
  BY <1>1, TreeAssumption
<1>4. \A h \in Filters \ Sources : Previous[h] = f =>
        \E i \in 1 .. Len(NextFilters[f]) : NextFilters[f][i] = h
  BY <1>1, TreeAssumption
<1> QED
  BY <1>1, <1>2, <1>3, <1>4, TreeFacts

-----------------------------------------------------------------------------
(* What a change does to the walk. *)

(* w is s followed by t, entry by entry. *)
IsConcat(w, s, t) ==
  /\ Len(w) = Len(s) + Len(t)
  /\ \A i \in 1 .. Len(s) : w[i] = s[i]
  /\ \A i \in Len(s) + 1 .. Len(s) + Len(t) : w[i] = t[i - Len(s)]

LEMMA ConcatEntries ==
  ASSUME NEW S, NEW s \in Seq(S), NEW t \in Seq(S), NEW w, w = s \o t
  PROVE  w \in Seq(S) /\ IsConcat(w, s, t)
<1>1. /\ w \in Seq(S) /\ Len(w) = Len(s) + Len(t)
      /\ \A i \in 1 .. Len(s) + Len(t) :
           w[i] = IF i <= Len(s) THEN s[i] ELSE t[i - Len(s)]
  BY ConcatProperties
<1>2. Len(s) \in Nat /\ Len(t) \in Nat
  OBVIOUS
<1>3. ASSUME NEW i \in 1 .. Len(s) PROVE w[i] = s[i]
  <2>1. i \in 1 .. Len(s) + Len(t) /\ i <= Len(s)
    BY <1>2
  <2> QED
    BY <1>1, <2>1
<1>4. ASSUME NEW i \in Len(s) + 1 .. Len(s) + Len(t) PROVE w[i] = t[i - Len(s)]
  <2>1. i \in 1 .. Len(s) + Len(t) /\ ~ (i <= Len(s))
    BY <1>2
  <2> QED
    BY <1>1, <2>1
<1> QED
  BY <1>1, <1>2, <1>3, <1>4 DEF IsConcat

(* w begins with the change of f; its entries are these. *)
Begins(w, f, d, rest) == w = Changed(f, d) \o rest

IsChange(w, f, d, rest) ==
  LET n == Len(NextFilters[f])
  IN  /\ n \in Nat /\ Len(w) = n + 1 + Len(rest)
      /\ \A i \in 1 .. n : w[i] = Visit(NextFilters[f][i], d)
      /\ w[n + 1] = Emit(f)
      /\ \A i \in n + 2 .. Len(w) : w[i] = rest[i - (n + 1)]

LEMMA ChangedEntries ==
  ASSUME NEW f \in Filters, NEW d, NEW rest \in Seq(Entries),
         \A g \in Filters : Visit(g, d) \in Entries,
         NEW w, Begins(w, f, d, rest)
  PROVE  w \in Seq(Entries) /\ IsChange(w, f, d, rest)
<1>0. PICK n : n = Len(NextFilters[f])
  OBVIOUS
<1>1. n \in Nat /\ \A i \in 1 .. n : NextFilters[f][i] \in Filters
  BY <1>0, NextOf
<1>2. PICK visits : visits = [i \in 1 .. n |-> Visit(NextFilters[f][i], d)]
  OBVIOUS
<1>3. /\ visits \in Seq(Entries) /\ Len(visits) = n
      /\ \A i \in 1 .. n : visits[i] = Visit(NextFilters[f][i], d)
  BY <1>1, <1>2
<1>4. PICK last : last = <<Emit(f)>>
  OBVIOUS
<1>5. last \in Seq(Entries) /\ Len(last) = 1 /\ last[1] = Emit(f)
  BY <1>4 DEF Emit, Entries
<1>6. PICK own : own = visits \o last
  OBVIOUS
<1>7. w = own \o rest
  BY <1>0, <1>2, <1>4, <1>6 DEF Changed, Begins
<1>8. own \in Seq(Entries) /\ IsConcat(own, visits, last)
  BY <1>3, <1>5, <1>6, ConcatEntries
<1>9. w \in Seq(Entries) /\ IsConcat(w, own, rest)
  BY <1>7, <1>8, ConcatEntries
<1>10. n + 1 \in n + 1 .. n + 1 /\ (n + 1) - n = 1
  BY <1>1
<1>11. /\ Len(own) = n + 1
       /\ \A i \in 1 .. n : own[i] = visits[i]
       /\ \A i \in n + 1 .. n + 1 : own[i] = last[i - n]
  BY <1>3, <1>5, <1>8 DEF IsConcat
<1>12. /\ Len(w) = n + 1 + Len(rest)
       /\ \A i \in 1 .. n + 1 : w[i] = own[i]
       /\ \A i \in (n + 1) + 1 .. Len(w) : w[i] = rest[i - (n + 1)]
  BY <1>9, <1>11 DEF IsConcat
<1>13. n + 1 + 1 = n + 2 /\ n + 1 \in 1 .. n + 1 /\ 1 .. n \subseteq 1 .. n + 1
  BY <1>1
<1>14. \A i \in 1 .. n : w[i] = Visit(NextFilters[f][i], d)
  BY <1>3, <1>11, <1>12, <1>13
<1>15. w[n + 1] = Emit(f)
  BY <1>5, <1>10, <1>11, <1>12, <1>13
<1> QED
  BY <1>0, <1>1, <1>9, <1>12, <1>13, <1>14, <1>15 DEF IsChange

(* A change of f that comes ahead of `rest' reaches everything behind f,   *)
(* what `rest' reaches is still reached, and the order is kept.            *)
LEMMA WalkAfterChange ==
  ASSUME NEW f \in Filters, NEW d, NEW rest \in Seq(Entries),
         \A g \in Filters : Visit(g, d) \in Entries,
         NEW w, Begins(w, f, d, rest),
         Ordered(rest),
         \A j \in 1 .. Len(rest) : rest[j].do = "visit" =>
           rest[j].filter \notin Above[f] /\ f \notin Above[rest[j].filter]
  PROVE  /\ w \in Seq(Entries) /\ Ordered(w)
         /\ \A g \in Filters : f \in Above[g] /\ f # g =>
              Reaches(w, g) /\ (d = TRUE => ReachesSize(w, g))
         /\ \A g \in Filters : /\ Reaches(rest, g) => Reaches(w, g)
                               /\ ReachesSize(rest, g) => ReachesSize(w, g)
<1>0. PICK n : n = Len(NextFilters[f])
  OBVIOUS
<1>1. /\ n \in Nat /\ w \in Seq(Entries) /\ Len(w) = n + 1 + Len(rest)
      /\ \A i \in 1 .. n : w[i] = Visit(NextFilters[f][i], d)
      /\ w[n + 1] = Emit(f)
      /\ \A i \in n + 2 .. Len(w) : w[i] = rest[i - (n + 1)]
  <2>1. w \in Seq(Entries) /\ IsChange(w, f, d, rest)
    BY ChangedEntries
  <2> QED
    BY <1>0, <2>1 DEF IsChange
<1>2. \A i \in 1 .. n : /\ w[i].do = "visit" /\ w[i].filter = NextFilters[f][i]
                        /\ w[i].dim = d
  <2>1. \A g : /\ Visit(g, d).do = "visit" /\ Visit(g, d).filter = g
               /\ Visit(g, d).dim = d
    BY DEF Visit
  <2> QED
    BY <1>1, <2>1
<1>3. w[n + 1].do # "visit" /\ w[n + 1].filter = f
  BY <1>1 DEF Emit
<1>4. \A i \in 1 .. n : /\ w[i].filter \in Filters \ Sources
                        /\ Previous[w[i].filter] = f
                        /\ Above[w[i].filter] = {w[i].filter} \cup Above[f]
                        /\ w[i].filter \notin Above[f]
  BY <1>0, <1>2, NextOf
<1>5. Ordered(w)
  <2>1. SUFFICES ASSUME NEW i \in 1 .. Len(w), NEW j \in 1 .. Len(w), i < j,
                        w[j].do = "visit"
                 PROVE  /\ w[j].filter \notin Above[w[i].filter]
                        /\ w[i].do = "visit" => w[i].filter \notin Above[w[j].filter]
    BY DEF Ordered, InOrder
  <2>2. CASE j \in 1 .. n
    <3>1. i \in 1 .. n /\ i # j
      BY <1>1, <2>1, <2>2
    <3>2. w[i].filter # w[j].filter
      BY <1>0, <1>2, <2>2, <3>1, NextOf
    <3> QED
      BY <1>4, <2>2, <3>1, <3>2
  <2>3. CASE j = n + 1
    BY <1>3, <2>1, <2>3
  <2>4. CASE j \in n + 2 .. Len(w)
    <3>1. /\ j - (n + 1) \in 1 .. Len(rest) /\ w[j] = rest[j - (n + 1)]
          /\ w[j].filter \notin Above[f] /\ f \notin Above[w[j].filter]
      BY <1>1, <2>1, <2>4
    <3>2. CASE i \in 1 .. n
      <4>1. w[j].filter # w[i].filter
        BY <1>4, <3>1, <3>2, TreeFacts
      <4>2. w[i].filter \notin Above[w[j].filter]
        <5>1. w[j].filter \in Filters
          <6>1. w[j] \in Entries
            BY <1>1
          <6> QED
            BY <6>1 DEF Entries
        <5>2. f \in Above[w[i].filter]
          BY <1>4, <3>2, TreeFacts
        <5> QED
          BY <3>1, <5>1, <5>2, AboveTransitive
      <4> QED
        BY <1>4, <3>1, <3>2, <4>1, <4>2
    <3>3. CASE i = n + 1
      BY <1>3, <3>1, <3>3
    <3>4. CASE i \in n + 2 .. Len(w)
      <4>1. /\ i - (n + 1) \in 1 .. Len(rest) /\ w[i] = rest[i - (n + 1)]
            /\ i - (n + 1) < j - (n + 1)
        BY <1>1, <2>1, <2>4, <3>4
      <4>2. InOrder(rest[i - (n + 1)], rest[j - (n + 1)])
        BY <3>1, <4>1 DEF Ordered
      <4> QED
        BY <2>1, <3>1, <4>1, <4>2 DEF InOrder
    <3> QED
      BY <1>1, <2>1, <2>4, <3>2, <3>3, <3>4
  <2> QED
    BY <1>1, <2>2, <2>3, <2>4
<1>6. ASSUME NEW g \in Filters, f \in Above[g], f # g
      PROVE  Reaches(w, g) /\ (d = TRUE => ReachesSize(w, g))
  <2>1. PICK h \in Filters \ Sources : Previous[h] = f /\ h \in Above[g]
    BY <1>6, NextOnPath
  <2>2. PICK i \in 1 .. n : NextFilters[f][i] = h
    BY <1>0, <2>1, NextOf
  <2>3. i \in 1 .. Len(w)
    BY <1>1
  <2> QED
    BY <1>2, <2>1, <2>2, <2>3 DEF Reaches, ReachesSize
<1>7. \A j \in 1 .. Len(rest) : j + n + 1 \in 1 .. Len(w) /\ w[j + n + 1] = rest[j]
  <2>1. ASSUME NEW j \in 1 .. Len(rest)
        PROVE  j + n + 1 \in n + 2 .. Len(w) /\ (j + n + 1) - (n + 1) = j
    BY <1>1
  <2> QED
    BY <1>1, <2>1
<1>8. \A g \in Filters : /\ Reaches(rest, g) => Reaches(w, g)
                         /\ ReachesSize(rest, g) => ReachesSize(w, g)
  BY <1>7 DEF Reaches, ReachesSize
<1> QED
  BY <1>1, <1>5, <1>6, <1>8

(* The first entry of a walk and the others. *)
LEMMA WalkAfterTail ==
  ASSUME NEW w \in Seq(Entries), w # << >>, Ordered(w)
  PROVE  /\ Head(w) \in Entries /\ Tail(w) \in Seq(Entries) /\ Ordered(Tail(w))
         /\ \A j \in 1 .. Len(Tail(w)) : InOrder(Head(w), Tail(w)[j])
         /\ \A g \in Filters :
              /\ Reaches(w, g) <=> \/ Head(w).do = "visit" /\ Head(w).filter \in Above[g]
                                   \/ Reaches(Tail(w), g)
              /\ ReachesSize(w, g) <=> \/ /\ Head(w).do = "visit" /\ Head(w).dim = TRUE
                                          /\ Head(w).filter \in Above[g]
                                       \/ ReachesSize(Tail(w), g)
<1> DEFINE t == Tail(w)
<1>1. /\ Len(w) \in Nat \ {0} /\ Head(w) = w[1] /\ w[1] \in Entries
      /\ t \in Seq(Entries) /\ Len(t) = Len(w) - 1
      /\ \A j \in 1 .. Len(w) - 1 : t[j] = w[j + 1]
  OBVIOUS
<1> HIDE DEF t
<1>2. \A i \in 1 .. Len(w) : i = 1 \/ (i - 1 \in 1 .. Len(t) /\ w[i] = t[i - 1])
  <2>1. ASSUME NEW i \in 1 .. Len(w), i # 1
        PROVE  i - 1 \in 1 .. Len(w) - 1 /\ (i - 1) + 1 = i
    BY <1>1, <2>1
  <2> QED
    BY <1>1, <2>1
<1>3. \A j \in 1 .. Len(t) : j + 1 \in 1 .. Len(w) /\ t[j] = w[j + 1] /\ 1 < j + 1
  BY <1>1
<1>4. Ordered(t) /\ \A j \in 1 .. Len(t) : InOrder(Head(w), t[j])
  <2>1. ASSUME NEW i \in 1 .. Len(t), NEW j \in 1 .. Len(t), i < j
        PROVE  InOrder(t[i], t[j])
    <3>1. i + 1 < j + 1
      BY <1>1, <2>1
    <3> QED
      BY <1>3, <3>1 DEF Ordered
  <2>2. 1 \in 1 .. Len(w)
    BY <1>1
  <2> QED
    BY <1>1, <1>3, <2>1, <2>2 DEF Ordered
<1>5. ASSUME NEW g \in Filters
      PROVE  /\ Reaches(w, g) <=> \/ Head(w).do = "visit" /\ Head(w).filter \in Above[g]
                                  \/ Reaches(t, g)
             /\ ReachesSize(w, g) <=> \/ /\ Head(w).do = "visit" /\ Head(w).dim = TRUE
                                         /\ Head(w).filter \in Above[g]
                                      \/ ReachesSize(t, g)
  <2>1. 1 \in 1 .. Len(w)
    BY <1>1
  <2>2. Reaches(w, g) <=> \/ Head(w).do = "visit" /\ Head(w).filter \in Above[g]
                          \/ Reaches(t, g)
    BY <1>1, <1>2, <1>3, <2>1 DEF Reaches
  <2>3. ReachesSize(w, g) <=> \/ /\ Head(w).do = "visit" /\ Head(w).dim = TRUE
                                 /\ Head(w).filter \in Above[g]
                              \/ ReachesSize(t, g)
    BY <1>1, <1>2, <1>3, <2>1 DEF ReachesSize
  <2> QED
    BY <2>2, <2>3
<1> QED
  BY <1>1, <1>4, <1>5 DEF t

-----------------------------------------------------------------------------
(* What a change does to the images and sizes that filters would compute.  *)

LEMMA KindFacts ==
  /\ \A r \in Resamples : r \in Filters \ Sources /\ r \notin Caches
  /\ \A c \in Caches : c \in Filters \ Sources /\ c \notin Resamples
  /\ \A f \in Sources \cup Shapes \cup Pixels :
       f \in Filters /\ f \notin Caches /\ f \notin Resamples
  BY KindsAssumption DEF Filters

LEMMA NowUnchanged ==
  ASSUME UNCHANGED <<setting, enabled, dims>>
  PROVE  /\ \A f \in Filters : Now(f)' = Now(f)
         /\ \A r \in Resamples : \A v : Dimensions(r, v)' = Dimensions(r, v)
<1>1. \A g : State(g)' = State(g)
  BY DEF State, Enabled
<1>2. \A f \in Filters : Now(f)' = Now(f)
  BY <1>1 DEF Now
<1>3. \A r \in Resamples : \A v : Dimensions(r, v)' = Dimensions(r, v)
  BY <1>1 DEF Dimensions
<1> QED
  BY <1>2, <1>3

(* When only the state of x changed, so did only what depends on x. *)
LEMMA NowExcept ==
  ASSUME NEW x \in Filters, \A g \in Filters : g # x => State(g)' = State(g)
  PROVE  /\ \A f \in Filters : x \notin Above[f] => Now(f)' = Now(f)
         /\ \A r \in Resamples : \A v :
              (x \notin Above[Previous[r]] \/ x \notin Sized \/ State(x)' = State(x)) =>
                Dimensions(r, v)' = Dimensions(r, v)
<1>1. ASSUME NEW f \in Filters, x \notin Above[f] PROVE Now(f)' = Now(f)
  <2>1. \A g \in Above[f] : State(g)' = State(g)
    BY <1>1, TreeFacts
  <2> QED
    BY <2>1 DEF Now
<1>2. ASSUME NEW r \in Resamples, NEW v,
             x \notin Above[Previous[r]] \/ x \notin Sized \/ State(x)' = State(x)
      PROVE  Dimensions(r, v)' = Dimensions(r, v)
  <2>1. Previous[r] \in Filters
    BY KindFacts, TreeFacts
  <2>2. \A g \in Above[Previous[r]] \cap Sized : State(g)' = State(g)
    BY <1>2, <2>1, TreeFacts
  <2> QED
    BY <2>2 DEF Dimensions
<1> QED
  BY <1>1, <1>2

LEMMA PendingReaches ==
  ASSUME NEW w \in Seq(Entries), walk = w
  PROVE  \A f : Pending(f) <=> Reaches(walk, f)
  BY DEF Pending, Reaches

(* f changes, announces it as a change of dimensions if d, and `rest' is   *)
(* what was left of the walk without the visit to f.                       *)
IsChangeOf(f, d, rest) ==
  /\ rest \in Seq(Entries) /\ Begins(walk', f, d, rest) /\ Ordered(rest)
  /\ \A g \in Filters : Visit(g, d) \in Entries
  /\ \A j \in 1 .. Len(rest) : rest[j].do = "visit" =>
       rest[j].filter \notin Above[f] /\ f \notin Above[rest[j].filter]
  /\ \A g \in Filters : g # f => State(g)' = State(g)
  /\ \A r \in Resamples : r # f => setting'[r] = setting[r]
  /\ \A r \in Resamples : f \in Above[r] /\ r # f =>
       d = TRUE \/ f \notin Sized \/ State(f)' = State(f)

(* It keeps every other cache and resample filter coherent. *)
LEMMA ChangeKeeps ==
  ASSUME NEW f \in Filters, NEW d, NEW rest, IsChangeOf(f, d, rest),
         \A c \in Caches : c # f /\ cached[c] # None =>
           cached[c].image.of = Now(c) \/ Reaches(rest, c) \/ f \in Above[c],
         \A r \in Resamples : r # f /\ dims[r] # None =>
           \/ dims[r] = Dimensions(r, setting[r]) \/ ReachesSize(rest, r)
           \/ (d = TRUE /\ f \in Above[r])
  PROVE  /\ walk' \in Seq(Entries) /\ Ordered(walk')
         /\ \A c \in Caches : c # f /\ cached[c] # None =>
              cached[c].image.of = Now(c)' \/ Pending(c)'
         /\ \A r \in Resamples : r # f /\ dims[r] # None =>
              dims[r] = Dimensions(r, setting[r])' \/ ReachesSize(walk', r)
<1> USE DEF IsChangeOf
<1> DEFINE w == walk'
<1>1. /\ w \in Seq(Entries) /\ Ordered(w)
      /\ \A g \in Filters : f \in Above[g] /\ f # g =>
           Reaches(w, g) /\ (d = TRUE => ReachesSize(w, g))
      /\ \A g \in Filters : /\ Reaches(rest, g) => Reaches(w, g)
                            /\ ReachesSize(rest, g) => ReachesSize(w, g)
  BY WalkAfterChange
<1>2. \A g : Pending(g)' <=> Reaches(w, g)
  <2>1. w \in Seq(Entries)
    BY <1>1
  <2> QED
    BY <2>1 DEF Pending, Reaches
<1>3. ASSUME NEW c \in Caches, c # f, cached[c] # None
      PROVE  cached[c].image.of = Now(c)' \/ Pending(c)'
  <2>1. c \in Filters
    BY KindFacts
  <2>2. CASE f \in Above[c]
    BY <1>1, <1>2, <1>3, <2>1, <2>2
  <2>3. CASE f \notin Above[c]
    <3>1. Now(c)' = Now(c)
      BY <2>1, <2>3, NowExcept
    <3> QED
      BY <1>1, <1>2, <1>3, <2>1, <2>3, <3>1
  <2> QED
    BY <2>2, <2>3
<1>4. ASSUME NEW r \in Resamples, r # f, dims[r] # None
      PROVE  dims[r] = Dimensions(r, setting[r])' \/ ReachesSize(w, r)
  <2>1. r \in Filters \ Sources /\ Above[r] = {r} \cup Above[Previous[r]]
    BY KindFacts, TreeFacts
  <2>2. CASE d = TRUE /\ f \in Above[r]
    BY <1>1, <1>4, <2>1, <2>2
  <2>3. CASE ~ (d = TRUE /\ f \in Above[r])
    <3>1. f \notin Above[Previous[r]] \/ f \notin Sized \/ State(f)' = State(f)
      BY <1>4, <2>1, <2>3
    <3>2. Dimensions(r, setting[r])' = Dimensions(r, setting[r])
      <4>1. \A v : Dimensions(r, v)' = Dimensions(r, v)
        BY <3>1, NowExcept
      <4>2. Dimensions(r, setting[r])' = Dimensions(r, setting'[r])
        BY <4>1 DEF Dimensions
      <4> QED
        BY <1>4, <4>2
    <3> QED
      BY <1>1, <1>4, <2>1, <2>3, <3>2
  <2> QED
    BY <2>2, <2>3
<1> QED
  BY <1>1, <1>3, <1>4

-----------------------------------------------------------------------------
(* Changes keep the invariant. *)

LEMMA VisitType ==
  ASSUME NEW g \in Filters
  PROVE  /\ Visit(g, TRUE) \in Entries /\ Visit(g, FALSE) \in Entries
         /\ \A e \in Entries : Visit(g, e.dim) \in Entries
  BY DEF Visit, Entries

LEMMA IdleCall ==
  ASSUME call' = Idle
  PROVE  CallInv'
<1>1. /\ DOMAIN Idle = {"end", "roi", "quick", "frames", "image"}
      /\ Idle.quick \in BOOLEAN /\ Idle.roi = {} /\ Idle.frames = << >>
      /\ Idle.image = None
  BY DEF Idle
<1>2. CallType'
  BY <1>1 DEF CallType
<1>3. CallAfterWalk'
  BY DEF CallAfterWalk, Idle
<1>4. FramesLinked' /\ ImageFits'
  BY <1>1 DEF FramesLinked, ImageFits
<1> QED
  BY <1>2, <1>3, <1>4 DEF CallInv

(* The invariant without what it says of requests. *)
StateType ==
  /\ setting \in [Filters \ Caches -> Settings]
  /\ enabled \in [Switchable -> BOOLEAN]
  /\ DOMAIN dims = Resamples
  /\ DOMAIN cached = Caches

CachedType ==
  \A c \in Caches : cached[c] # None =>
    /\ cached[c].roi \in Rois /\ cached[c].quick \in BOOLEAN
    /\ DOMAIN cached[c].image.of = Above[c]

LEMMA TypeParts ==
  TypeOK <=> StateType /\ CachedType /\ walk \in Seq(Entries)
             /\ call.frames \in Seq(FrameSet)
  BY DEF TypeOK, StateType, CachedType, Entries, FrameSet

LEMMA ChangeStep ==
  ASSUME IInv, call' = Idle, StateType',
         NEW f \in Filters, NEW d, NEW rest, IsChangeOf(f, d, rest),
         \A r \in Resamples : r # f => dims'[r] = dims[r],
         \A c \in Caches : c # f => cached'[c] = cached[c],
         f \in Caches => cached'[f] = None,
         f \in Resamples /\ dims'[f] # None =>
           dims'[f] = Dimensions(f, setting[f])' \/ ReachesSize(walk', f),
         \A c \in Caches : Reaches(walk, c) => Reaches(rest, c) \/ f \in Above[c],
         \A r \in Resamples : ReachesSize(walk, r) =>
           ReachesSize(rest, r) \/ (d = TRUE /\ f \in Above[r])
  PROVE  IInv'
<1>1. /\ StateType /\ CachedType /\ walk \in Seq(Entries)
      /\ CachesCoherent /\ SizesFollow /\ CacheHonest
  BY TypeParts DEF IInv
<1>2. \A c \in Caches : c # f /\ cached[c] # None =>
        cached[c].image.of = Now(c) \/ Reaches(rest, c) \/ f \in Above[c]
  BY <1>1, PendingReaches DEF CachesCoherent
<1>3. \A r \in Resamples : r # f /\ dims[r] # None =>
        \/ dims[r] = Dimensions(r, setting[r]) \/ ReachesSize(rest, r)
        \/ (d = TRUE /\ f \in Above[r])
  BY <1>1 DEF SizesFollow
<1>4. /\ walk' \in Seq(Entries) /\ Ordered(walk')
      /\ \A c \in Caches : c # f /\ cached[c] # None =>
           cached[c].image.of = Now(c)' \/ Pending(c)'
      /\ \A r \in Resamples : r # f /\ dims[r] # None =>
           dims[r] = Dimensions(r, setting[r])' \/ ReachesSize(walk', r)
  BY <1>2, <1>3, ChangeKeeps
<1>5. CachesCoherent'
  BY <1>4 DEF CachesCoherent
<1>6. SizesFollow'
  <2>1. ASSUME NEW r \in Resamples, dims'[r] # None
        PROVE  dims'[r] = Dimensions(r, setting[r])' \/ ReachesSize(walk', r)
    BY <1>4, <2>1
  <2> QED
    BY <2>1 DEF SizesFollow
<1>7. CacheHonest'
  BY <1>1 DEF CacheHonest
<1>8. CallInv'
  BY IdleCall
<1>9. TypeOK'
  <2>1. CachedType'
    BY <1>1 DEF CachedType
  <2>2. call'.frames \in Seq(FrameSet)
    BY DEF Idle
  <2> QED
    BY <1>4, <2>1, <2>2
       DEF TypeOK, StateType, CachedType, Entries, FrameSet
<1> QED
  BY <1>4, <1>5, <1>6, <1>7, <1>8, <1>9 DEF IInv

(* A change when nothing is under way. *)
LEMMA QuietStep ==
  ASSUME IInv, Quiet, UNCHANGED <<cached, call>>, StateType',
         NEW f \in Filters, NEW d, f \notin Caches,
         \A g \in Filters : Visit(g, d) \in Entries,
         walk' = Changed(f, d),
         \A g \in Filters : g # f => State(g)' = State(g),
         \A r \in Resamples : r # f => setting'[r] = setting[r] /\ dims'[r] = dims[r],
         f \in Resamples /\ dims'[f] # None => dims'[f] = Dimensions(f, setting[f])',
         \A r \in Resamples : f \in Above[r] /\ r # f =>
           d = TRUE \/ f \notin Sized \/ State(f)' = State(f)
  PROVE  IInv'
<1>1. PICK rest : rest = << >>
  OBVIOUS
<1>2. rest \in Seq(Entries) /\ Len(rest) = 0
  BY <1>1
<1>3. Begins(walk', f, d, rest)
  <2>1. [i \in 1 .. Len(NextFilters[f]) |-> Visit(NextFilters[f][i], d)] \in Seq(Entries)
    BY NextOf
  <2>2. <<Emit(f)>> \in Seq(Entries)
    BY DEF Emit, Entries
  <2>3. Changed(f, d) \in Seq(Entries)
    BY <2>1, <2>2, ConcatProperties DEF Changed
  <2>4. Changed(f, d) \o << >> = Changed(f, d)
    BY <2>3, ConcatEmptySeq
  <2> QED
    BY <1>1, <2>4 DEF Begins
<1>4. Ordered(rest)
  BY <1>2 DEF Ordered
<1>5. \A j \in 1 .. Len(rest) : FALSE
  BY <1>2
<1>6. \A g : ~ Reaches(walk, g) /\ ~ ReachesSize(walk, g)
  BY <1>1, <1>2 DEF Quiet, Reaches, ReachesSize
<1>7. call' = Idle
  BY DEF Quiet
<1>8. IsChangeOf(f, d, rest)
  BY <1>2, <1>3, <1>4, <1>5 DEF IsChangeOf
<1> QED
  BY <1>6, <1>7, <1>8, ChangeStep

LEMMA AssignKeeps ==
  ASSUME IInv, NEW f \in Filters, NEW v \in Settings, Assign(f, v)
  PROVE  IInv'
<1>1. /\ Quiet /\ f \in Sources \cup Shapes \cup Pixels
      /\ setting' = [setting EXCEPT ![f] = v]
      /\ walk' = Changed(f, f \in Sized)
      /\ UNCHANGED <<enabled, dims, cached, call>>
  BY DEF Assign
<1>2. StateType
  BY TypeParts DEF IInv
<1>3. f \notin Caches /\ f \notin Resamples
  BY <1>1, KindFacts
<1>4. StateType'
  BY <1>1, <1>2, <1>3 DEF StateType
<1>5. \A g \in Filters : g # f => State(g)' = State(g)
  BY <1>1, <1>2 DEF State, Enabled, StateType
<1>6. \A r \in Resamples : r # f => setting'[r] = setting[r] /\ dims'[r] = dims[r]
  BY <1>1, <1>2, KindFacts DEF StateType
<1>7. CASE f \in Sized
  <2>1. walk' = Changed(f, TRUE)
    BY <1>1, <1>7 DEF Changed, Visit
  <2>2. \A g \in Filters : Visit(g, TRUE) \in Entries
    BY VisitType
  <2> QED
    BY <1>1, <1>3, <1>4, <1>5, <1>6, <2>1, <2>2, QuietStep
<1>8. CASE f \notin Sized
  <2>1. walk' = Changed(f, FALSE)
    <3>1. (f \in Sized) = FALSE
      BY <1>8
    <3> QED
      BY <1>1, <3>1
  <2>2. \A g \in Filters : Visit(g, FALSE) \in Entries
    BY VisitType
  <2> QED
    BY <1>1, <1>3, <1>4, <1>5, <1>6, <1>8, <2>1, <2>2, QuietStep
<1> QED
  BY <1>7, <1>8

LEMMA SetTargetKeeps ==
  ASSUME IInv, NEW r \in Filters, NEW v \in Settings, SetTarget(r, v)
  PROVE  IInv'
<1>1. /\ Quiet /\ r \in Resamples
      /\ setting' = [setting EXCEPT ![r] = v]
      /\ dims' = [dims EXCEPT ![r] = Dimensions(r, v)]
      /\ walk' = Changed(r, TRUE)
      /\ UNCHANGED <<enabled, cached, call>>
  BY DEF SetTarget
<1>2. StateType
  BY TypeParts DEF IInv
<1>3. r \notin Caches /\ r \in Filters \ Sources
  BY <1>1, KindFacts
<1>4. StateType'
  BY <1>1, <1>2, <1>3 DEF StateType
<1>5. \A g \in Filters : g # r => State(g)' = State(g)
  BY <1>1, <1>2 DEF State, Enabled, StateType
<1>6. \A q \in Resamples : q # r => setting'[q] = setting[q] /\ dims'[q] = dims[q]
  BY <1>1, <1>2, KindFacts DEF StateType
<1>7. dims'[r] = Dimensions(r, setting[r])'
  <2>1. setting'[r] = v /\ dims'[r] = Dimensions(r, v)
    BY <1>1, <1>2, <1>3 DEF StateType
  <2>2. Dimensions(r, v)' = Dimensions(r, v)
    BY <1>1, <1>3, <1>5, NowExcept, TreeFacts
  <2>3. Dimensions(r, setting[r])' = Dimensions(r, v)'
    BY <2>1 DEF Dimensions
  <2> QED
    BY <2>1, <2>2, <2>3
<1>8. \A g \in Filters : Visit(g, TRUE) \in Entries
  BY VisitType
<1> QED
  BY <1>1, <1>3, <1>4, <1>5, <1>6, <1>7, <1>8, QuietStep

(* Disabling a resample filter is announced as a change of pixels: it is   *)
(* enough because no other resample filter is behind what can be switched. *)
LEMMA SetEnabledKeeps ==
  ASSUME IInv, NEW f \in Switchable, NEW on \in BOOLEAN, SetEnabled(f, on)
  PROVE  IInv'
<1>1. /\ Quiet
      /\ enabled' = [enabled EXCEPT ![f] = on]
      /\ walk' = Changed(f, FALSE)
      /\ UNCHANGED <<setting, dims, cached, call>>
  BY DEF SetEnabled
<1>2. StateType /\ SizesFollow
  BY TypeParts DEF IInv
<1>3. f \in Filters /\ f \notin Caches
  BY SwitchAssumption, KindFacts DEF Filters
<1>4. StateType'
  <2>1. enabled' \in [Switchable -> BOOLEAN]
    BY <1>1, <1>2 DEF StateType
  <2> QED
    BY <1>1, <1>2, <2>1 DEF StateType
<1>5. \A g \in Filters : g # f => State(g)' = State(g)
  BY <1>1, <1>2 DEF State, Enabled, StateType
<1>6. \A r \in Resamples : r # f => setting'[r] = setting[r] /\ dims'[r] = dims[r]
  BY <1>1
<1>7. ASSUME f \in Resamples, dims'[f] # None
      PROVE  dims'[f] = Dimensions(f, setting[f])'
  <2>1. dims[f] = Dimensions(f, setting[f])
    BY <1>1, <1>2, <1>7 DEF SizesFollow, ReachesSize, Quiet
  <2>2. f \notin Above[Previous[f]]
    BY <1>7, KindFacts, TreeFacts
  <2>3. \A v : Dimensions(f, v)' = Dimensions(f, v)
    BY <1>3, <1>5, <1>7, <2>2, NowExcept
  <2>4. Dimensions(f, setting[f])' = Dimensions(f, setting[f])
    <3>1. Dimensions(f, setting[f])' = Dimensions(f, setting'[f])
      BY <2>3 DEF Dimensions
    <3> QED
      BY <1>1, <3>1
  <2> QED
    BY <1>1, <2>1, <2>4
<1>8. \A r \in Resamples : f \in Above[r] /\ r # f => FALSE
  BY SwitchAssumption
<1>9. \A g \in Filters : Visit(g, FALSE) \in Entries
  BY VisitType
<1> QED
  BY <1>1, <1>3, <1>4, <1>5, <1>6, <1>7, <1>8, <1>9, QuietStep

(* previous_changed() of f leaves `rest' of the walk. *)
IsRest(rest, d, f) ==
  /\ rest \in Seq(Entries) /\ Ordered(rest) /\ Begins(walk', f, d, rest)
  /\ \A g \in Filters : Visit(g, d) \in Entries
  /\ \A j \in 1 .. Len(rest) : rest[j].do = "visit" =>
       rest[j].filter \notin Above[f] /\ f \notin Above[rest[j].filter]
  /\ \A g \in Filters :
       /\ Reaches(walk, g) => Reaches(rest, g) \/ f \in Above[g]
       /\ ReachesSize(walk, g) => ReachesSize(rest, g) \/ (d = TRUE /\ f \in Above[g])

LEMMA VisitLeaves ==
  ASSUME IInv, NEW f \in Filters, Visiting(f), PassOn(f)
  PROVE  IsRest(Tail(walk), Head(walk).dim, f)
<1>1. walk \in Seq(Entries) /\ walk # << >> /\ Ordered(walk)
  BY TypeParts DEF IInv, Visiting
<1>2. PICK head, rest : head = Head(walk) /\ rest = Tail(walk)
  OBVIOUS
<1>3. head.do = "visit" /\ head.filter = f
  BY <1>2 DEF Visiting
<1>4. /\ head \in Entries /\ rest \in Seq(Entries) /\ Ordered(rest)
      /\ \A j \in 1 .. Len(rest) : InOrder(head, rest[j])
      /\ \A g \in Filters :
           /\ Reaches(walk, g) <=> \/ head.do = "visit" /\ head.filter \in Above[g]
                                   \/ Reaches(rest, g)
           /\ ReachesSize(walk, g) <=> \/ /\ head.do = "visit" /\ head.dim = TRUE
                                          /\ head.filter \in Above[g]
                                       \/ ReachesSize(rest, g)
  BY <1>1, <1>2, WalkAfterTail
<1>5. Begins(walk', f, head.dim, rest)
  BY <1>2 DEF PassOn, Begins
<1>6. \A g \in Filters : Visit(g, head.dim) \in Entries
  BY <1>4, VisitType
<1>7. \A j \in 1 .. Len(rest) : rest[j].do = "visit" =>
        rest[j].filter \notin Above[f] /\ f \notin Above[rest[j].filter]
  BY <1>3, <1>4 DEF InOrder
<1>8. ASSUME NEW g \in Filters
      PROVE  /\ Reaches(walk, g) => Reaches(rest, g) \/ f \in Above[g]
             /\ ReachesSize(walk, g) => ReachesSize(rest, g) \/ (head.dim = TRUE /\ f \in Above[g])
  <2>1. head.filter \in Above[g] => f \in Above[g]
    BY <1>3
  <2>2. Reaches(walk, g) => head.filter \in Above[g] \/ Reaches(rest, g)
    BY <1>4
  <2>3. ReachesSize(walk, g) => (head.dim = TRUE /\ head.filter \in Above[g]) \/ ReachesSize(rest, g)
    <3>1. ReachesSize(walk, g) <=> \/ /\ head.do = "visit" /\ head.dim = TRUE
                                      /\ head.filter \in Above[g]
                                   \/ ReachesSize(rest, g)
      BY <1>4
    <3> QED
      BY <3>1
  <2>4. ReachesSize(walk, g) => ReachesSize(rest, g) \/ (head.dim = TRUE /\ f \in Above[g])
    BY <2>1, <2>3
  <2>5. Reaches(walk, g) => Reaches(rest, g) \/ f \in Above[g]
    BY <2>1, <2>2
  <2> QED
    BY <2>4, <2>5
<1>9. IsRest(rest, head.dim, f)
  BY <1>4, <1>5, <1>6, <1>7, <1>8 DEF IsRest
<1> QED
  BY <1>2, <1>9

LEMMA VisitsKeep ==
  ASSUME IInv, NEW f \in Filters, VisitCache(f) \/ VisitResample(f) \/ VisitOther(f)
  PROVE  IInv'
<1>1. Visiting(f) /\ PassOn(f) /\ UNCHANGED <<setting, enabled, call>>
  BY DEF VisitCache, VisitResample, VisitOther
<1>2. PICK rest : rest = Tail(walk)
  OBVIOUS
<1>3. PICK d : d = Head(walk).dim
  OBVIOUS
<1>4. /\ rest \in Seq(Entries) /\ Ordered(rest) /\ Begins(walk', f, d, rest)
      /\ \A g \in Filters : Visit(g, d) \in Entries
      /\ \A j \in 1 .. Len(rest) : rest[j].do = "visit" =>
           rest[j].filter \notin Above[f] /\ f \notin Above[rest[j].filter]
      /\ \A g \in Filters :
           /\ Reaches(walk, g) => Reaches(rest, g) \/ f \in Above[g]
           /\ ReachesSize(walk, g) => ReachesSize(rest, g) \/ (d = TRUE /\ f \in Above[g])
  BY <1>1, <1>2, <1>3, VisitLeaves DEF IsRest
<1>5. StateType /\ SizesFollow
  BY TypeParts DEF IInv
<1>6. call' = Idle
  BY <1>1 DEF Visiting
<1>7. /\ \A r \in Resamples : r # f => dims'[r] = dims[r]
      /\ \A c \in Caches : c # f => cached'[c] = cached[c]
      /\ f \in Caches => cached'[f] = None
      /\ DOMAIN dims' = Resamples /\ DOMAIN cached' = Caches
      /\ f \in Resamples => dims' = IF d = TRUE THEN [dims EXCEPT ![f] = Dimensions(f, setting[f])]
                                        ELSE dims
  <2>1. CASE VisitCache(f)
    BY <1>5, <2>1, KindFacts DEF VisitCache, StateType
  <2>2. CASE VisitResample(f)
    <3>1. /\ f \in Resamples /\ cached' = cached
          /\ dims' = IF d = TRUE THEN [dims EXCEPT ![f] = Dimensions(f, setting[f])] ELSE dims
      BY <1>3, <2>2 DEF VisitResample
    <3> QED
      BY <1>5, <3>1, KindFacts DEF StateType
  <2>3. CASE VisitOther(f)
    BY <1>5, <2>3, KindFacts DEF VisitOther, StateType
  <2> QED
    BY <2>1, <2>2, <2>3
<1>8. StateType'
  BY <1>1, <1>5, <1>7 DEF StateType
<1>9. \A g \in Filters : g # f => State(g)' = State(g)
  BY <1>1, <1>7 DEF State, Enabled
<1>10. ASSUME f \in Resamples, dims'[f] # None
       PROVE  dims'[f] = Dimensions(f, setting[f])' \/ ReachesSize(walk', f)
  <2>1. f \notin Above[Previous[f]]
    BY <1>10, KindFacts, TreeFacts
  <2>2. \A v : Dimensions(f, v)' = Dimensions(f, v)
    BY <1>9, <1>10, <2>1, NowExcept
  <2>3. Dimensions(f, setting[f])' = Dimensions(f, setting[f])
    <3>1. Dimensions(f, setting[f])' = Dimensions(f, setting'[f])
      BY <2>2 DEF Dimensions
    <3> QED
      BY <1>1, <3>1
  <2>4. CASE d = TRUE
    BY <1>5, <1>7, <1>10, <2>3, <2>4 DEF StateType
  <2>5. CASE d # TRUE
    <3>1. dims'[f] = dims[f]
      BY <1>7, <1>10, <2>5
    <3>2. dims[f] = Dimensions(f, setting[f]) \/ ReachesSize(rest, f)
      BY <1>4, <1>5, <1>10, <2>5, <3>1 DEF SizesFollow
    <3>3. ReachesSize(rest, f) => ReachesSize(walk', f)
      BY <1>4, WalkAfterChange
    <3> QED
      BY <2>3, <3>1, <3>2, <3>3
  <2> QED
    BY <2>4, <2>5
<1>11. /\ \A c \in Caches : Reaches(walk, c) => Reaches(rest, c) \/ f \in Above[c]
       /\ \A r \in Resamples : ReachesSize(walk, r) => ReachesSize(rest, r) \/ (d = TRUE /\ f \in Above[r])
  BY <1>4, KindFacts
<1>12. d = TRUE \/ State(f)' = State(f)
  BY <1>1, <1>7 DEF State, Enabled
<1>13. IsChangeOf(f, d, rest)
  BY <1>1, <1>4, <1>9, <1>12 DEF IsChangeOf
<1>14. /\ \A r \in Resamples : r # f => dims'[r] = dims[r]
       /\ \A c \in Caches : c # f => cached'[c] = cached[c]
       /\ f \in Caches => cached'[f] = None
       /\ f \in Resamples /\ dims'[f] # None =>
            dims'[f] = Dimensions(f, setting[f])' \/ ReachesSize(walk', f)
  BY <1>7, <1>10
<1> HIDE DEF Visiting
<1> QED
  BY <1>6, <1>8, <1>11, <1>13, <1>14, ChangeStep

-----------------------------------------------------------------------------
(* Requests keep the invariant. *)

(* What holds of the images and sizes stays, while the states of the       *)
(* filters and what the walk has still to reach stay.                      *)
LEMMA StillKeeps ==
  ASSUME IInv, UNCHANGED <<setting, enabled, dims>>,
         walk' \in Seq(Entries), Ordered(walk'),
         \A g \in Filters : /\ Reaches(walk', g) <=> Reaches(walk, g)
                            /\ ReachesSize(walk', g) <=> ReachesSize(walk, g),
         DOMAIN cached' = Caches, CachedType', CacheHonest',
         \A c \in Caches : \/ cached'[c] = cached[c] \/ cached'[c] = None
                           \/ cached'[c].image.of = Now(c),
         CallInv'
  PROVE  IInv'
<1>1. /\ StateType /\ walk \in Seq(Entries) /\ CachesCoherent /\ SizesFollow
  BY TypeParts DEF IInv
<1>2. /\ \A f \in Filters : Now(f)' = Now(f)
      /\ \A r \in Resamples : \A v : Dimensions(r, v)' = Dimensions(r, v)
  BY NowUnchanged
<1>3. CachesCoherent'
  <2>1. ASSUME NEW c \in Caches, cached'[c] # None
        PROVE  cached'[c].image.of = Now(c)' \/ Pending(c)'
    <3>1. c \in Filters
      BY KindFacts
    <3>2. Pending(c)' <=> Reaches(walk', c)
      BY DEF Pending, Reaches
    <3>3. cached[c] # None => cached[c].image.of = Now(c) \/ Reaches(walk, c)
      BY <1>1, PendingReaches DEF CachesCoherent
    <3> QED
      BY <1>2, <2>1, <3>1, <3>2, <3>3
  <2> QED
    BY <2>1 DEF CachesCoherent
<1>4. SizesFollow'
  <2>1. ASSUME NEW r \in Resamples, dims'[r] # None
        PROVE  dims'[r] = Dimensions(r, setting[r])' \/ ReachesSize(walk', r)
    <3>1. r \in Filters
      BY KindFacts
    <3>2. Dimensions(r, setting[r])' = Dimensions(r, setting[r])
      <4>1. Dimensions(r, setting[r])' = Dimensions(r, setting'[r])
        BY <1>2 DEF Dimensions
      <4> QED
        BY <4>1
    <3> QED
      BY <1>1, <2>1, <3>1, <3>2 DEF SizesFollow
  <2> QED
    BY <2>1 DEF SizesFollow
<1>5. TypeOK'
  BY <1>1 DEF TypeOK, StateType, CachedType, Entries, FrameSet, CallInv, CallType
<1> QED
  BY <1>3, <1>4, <1>5 DEF IInv

LEMMA RequestedCall ==
  ASSUME NEW e \in Filters, NEW roi \in Rois, NEW quick \in BOOLEAN,
         call' = Requested(e, roi, quick), ~ Reaches(walk', e)
  PROVE  CallInv'
<1>1. /\ DOMAIN call' = {"end", "roi", "quick", "frames", "image"}
      /\ call'.end = e /\ call'.roi = roi /\ call'.image = None
      /\ call'.frames = <<Frame(e, roi)>>
  BY DEF Requested
<1>2. call'.quick \in BOOLEAN
  BY DEF Requested
<1>3. Frame(e, roi) \in FrameSet /\ Frame(e, roi).filter = e /\ Frame(e, roi).roi = roi
  BY DEF Frame, FrameSet
<1>4. CallType'
  BY <1>1, <1>2, <1>3 DEF CallType, Rois
<1>5. CallAfterWalk'
  BY <1>1 DEF CallAfterWalk
<1>6. /\ Len(call'.frames) = 1 /\ call'.frames[1] = Frame(e, roi)
  BY <1>1
<1>7. FramesLinked'
  BY <1>1, <1>3, <1>6, TreeFacts DEF FramesLinked
<1>8. ImageFits'
  BY <1>1 DEF ImageFits
<1> QED
  BY <1>4, <1>5, <1>7, <1>8 DEF CallInv

LEMMA EmitKeeps ==
  ASSUME IInv, EmitChanged
  PROVE  IInv'
<1>1. /\ walk # << >> /\ Head(walk).do = "emit" /\ walk' = Tail(walk) /\ call = Idle
      /\ UNCHANGED <<setting, enabled, dims, cached>>
  BY DEF EmitChanged
<1>2. walk \in Seq(Entries) /\ Ordered(walk) /\ StateType /\ CachedType /\ CacheHonest
  BY TypeParts DEF IInv
<1>3. PICK f, rest : f = Head(walk).filter /\ rest = Tail(walk)
  OBVIOUS
<1>4. /\ Head(walk) \in Entries /\ rest \in Seq(Entries) /\ Ordered(rest)
      /\ \A j \in 1 .. Len(rest) : InOrder(Head(walk), rest[j])
      /\ \A g \in Filters : /\ Reaches(walk, g) <=> Reaches(rest, g)
                            /\ ReachesSize(walk, g) <=> ReachesSize(rest, g)
  BY <1>1, <1>2, <1>3, WalkAfterTail
<1>5. f \in Filters
  BY <1>3, <1>4 DEF Entries
<1>6. ~ Reaches(rest, f)
  BY <1>3, <1>4 DEF InOrder, Reaches
<1>7. CallInv'
  <2>1. CASE f \in Renderers
    <3>1. call' = Requested(f, Tiles, TRUE)
      BY <1>3, <2>1 DEF EmitChanged
    <3>2. Tiles \in Rois
      BY KindsAssumption DEF Rois
    <3>3. PICK quick \in BOOLEAN : quick = TRUE
      OBVIOUS
    <3>4. call' = Requested(f, Tiles, quick)
      BY <3>1, <3>3
    <3>5. ~ Reaches(walk', f)
      BY <1>1, <1>3, <1>6
    <3> QED
      BY <1>5, <3>2, <3>4, <3>5, RequestedCall
  <2>2. CASE f \notin Renderers
    BY <1>3, <2>2, IdleCall DEF EmitChanged
  <2> QED
    BY <2>1, <2>2
<1>8. DOMAIN cached' = Caches /\ CachedType' /\ CacheHonest'
  BY <1>1, <1>2 DEF StateType, CachedType, CacheHonest
<1>9. /\ walk' \in Seq(Entries) /\ Ordered(walk')
      /\ \A g \in Filters : /\ Reaches(walk', g) <=> Reaches(walk, g)
                            /\ ReachesSize(walk', g) <=> ReachesSize(walk, g)
  BY <1>1, <1>3, <1>4
<1>10. UNCHANGED <<setting, enabled, dims>> /\ \A c \in Caches : cached'[c] = cached[c]
  BY <1>1
<1> QED
  BY <1>7, <1>8, <1>9, <1>10, StillKeeps

LEMMA RequestKeeps ==
  ASSUME IInv, NEW e \in Ends, NEW roi \in Rois, NEW quick \in BOOLEAN,
         Request(e, roi, quick)
  PROVE  IInv'
<1>1. /\ walk = << >> /\ call' = Requested(e, roi, quick)
      /\ UNCHANGED <<setting, enabled, dims, cached, walk>>
  BY DEF Request, Quiet
<1>2. e \in Filters
  BY KindsAssumption
<1>3. walk \in Seq(Entries) /\ Ordered(walk) /\ StateType /\ CachedType /\ CacheHonest
  BY TypeParts DEF IInv
<1>4. ~ Reaches(walk', e)
  BY <1>1 DEF Reaches
<1>5. CallInv'
  BY <1>1, <1>2, <1>4, RequestedCall
<1>6. DOMAIN cached' = Caches /\ CachedType' /\ CacheHonest'
  BY <1>1, <1>3 DEF StateType, CachedType, CacheHonest
<1> QED
  BY <1>1, <1>3, <1>5, <1>6, StillKeeps

(* A request under way, and its topmost frame. *)
LEMMA Busy ==
  ASSUME CallInv, call.frames # << >>
  PROVE  /\ call # Idle /\ call.end \in Filters /\ ~ Reaches(walk, call.end)
         /\ call.frames \in Seq(FrameSet) /\ Len(call.frames) \in Nat \ {0}
         /\ Top = call.frames[1] /\ Top \in FrameSet
         /\ Top.filter \in Filters /\ Top.filter \in Above[call.end]
<1>1. call # Idle
  BY DEF Idle
<1>2. call.frames \in Seq(FrameSet)
  BY DEF CallInv, CallType
<1>3. /\ Len(call.frames) \in Nat \ {0} /\ Top = call.frames[1] /\ Top \in FrameSet
  BY <1>2 DEF Top
<1>4. Top.filter \in Filters
  BY <1>3 DEF FrameSet
<1>5. Top.filter \in Above[call.end]
  BY <1>3 DEF CallInv, FramesLinked
<1> QED
  BY <1>1, <1>2, <1>3, <1>4, <1>5 DEF CallInv, CallAfterWalk

(* The topmost frame answers. *)
LEMMA AnswerKeeps ==
  ASSUME CallInv, call.frames # << >>, NEW image, Answer(image),
         UNCHANGED <<setting, enabled, dims, walk>>,
         image.of = Now(Top.filter), Top.roi \subseteq image.area,
         image.quick => call.quick
  PROVE  CallInv'
<1>1. /\ call # Idle /\ call.end \in Filters /\ ~ Reaches(walk, call.end)
      /\ call.frames \in Seq(FrameSet) /\ Len(call.frames) \in Nat \ {0}
      /\ Top = call.frames[1] /\ Top \in FrameSet
  BY Busy
<1>2. CallType /\ FramesLinked
  BY DEF CallInv
<1>3. /\ DOMAIN call' = DOMAIN call
      /\ call'.end = call.end /\ call'.roi = call.roi /\ call'.quick = call.quick
      /\ call'.image = image /\ call'.frames = Tail(call.frames)
  BY <1>2 DEF Answer, CallType
<1>4. PICK s, t, n : s = call.frames /\ t = call'.frames /\ n = Len(s)
  OBVIOUS
<1>5. /\ n \in Nat \ {0} /\ t \in Seq(FrameSet) /\ Len(t) = n - 1
      /\ \A i \in 1 .. n - 1 : t[i] = s[i + 1]
  BY <1>1, <1>3, <1>4
<1>6. CallType'
  BY <1>2, <1>3, <1>4, <1>5 DEF CallType
<1>7. CallAfterWalk'
  <2>1. ~ Reaches(walk', call'.end)
    BY <1>1, <1>3
  <2> QED
    BY <1>1, <1>3, <2>1 DEF CallAfterWalk
<1>8. \A i \in 1 .. n - 1 : i + 1 \in 2 .. n /\ i + 1 \in 1 .. n /\ (i + 1) - 1 = i
  BY <1>5
<1>9. /\ \A i \in 1 .. n : s[i].filter \in Above[call.end]
      /\ \A i \in 2 .. n : /\ AskedFits(s[i])
                           /\ Previous[s[i].filter] = s[i - 1].filter
                           /\ s[i].asked = s[i - 1].roi
      /\ s[n].filter = call.end /\ s[n].roi = call.roi
  BY <1>1, <1>2, <1>4 DEF FramesLinked
<1>10. FramesLinked'
  <2>1. \A i \in 1 .. Len(t) : t[i].filter \in Above[call.end]
    BY <1>5, <1>8, <1>9
  <2>2. ASSUME NEW i \in 2 .. Len(t)
        PROVE  /\ AskedFits(t[i])
               /\ Previous[t[i].filter] = t[i - 1].filter
               /\ t[i].asked = t[i - 1].roi
    <3>1. /\ i \in 1 .. n - 1 /\ i - 1 \in 1 .. n - 1
          /\ i + 1 \in 2 .. n /\ (i + 1) - 1 = i /\ (i - 1) + 1 = i
      BY <1>5
    <3>2. t[i] = s[i + 1] /\ t[i - 1] = s[i]
      BY <1>5, <3>1
    <3> QED
      BY <1>9, <3>1, <3>2
  <2>3. ASSUME t # << >>
        PROVE  t[Len(t)].filter = call.end /\ t[Len(t)].roi = call.roi
    <3>1. Len(t) \in 1 .. n - 1 /\ (n - 1) + 1 = n
      BY <1>5, <2>3
    <3>2. t[Len(t)] = s[n]
      BY <1>5, <3>1
    <3> QED
      BY <1>9, <3>2
  <2> QED
    BY <1>3, <1>4, <2>1, <2>2, <2>3 DEF FramesLinked
<1>11. \A f \in Filters : Now(f)' = Now(f)
  BY NowUnchanged
<1>12. Top.filter \in Filters
  BY Busy
<1>13. ASSUME t = << >>
       PROVE  image.of = Now(call.end)' /\ call.roi \subseteq image.area
  <2>1. n = 1
    BY <1>5, <1>13
  <2>2. Top.filter = call.end /\ Top.roi = call.roi
    BY <1>1, <1>4, <1>9, <2>1
  <2> QED
    BY <1>1, <1>3, <1>11, <2>2 DEF Now
<1>14. ASSUME t # << >>
       PROVE  /\ AskedFits(t[1]) /\ t[1].asked \subseteq image.area
              /\ image.of = Now(Previous[t[1].filter])'
  <2>1. 1 \in 1 .. n - 1 /\ 1 + 1 = 2 /\ 2 \in 2 .. n /\ 2 - 1 = 1
    BY <1>5, <1>14
  <2>2. t[1] = s[2]
    BY <1>5, <2>1
  <2>3. AskedFits(t[1]) /\ Previous[t[1].filter] = Top.filter /\ t[1].asked = Top.roi
    BY <1>1, <1>4, <1>9, <2>1, <2>2
  <2> QED
    BY <1>11, <1>12, <2>3
<1>15. t # << >> => Head(t) = t[1]
  BY <1>5
<1>16. ImageFits'
  <2>1. image.quick => call'.quick
    BY <1>3
  <2>2. call'.frames = << >> => image.of = Now(call.end)' /\ call'.roi \subseteq image.area
    BY <1>3, <1>4, <1>13
  <2>3. ASSUME call'.frames # << >>
        PROVE  /\ AskedFits(Top)' /\ Top'.asked \subseteq image.area
               /\ image.of = Now(Previous[Top.filter])'
    <3>1. Top' = t[1]
      BY <1>4, <1>15, <2>3 DEF Top
    <3>2. image.of = Now(Previous[Top.filter])'
      BY <1>4, <1>14, <2>3, <3>1 DEF Now
    <3>3. AskedFits(Top)'
      BY <1>4, <1>14, <2>3, <3>1 DEF AskedFits
    <3> QED
      BY <1>4, <1>14, <2>3, <3>1, <3>2, <3>3
  <2> QED
    BY <1>3, <2>1, <2>2, <2>3 DEF ImageFits
<1> QED
  BY <1>6, <1>7, <1>10, <1>16 DEF CallInv

(* The topmost frame asks the previous filter. *)
LEMMA AskKeeps ==
  ASSUME CallInv, call.frames # << >>, call.image = None,
         NEW f \in Filters \ Sources, Top.filter = f,
         NEW roi \in Rois, AskPrevious(f, roi),
         f \notin Shapes => Top.roi \subseteq roi,
         f \in IgnoreRoi => roi = Tiles,
         UNCHANGED walk
  PROVE  CallInv'
<1>1. /\ call # Idle /\ call.end \in Filters /\ ~ Reaches(walk, call.end)
      /\ call.frames \in Seq(FrameSet) /\ Len(call.frames) \in Nat \ {0}
      /\ Top = call.frames[1] /\ Top \in FrameSet /\ Top.filter \in Above[call.end]
  BY Busy
<1>2. CallType /\ FramesLinked
  BY DEF CallInv
<1>3. PICK s, n, asking, asked : /\ s = call.frames /\ n = Len(s)
                                 /\ asking = [Top EXCEPT !.asked = roi]
                                 /\ asked = Frame(Previous[f], roi)
  OBVIOUS
<1>4. PICK t : t = <<asked, asking>> \o Tail(s)
  OBVIOUS
<1>5. /\ DOMAIN call' = DOMAIN call
      /\ call'.end = call.end /\ call'.roi = call.roi /\ call'.quick = call.quick
      /\ call'.image = None /\ call'.frames = t
  BY <1>2, <1>3, <1>4 DEF AskPrevious, CallType
<1>6. /\ asking \in FrameSet /\ asking.filter = f /\ asking.roi = Top.roi
      /\ asking.asked = roi
  BY <1>1, <1>3 DEF FrameSet, Rois
<1>7. /\ asked \in FrameSet /\ asked.filter = Previous[f] /\ asked.roi = roi
  <2>1. Previous[f] \in Filters
    BY TreeFacts
  <2> QED
    BY <1>3, <2>1 DEF Frame, FrameSet
<1>8. /\ n \in Nat \ {0} /\ Tail(s) \in Seq(FrameSet) /\ Len(Tail(s)) = n - 1
      /\ \A i \in 1 .. n - 1 : Tail(s)[i] = s[i + 1]
  BY <1>1, <1>3
<1>9. /\ t \in Seq(FrameSet) /\ Len(t) = n + 1 /\ t[1] = asked /\ t[2] = asking
      /\ \A i \in 3 .. n + 1 : t[i] = s[i - 1]
  <2>1. PICK two : two = <<asked, asking>>
    OBVIOUS
  <2>2. two \in Seq(FrameSet) /\ Len(two) = 2 /\ two[1] = asked /\ two[2] = asking
    BY <1>6, <1>7, <2>1
  <2>3. t \in Seq(FrameSet) /\ IsConcat(t, two, Tail(s))
    BY <1>4, <1>8, <2>1, <2>2, ConcatEntries
  <2>4. /\ Len(t) = n + 1 /\ t[1] = asked /\ t[2] = asking
        /\ \A i \in 3 .. n + 1 : t[i] = Tail(s)[i - 2]
    BY <1>8, <2>2, <2>3 DEF IsConcat
  <2>5. ASSUME NEW i \in 3 .. n + 1 PROVE t[i] = s[i - 1]
    <3>1. i - 2 \in 1 .. n - 1 /\ (i - 2) + 1 = i - 1
      BY <1>8
    <3> QED
      BY <1>8, <2>4, <3>1
  <2> QED
    BY <2>3, <2>4, <2>5
<1>10. CallType'
  BY <1>2, <1>5, <1>9 DEF CallType
<1>11. CallAfterWalk'
  <2>1. ~ Reaches(walk', call'.end)
    BY <1>1, <1>5
  <2> QED
    BY <1>1, <1>5, <2>1 DEF CallAfterWalk
<1>12. /\ \A i \in 1 .. n : s[i].filter \in Above[call.end]
       /\ \A i \in 2 .. n : /\ AskedFits(s[i])
                            /\ Previous[s[i].filter] = s[i - 1].filter
                            /\ s[i].asked = s[i - 1].roi
       /\ s[n].filter = call.end /\ s[n].roi = call.roi
  BY <1>1, <1>2, <1>3 DEF FramesLinked
<1>13. ASSUME NEW i \in 1 .. Len(t) PROVE t[i].filter \in Above[call.end]
  <2>1. CASE i = 1
    <3>1. Previous[f] \in Above[f]
      BY TreeFacts
    <3>2. Above[f] \subseteq Above[call.end]
      BY <1>1, AboveTransitive
    <3> QED
      BY <1>7, <1>9, <2>1, <3>1, <3>2
  <2>2. CASE i = 2
    BY <1>1, <1>6, <1>9, <2>2
  <2>3. CASE i \in 3 .. n + 1
    <3>1. i - 1 \in 1 .. n
      BY <1>8, <2>3
    <3> QED
      BY <1>9, <1>12, <2>3, <3>1
  <2> QED
    BY <1>8, <1>9, <2>1, <2>2, <2>3
<1>14. ASSUME NEW i \in 2 .. Len(t)
       PROVE  /\ AskedFits(t[i])
              /\ Previous[t[i].filter] = t[i - 1].filter
              /\ t[i].asked = t[i - 1].roi
  <2>1. CASE i = 2
    <3>1. AskedFits(asking)
      BY <1>6 DEF AskedFits
    <3>2. t[i] = asking /\ t[i - 1] = asked
      BY <1>9, <2>1
    <3> QED
      BY <1>6, <1>7, <3>1, <3>2
  <2>2. CASE i = 3
    <3>1. 2 \in 2 .. n /\ t[i] = s[2] /\ t[i - 1] = asking /\ 2 - 1 = 1
      BY <1>8, <1>9, <2>2
    <3>2. s[1] = Top
      BY <1>1, <1>3
    <3> QED
      BY <1>6, <1>12, <3>1, <3>2
  <2>3. CASE i \in 4 .. n + 1
    <3>1. i - 1 \in 2 .. n /\ i \in 3 .. n + 1 /\ i - 1 \in 3 .. n + 1
      BY <1>8, <2>3
    <3>2. t[i] = s[i - 1] /\ t[i - 1] = s[(i - 1) - 1]
      BY <1>9, <3>1
    <3> QED
      BY <1>12, <3>1, <3>2
  <2> QED
    BY <1>8, <1>9, <2>1, <2>2, <2>3
<1>15. t[Len(t)].filter = call.end /\ t[Len(t)].roi = call.roi
  <2>1. CASE n = 1
    <3>1. t[Len(t)] = asking /\ s[n] = Top
      BY <1>1, <1>3, <1>9, <2>1
    <3> QED
      BY <1>6, <1>12, <3>1
  <2>2. CASE n # 1
    <3>1. n + 1 \in 3 .. n + 1 /\ (n + 1) - 1 = n
      BY <1>8, <2>2
    <3>2. t[Len(t)] = s[n]
      BY <1>9, <3>1
    <3> QED
      BY <1>12, <3>2
  <2> QED
    BY <2>1, <2>2
<1>16. FramesLinked'
  BY <1>5, <1>13, <1>14, <1>15 DEF FramesLinked
<1>17. ImageFits'
  BY <1>5 DEF ImageFits
<1> QED
  BY <1>10, <1>11, <1>16, <1>17 DEF CallInv

(* While a request is under way the caches on its chain are coherent.     *)
LEMMA CachedOnChain ==
  ASSUME IInv, call.frames # << >>, NEW c \in Caches, Top.filter = c,
         cached[c] # None
  PROVE  cached[c].image.of = Now(c)
<1>1. call.end \in Filters /\ ~ Reaches(walk, call.end) /\ c \in Above[call.end]
  BY Busy DEF IInv
<1>2. Above[c] \subseteq Above[call.end]
  BY <1>1, AboveTransitive
<1>3. ~ Reaches(walk, c)
  BY <1>1, <1>2 DEF Reaches
<1>4. walk \in Seq(Entries) /\ CachesCoherent
  BY TypeParts DEF IInv
<1> QED
  BY <1>3, <1>4, PendingReaches DEF CachesCoherent

(* What a filter makes of the image it is given is the image it should     *)
(* answer with, and serves the region it was asked for.                    *)
LEMMA OutputFits ==
  ASSUME CallInv, call.frames # << >>, call.image # None,
         NEW f, Top.filter = f
  PROVE  /\ f \in Filters \ Sources /\ Top.asked \in Rois
         /\ Output(f).of = Now(f) /\ DOMAIN Output(f).of = Above[f]
         /\ Top.roi \subseteq Output(f).area
         /\ f \in Caches => Top.asked \subseteq Output(f).area
         /\ f \in IgnoreRoi => Top.asked = Tiles
         /\ Output(f).quick => call.quick
<1>1. f \in Filters /\ Top \in FrameSet
  BY Busy
<1>2. /\ AskedFits(Top) /\ Top.asked \subseteq call.image.area
      /\ call.image.of = Now(Previous[f])
      /\ call.image.quick => call.quick
  BY DEF CallInv, ImageFits
<1>3. f \in Filters \ Sources
  BY <1>1, <1>2 DEF AskedFits
<1>4. /\ Previous[f] \in Filters
      /\ Above[f] = {f} \cup Above[Previous[f]] /\ f \notin Above[Previous[f]]
  BY <1>3, TreeFacts
<1>5. \A g \in Above[Previous[f]] : call.image.of[g] = State(g)
  BY <1>2 DEF Now
<1>6. Output(f).of = [g \in Above[f] |-> IF g = f THEN State(f) ELSE call.image.of[g]]
      /\ Output(f).area = OutputArea(f) /\ Output(f).quick = call.image.quick
  BY DEF Output
<1>7. Output(f).of = Now(f)
  <2>1. \A g \in Above[f] :
          (IF g = f THEN State(f) ELSE call.image.of[g]) = State(g)
    BY <1>4, <1>5
  <2> QED
    BY <1>6, <2>1 DEF Now
<1>8. DOMAIN Output(f).of = Above[f]
  BY <1>6
<1>9. Top.roi \subseteq OutputArea(f)
  <2>1. CASE f \in Shapes
    BY <1>2, <2>1 DEF OutputArea
  <2>2. CASE f \notin Shapes
    BY <1>2, <2>2 DEF OutputArea, AskedFits
  <2> QED
    BY <2>1, <2>2
<1>10. f \in Caches => Top.asked \subseteq OutputArea(f)
  BY <1>2, KindsAssumption DEF OutputArea
<1>11. Top.asked \in Rois /\ (f \in IgnoreRoi => Top.asked = Tiles)
  BY <1>2 DEF AskedFits
<1> QED
  BY <1>2, <1>3, <1>6, <1>7, <1>8, <1>9, <1>10, <1>11

(* A step of a request leaves the walk and the states alone. *)
LEMMA CallStill ==
  ASSUME IInv, UNCHANGED <<setting, enabled, dims, walk>>, CallInv',
         DOMAIN cached' = Caches, CachedType', CacheHonest',
         \A c \in Caches : \/ cached'[c] = cached[c] \/ cached'[c] = None
                           \/ cached'[c].image.of = Now(c)
  PROVE  IInv'
<1>1. walk \in Seq(Entries) /\ Ordered(walk)
  BY TypeParts DEF IInv
<1>2. /\ walk' \in Seq(Entries) /\ Ordered(walk')
      /\ \A g \in Filters : /\ Reaches(walk', g) <=> Reaches(walk, g)
                            /\ ReachesSize(walk', g) <=> ReachesSize(walk, g)
  BY <1>1
<1> QED
  BY <1>2, StillKeeps

LEMMA CachedSame ==
  ASSUME IInv, UNCHANGED cached
  PROVE  DOMAIN cached' = Caches /\ CachedType' /\ CacheHonest'
<1>1. StateType /\ CachedType /\ CacheHonest
  BY TypeParts DEF IInv
<1> QED
  BY <1>1 DEF StateType, CachedType, CacheHonest

LEMMA AnswerSourceKeeps ==
  ASSUME IInv, NEW f \in Filters, AnswerSource(f)
  PROVE  IInv'
<1>1. /\ call.frames # << >> /\ Top.filter = f
      /\ UNCHANGED <<setting, enabled, dims, cached, walk>>
  BY DEF AnswerSource, Asking
<1>2. PICK image : image = [of |-> Now(f), area |-> Tiles, quick |-> call.quick]
  OBVIOUS
<1>3. Answer(image)
  BY <1>2 DEF AnswerSource
<1>4. image.of = Now(Top.filter) /\ image.area = Tiles /\ image.quick = call.quick
  BY <1>1, <1>2
<1>5. Top.roi \subseteq Tiles
  BY <1>1, Busy DEF IInv, FrameSet, Rois
<1>6. CallInv'
  BY <1>1, <1>3, <1>4, <1>5, AnswerKeeps DEF IInv
<1> QED
  BY <1>1, <1>6, CachedSame, CallStill

LEMMA HitKeeps ==
  ASSUME IInv, NEW c \in Caches, Hit(c)
  PROVE  IInv'
<1>1. /\ call.frames # << >> /\ Top.filter = c /\ Usable(c)
      /\ Answer(cached[c].image)
      /\ UNCHANGED <<setting, enabled, dims, cached, walk>>
  BY DEF Hit, Asking
<1>2. cached[c] # None
  BY <1>1 DEF Usable
<1>3. cached[c].image.of = Now(Top.filter)
  BY <1>1, <1>2, CachedOnChain
<1>4. Top.roi \subseteq Tiles
  BY <1>1, Busy DEF IInv, FrameSet, Rois
<1>5. /\ cached[c].roi \subseteq cached[c].image.area
      /\ cached[c].image.quick => cached[c].quick
      /\ c \in IgnoreRoi => cached[c].roi = Tiles
  BY <1>2 DEF IInv, CacheHonest
<1>6. Top.roi \subseteq cached[c].image.area
  BY <1>1, <1>4, <1>5 DEF Usable
<1>7. cached[c].image.quick => call.quick
  BY <1>1, <1>5 DEF Usable
<1>8. CallInv'
  BY <1>1, <1>3, <1>6, <1>7, AnswerKeeps DEF IInv
<1> QED
  BY <1>1, <1>8, CachedSame, CallStill

LEMMA MissKeeps ==
  ASSUME IInv, NEW c \in Caches, Miss(c)
  PROVE  IInv'
<1>1. /\ call.frames # << >> /\ call.image = None /\ Top.filter = c
      /\ cached' = [cached EXCEPT ![c] = None]
      /\ AskPrevious(c, IF c \in IgnoreRoi THEN Tiles ELSE Top.roi)
      /\ UNCHANGED <<setting, enabled, dims, walk>>
  BY DEF Miss, Asking
<1>2. PICK roi : roi = IF c \in IgnoreRoi THEN Tiles ELSE Top.roi
  OBVIOUS
<1>3. Top.roi \in Rois /\ Top.roi \subseteq Tiles
  BY <1>1, Busy DEF IInv, FrameSet, Rois
<1>4. roi \in Rois /\ Top.roi \subseteq roi /\ (c \in IgnoreRoi => roi = Tiles)
  BY <1>2, <1>3, KindsAssumption DEF Rois
<1>5. c \in Filters \ Sources
  BY KindFacts
<1>6. AskPrevious(c, roi)
  BY <1>1, <1>2
<1>7. CallInv'
  BY <1>1, <1>4, <1>5, <1>6, AskKeeps DEF IInv
<1>8. StateType /\ CachedType /\ CacheHonest
  BY TypeParts DEF IInv
<1>9. /\ DOMAIN cached' = Caches
      /\ \A b \in Caches : cached'[b] = cached[b] \/ cached'[b] = None
  BY <1>1, <1>8 DEF StateType
<1>10. CachedType' /\ CacheHonest'
  BY <1>8, <1>9 DEF CachedType, CacheHonest
<1> QED
  BY <1>1, <1>7, <1>9, <1>10, CallStill

LEMMA AskStepKeeps ==
  ASSUME IInv, NEW f \in Filters, Ask(f)
  PROVE  IInv'
<1>1. /\ f \notin Sources \cup Caches
      /\ call.frames # << >> /\ call.image = None /\ Top.filter = f
      /\ UNCHANGED <<setting, enabled, dims, cached, walk>>
  BY DEF Ask, Asking
<1>2. PICK roi \in Rois : /\ f \in Pixels \/ ~ Enabled(f) => roi = Top.roi
                          /\ f \in Resamples => roi \in {Top.roi, Tiles}
                          /\ AskPrevious(f, roi)
  BY DEF Ask
<1>3. Top.roi \subseteq Tiles
  BY <1>1, Busy DEF IInv, FrameSet, Rois
<1>4. f \notin Shapes => Top.roi \subseteq roi
  BY <1>1, <1>2, <1>3 DEF Filters
<1>5. f \notin IgnoreRoi
  BY <1>1, KindsAssumption
<1>6. CallInv'
  BY <1>1, <1>2, <1>4, <1>5, AskKeeps DEF IInv
<1> QED
  BY <1>1, <1>6, CachedSame, CallStill

LEMMA ProcessKeeps ==
  ASSUME IInv, NEW f \in Filters, Process(f)
  PROVE  IInv'
<1>1. /\ call.frames # << >> /\ call.image # None /\ Top.filter = f
      /\ Answer(Output(f))
      /\ UNCHANGED <<setting, enabled, dims, cached, walk>>
  BY DEF Process, Answered
<1>2. /\ Output(f).of = Now(f) /\ Top.roi \subseteq Output(f).area
      /\ Output(f).quick => call.quick
  BY <1>1, OutputFits DEF IInv
<1>3. CallInv'
  BY <1>1, <1>2, AnswerKeeps DEF IInv
<1> QED
  BY <1>1, <1>3, CachedSame, CallStill

LEMMA StoreKeeps ==
  ASSUME IInv, NEW c \in Caches, Store(c)
  PROVE  IInv'
<1>1. /\ call.frames # << >> /\ call.image # None /\ Top.filter = c
      /\ cached' = [cached EXCEPT ![c] =
                      [image |-> Output(c), roi |-> Top.asked, quick |-> call.quick]]
      /\ Answer(Output(c))
      /\ UNCHANGED <<setting, enabled, dims, walk>>
  BY DEF Store, Answered
<1>2. /\ Top.asked \in Rois
      /\ Output(c).of = Now(c) /\ DOMAIN Output(c).of = Above[c]
      /\ Top.roi \subseteq Output(c).area /\ Top.asked \subseteq Output(c).area
      /\ c \in IgnoreRoi => Top.asked = Tiles
      /\ Output(c).quick => call.quick
  BY <1>1, OutputFits DEF IInv
<1>3. CallInv'
  BY <1>1, <1>2, AnswerKeeps DEF IInv
<1>4. StateType /\ CachedType /\ CacheHonest /\ call.quick \in BOOLEAN
  BY TypeParts DEF IInv, CallInv, CallType
<1>5. /\ DOMAIN cached' = Caches
      /\ \A b \in Caches : b # c => cached'[b] = cached[b]
      /\ cached'[c].image = Output(c) /\ cached'[c].roi = Top.asked
      /\ cached'[c].quick = call.quick
  BY <1>1, <1>4 DEF StateType
<1>6. CachedType'
  <2>1. ASSUME NEW b \in Caches, cached'[b] # None
        PROVE  /\ cached'[b].roi \in Rois /\ cached'[b].quick \in BOOLEAN
               /\ DOMAIN cached'[b].image.of = Above[b]
    <3>1. CASE b = c
      BY <1>2, <1>4, <1>5, <3>1
    <3>2. CASE b # c
      BY <1>4, <1>5, <2>1, <3>2 DEF CachedType
    <3> QED
      BY <3>1, <3>2
  <2> QED
    BY <2>1 DEF CachedType
<1>7. CacheHonest'
  <2>1. ASSUME NEW b \in Caches, cached'[b] # None
        PROVE  /\ cached'[b].roi \subseteq cached'[b].image.area
               /\ cached'[b].image.quick => cached'[b].quick
               /\ b \in IgnoreRoi => cached'[b].roi = Tiles
    <3>1. CASE b = c
      BY <1>2, <1>5, <3>1
    <3>2. CASE b # c
      BY <1>4, <1>5, <2>1, <3>2 DEF CacheHonest
    <3> QED
      BY <3>1, <3>2
  <2> QED
    BY <2>1 DEF CacheHonest
<1>8. \A b \in Caches : cached'[b] = cached[b] \/ cached'[b].image.of = Now(b)
  BY <1>2, <1>5
<1> QED
  BY <1>1, <1>3, <1>5, <1>6, <1>7, <1>8, CallStill

LEMMA ReturnKeeps ==
  ASSUME IInv, Return
  PROVE  IInv'
<1>1. call' = Idle /\ UNCHANGED <<setting, enabled, dims, cached, walk>>
  BY DEF Return
<1> QED
  BY <1>1, IdleCall, CachedSame, CallStill

-----------------------------------------------------------------------------
LEMMA InitHolds == Init => IInv
<1> SUFFICES ASSUME Init PROVE IInv
  OBVIOUS
<1>1. StateType
  BY SwitchAssumption DEF Init, StateType
<1>2. \A c \in Caches : cached[c] = None
  BY DEF Init
<1>3. CachedType /\ CachesCoherent /\ CacheHonest
  BY <1>2 DEF CachedType, CachesCoherent, CacheHonest
<1>4. \A r \in Resamples : dims[r] = None
  BY DEF Init
<1>5. SizesFollow
  BY <1>4 DEF SizesFollow
<1>6. walk \in Seq(Entries) /\ Ordered(walk)
  BY DEF Init, Ordered
<1>7. CallInv
  <2>1. /\ DOMAIN call = {"end", "roi", "quick", "frames", "image"}
        /\ call.quick \in BOOLEAN /\ call.roi = {} /\ call.frames = << >>
        /\ call.image = None /\ call = Idle
    BY DEF Init, Idle
  <2> QED
    BY <2>1 DEF CallInv, CallType, CallAfterWalk, FramesLinked, ImageFits
<1>8. call.frames \in Seq(FrameSet)
  BY <1>7 DEF CallInv, CallType
<1> QED
  BY <1>1, <1>3, <1>5, <1>6, <1>7, <1>8, TypeParts DEF IInv

LEMMA StepKeeps == IInv /\ [Next]_vars => IInv'
<1> SUFFICES ASSUME IInv, [Next]_vars PROVE IInv'
  OBVIOUS
<1>1. CASE UserStep
  BY <1>1, AssignKeeps, SetTargetKeeps, SetEnabledKeeps, RequestKeeps DEF UserStep
<1>2. CASE WalkStep
  BY <1>2, VisitsKeep, EmitKeeps DEF WalkStep
<1>3. CASE CallStep
  <2>1. CASE Return
    BY <2>1, ReturnKeeps
  <2>2. ASSUME NEW f \in Filters, AnswerSource(f) \/ Ask(f) \/ Process(f)
        PROVE  IInv'
    BY <2>2, AnswerSourceKeeps, AskStepKeeps, ProcessKeeps
  <2>3. ASSUME NEW f \in Filters, Hit(f) \/ Miss(f) \/ Store(f)
        PROVE  IInv'
    <3>1. f \in Caches
      BY <2>3 DEF Hit, Miss, Store
    <3> QED
      BY <2>3, <3>1, HitKeeps, MissKeeps, StoreKeeps
  <2> QED
    BY <1>3, <2>1, <2>2, <2>3 DEF CallStep
<1>4. CASE UNCHANGED vars
  <2>1. CallInv'
    <3>1. CallInv /\ UNCHANGED <<setting, enabled, dims, walk, call>>
      BY <1>4 DEF IInv, vars
    <3>2. /\ CallType' /\ CallAfterWalk' /\ FramesLinked'
      BY <3>1 DEF CallInv, CallType, CallAfterWalk, FramesLinked
    <3>3. ImageFits'
      BY <3>1 DEF CallInv, ImageFits, Top, Now, State, Enabled
    <3> QED
      BY <3>2, <3>3 DEF CallInv
  <2> QED
    BY <1>4, <2>1, CachedSame, CallStill DEF vars
<1> QED
  BY <1>1, <1>2, <1>3, <1>4 DEF Next

(* The strengthened invariant of the filter chain holds in every state:    *)
(* between the steps of a walk and of a request too.                       *)
THEOREM Inductive == Spec => []IInv
  BY InitHolds, StepKeeps, PTL DEF Spec

(* The state of the filters and caches, the walk and the request keep      *)
(* their shape.                                                            *)
THEOREM ChainTypes == Spec => []TypeOK
  BY Inductive, PTL DEF IInv

(* Whatever was set, switched, rendered or cached, in whatever order: a    *)
(* cache holds the image its filters would compute now, or previous_       *)
(* changed() is still on its way to it.                                    *)
THEOREM ChainCaches == Spec => []CachesCoherent
  BY Inductive, PTL DEF IInv

(* recalculate_dimensions() has worked out the size that follows from the  *)
(* filters before, or is still to be called.                               *)
THEOREM ChainSizes == Spec => []SizesAgree
<1>1. IInv => SizesAgree
  <2> SUFFICES ASSUME IInv PROVE SizesAgree
    OBVIOUS
  <2>1. walk \in Seq(Entries) /\ SizesFollow
    BY TypeParts DEF IInv
  <2>2. \A r : ReachesSize(walk, r) => Pending(r)
    BY <2>1, PendingReaches DEF Reaches, ReachesSize
  <2> QED
    BY <2>1, <2>2 DEF SizesFollow, SizesAgree
<1> QED
  BY <1>1, Inductive, PTL

(* rs_filter_get_image() returns the image of the current settings, also   *)
(* to the handler that asks for it in the middle of a notification.        *)
THEOREM ChainCurrent == Spec => []DeliveredCurrent
<1>1. IInv => DeliveredCurrent
  BY DEF IInv, CallInv, ImageFits, DeliveredCurrent, Delivered
<1> QED
  BY <1>1, Inductive, PTL

(* It is valid in the region asked for, and quick only if that will do.    *)
THEOREM ChainFits == Spec => []DeliveredFits
<1>1. IInv => DeliveredFits
  BY DEF IInv, CallInv, ImageFits, DeliveredFits, Delivered
<1> QED
  BY <1>1, Inductive, PTL
=============================================================================
