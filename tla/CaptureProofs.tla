--------------------------- MODULE CaptureProofs ---------------------------
(***************************************************************************)
(* Proofs about one capture of a paginated list, for any list, page size   *)
(* and limit of pages.                                                     *)
(*                                                                         *)
(* What a reader sees is known by its places in the whole list: the public *)
(* entries, numbered in their order.  A publication only pushes entries    *)
(* back, so none that is still to be read slips into a page that was; and  *)
(* what a reader of a list at rest has joined is always a first part of    *)
(* what it sees.                                                           *)
(***************************************************************************)
EXTENDS Capture, SequenceTheorems, WellFoundedInduction, TLAPS

Entries == [id : Releases, draft : BOOLEAN]

-----------------------------------------------------------------------------
(* Numberings. *)

\* place counts the members of a set of numbers, from 1 to m, in their order.
Numbers(place, S, m) ==
  /\ place \in [1..m -> S]
  /\ \A i, j \in 1..m : i < j => place[i] < place[j]
  /\ \A x \in S : \E i \in 1..m : place[i] = x

LEMMA SmallestIn ==
  ASSUME NEW S, S \subseteq Nat, S # {}
  PROVE  \E x \in S : \A y \in S : x <= y
<1> DEFINE R == OpToRel(<, Nat)
<1>1. \E x \in S : \A y \in S : ~(<<y, x>> \in R)
  <2>1. IsWellFoundedOn(R, Nat)
    BY NatLessThanWellFounded
  <2> HIDE DEF R
  <2> QED BY <2>1, WFMin
<1>2. \A x, y \in Nat : y < x => <<y, x>> \in R
  BY DEF OpToRel
<1> HIDE DEF R
<1>3. PICK x \in S : \A y \in S : ~(<<y, x>> \in R)
  BY <1>1
<1>4. \A y \in S : ~(y < x)
  BY <1>2, <1>3
<1> QED BY <1>4

\* In a larger set every member has at least the number it had.
LEMMA Denser ==
  ASSUME NEW S, NEW T, S \subseteq T, T \subseteq Nat, NEW m \in Nat, NEW n \in Nat,
         NEW p, Numbers(p, S, m), NEW q, Numbers(q, T, n)
  PROVE  \A k \in 1..m : k <= n /\ q[k] <= p[k]
<1> DEFINE wrong == {k \in 1..m : ~(k <= n /\ q[k] <= p[k])}
<1>1. SUFFICES ASSUME wrong # {} PROVE FALSE
  OBVIOUS
<1>2. PICK k \in wrong : \A i \in wrong : k <= i
  <2>1. wrong \subseteq Nat
    OBVIOUS
  <2> HIDE DEF wrong
  <2> QED BY <1>1, <2>1, SmallestIn
<1>3. k \in 1..m /\ p[k] \in T /\ p[k] \in Nat
  BY DEF Numbers
<1>4. PICK j \in 1..n : q[j] = p[k]
  BY <1>3 DEF Numbers
<1>5. j < k
  <2>1. CASE k <= n
    <3>1. k \in 1..n /\ q[k] \in Nat
      <4>1. k \in 1..n
        BY <1>3, <2>1
      <4> QED BY <4>1 DEF Numbers
    <3>2. q[k] > p[k]
      BY <1>3, <2>1, <3>1
    <3>3. k < j => q[k] < q[j]
      BY <1>3, <2>1 DEF Numbers
    <3> QED BY <1>3, <1>4, <3>1, <3>2, <3>3
  <2>2. CASE ~(k <= n)
    BY <1>3, <2>2
  <2> QED BY <2>1, <2>2
<1>6. j \in 1..m /\ j \notin wrong
  BY <1>2, <1>3, <1>5
<1>7. q[j] <= p[j] /\ p[j] < p[k] /\ p[j] \in Nat
  BY <1>3, <1>5, <1>6 DEF Numbers
<1> QED BY <1>3, <1>4, <1>7

LEMMA OneNumbering ==
  ASSUME NEW S, S \subseteq Nat, NEW m \in Nat, NEW n \in Nat,
         NEW p, Numbers(p, S, m), NEW q, Numbers(q, S, n)
  PROVE  m = n /\ p = q
<1>1. /\ \A k \in 1..m : k <= n /\ q[k] <= p[k]
      /\ \A k \in 1..n : k <= m /\ p[k] <= q[k]
  BY Denser
<1>2. m = n
  <2>1. m > 0 => m <= n
    BY <1>1
  <2>2. n > 0 => n <= m
    BY <1>1
  <2> QED BY <2>1, <2>2
<1>3. \A k \in 1..m : p[k] \in Nat /\ q[k] \in Nat
  BY <1>2 DEF Numbers
<1>4. \A k \in 1..m : p[k] = q[k]
  BY <1>1, <1>2, <1>3
<1> QED BY <1>2, <1>4 DEF Numbers

-----------------------------------------------------------------------------
(* The pass that drops the drafts. *)

Kept(kept, entries, n) ==
  IF n = 0 THEN <<>>
  ELSE IF entries[n].draft THEN kept[n - 1] ELSE Append(kept[n - 1], entries[n])

Pass(entries) == CHOOSE kept : kept = [n \in 0..Len(entries) |-> Kept(kept, entries, n)]

\* There is a function for the recursive definition to stand for.
LEMMA PassExists ==
  ASSUME NEW entries, NEW last \in Nat
  PROVE  \E kept : kept = [n \in 0..last |-> Kept(kept, entries, n)]
<1> DEFINE IsPass(f, m) == f = [n \in 0..m |-> Kept(f, entries, n)]
           missing == {m \in Nat : ~\E f : IsPass(f, m)}
<1>1. SUFFICES ASSUME missing # {} PROVE FALSE
  BY <1>1
<1>2. PICK m \in missing : \A i \in missing : m <= i
  <2>1. missing \subseteq Nat
    OBVIOUS
  <2> HIDE DEF missing
  <2> QED BY <1>1, <2>1, SmallestIn
<1>3. m # 0
  <2> DEFINE f == [n \in 0..0 |-> <<>>]
  <2>1. \A n \in 0..0 : n = 0 /\ Kept(f, entries, n) = <<>>
    BY DEF Kept
  <2>2. IsPass(f, 0)
    BY <2>1
  <2> QED BY <2>2
<1>4. m - 1 \in Nat /\ m - 1 \notin missing
  BY <1>2, <1>3
<1>5. PICK f : IsPass(f, m - 1)
  BY <1>4
<1> DEFINE g == [n \in 0..m |-> IF n = m THEN Kept(f, entries, m) ELSE f[n]]
<1>6. ASSUME NEW n \in 0..m PROVE g[n] = Kept(g, entries, n)
  <2>1. n # 0 => n - 1 \in 0..m /\ n - 1 # m /\ g[n - 1] = f[n - 1]
    BY <1>4
  <2>2. Kept(g, entries, n) = Kept(f, entries, n)
    BY <2>1 DEF Kept
  <2>3. n # m => n \in 0..(m - 1) /\ f[n] = Kept(f, entries, n)
    BY <1>4, <1>5
  <2> QED BY <2>2, <2>3
<1>7. IsPass(g, m)
  BY <1>6
<1> QED BY <1>2, <1>7

LEMMA PassStep ==
  ASSUME NEW entries, Len(entries) \in Nat
  PROVE  \A n \in 0..Len(entries) : Pass(entries)[n] = Kept(Pass(entries), entries, n)
<1>1. Pass(entries) = [n \in 0..Len(entries) |-> Kept(Pass(entries), entries, n)]
  BY PassExists DEF Pass
<1> QED BY <1>1

LEMMA PassIsTaken ==
  ASSUME NEW entries
  PROVE  WithoutDrafts(entries) = Pass(entries)[Len(entries)]
BY DEF WithoutDrafts, Pass, Kept

-----------------------------------------------------------------------------
(* What the pass keeps. *)

PublicPlaces(entries, n) == {i \in 1..n : ~entries[i].draft}

\* kept is the public ones of the first n entries, in their order.
IsKept(kept, entries, n) ==
  \E place :
    /\ Numbers(place, PublicPlaces(entries, n), Len(kept))
    /\ \A k \in 1..Len(kept) : kept[k] = entries[place[k]]

LEMMA StepKeeps ==
  ASSUME NEW S, NEW entries \in Seq(S), NEW n \in 1..Len(entries),
         NEW kept \in Seq(S), IsKept(kept, entries, n - 1)
  PROVE  /\ entries[n].draft => IsKept(kept, entries, n)
         /\ ~entries[n].draft =>
              Append(kept, entries[n]) \in Seq(S) /\ IsKept(Append(kept, entries[n]), entries, n)
<1>1. n \in Nat /\ n - 1 \in Nat /\ entries[n] \in S /\ Len(kept) \in Nat
  BY LenProperties, ElementOfSeq
<1>2. PICK place : /\ Numbers(place, PublicPlaces(entries, n - 1), Len(kept))
                   /\ \A k \in 1..Len(kept) : kept[k] = entries[place[k]]
  BY DEF IsKept
<1>3. ASSUME entries[n].draft PROVE IsKept(kept, entries, n)
  <2>1. PublicPlaces(entries, n) = PublicPlaces(entries, n - 1)
    BY <1>1, <1>3 DEF PublicPlaces
  <2> QED BY <1>2, <2>1 DEF IsKept
<1>4. ASSUME ~entries[n].draft
      PROVE  Append(kept, entries[n]) \in Seq(S) /\ IsKept(Append(kept, entries[n]), entries, n)
  <2> DEFINE longer == Append(kept, entries[n])
             m == Len(kept) + 1
             wider == [i \in 1..m |-> IF i = m THEN n ELSE place[i]]
  <2>1. /\ longer \in Seq(S) /\ Len(longer) = m /\ longer[m] = entries[n]
        /\ \A k \in 1..Len(kept) : longer[k] = kept[k]
    BY <1>1, AppendProperties
  <2>2. PublicPlaces(entries, n) = PublicPlaces(entries, n - 1) \cup {n}
    BY <1>1, <1>4 DEF PublicPlaces
  <2>3. /\ \A i \in 1..Len(kept) : place[i] \in PublicPlaces(entries, n - 1)
        /\ \A i, j \in 1..Len(kept) : i < j => place[i] < place[j]
        /\ \A x \in PublicPlaces(entries, n - 1) : \E i \in 1..Len(kept) : place[i] = x
    BY <1>2 DEF Numbers
  <2>4. \A x \in PublicPlaces(entries, n - 1) : x < n
    BY <1>1 DEF PublicPlaces
  <2>5. \A i \in 1..m : i = m \/ i \in 1..Len(kept)
    BY <1>1
  <2>6. wider[m] = n /\ \A i \in 1..Len(kept) : wider[i] = place[i] /\ i \in 1..m /\ i # m
    BY <1>1
  <2>7. wider \in [1..m -> PublicPlaces(entries, n)]
    BY <2>2, <2>3, <2>5
  <2>8. \A i, j \in 1..m : i < j => wider[i] < wider[j]
    <3> SUFFICES ASSUME NEW i \in 1..m, NEW j \in 1..m, i < j PROVE wider[i] < wider[j]
      OBVIOUS
    <3>1. i \in 1..Len(kept)
      BY <1>1, <2>5
    <3>2. CASE j = m
      BY <2>3, <2>4, <2>6, <3>1, <3>2
    <3>3. CASE j \in 1..Len(kept)
      BY <2>3, <2>6, <3>1, <3>3
    <3> QED BY <2>5, <3>2, <3>3
  <2>9. \A x \in PublicPlaces(entries, n) : \E i \in 1..m : wider[i] = x
    <3>1. m \in 1..m
      BY <1>1
    <3> QED BY <2>2, <2>3, <2>6, <3>1
  <2>10. Numbers(wider, PublicPlaces(entries, n), m)
    BY <2>7, <2>8, <2>9 DEF Numbers
  <2>11. \A k \in 1..m : longer[k] = entries[wider[k]]
    BY <1>2, <2>1, <2>5, <2>6
  <2> QED BY <2>1, <2>10, <2>11 DEF IsKept
<1> QED BY <1>3, <1>4

LEMMA PassKeeps ==
  ASSUME NEW S, NEW entries \in Seq(S)
  PROVE  WithoutDrafts(entries) \in Seq(S) /\ IsKept(WithoutDrafts(entries), entries, Len(entries))
<1> DEFINE good(n) == Pass(entries)[n] \in Seq(S) /\ IsKept(Pass(entries)[n], entries, n)
           wrong == {n \in 0..Len(entries) : ~good(n)}
<1>1. Len(entries) \in Nat
  BY LenProperties
<1>2. SUFFICES wrong = {}
  <2>1. Len(entries) \in 0..Len(entries)
    BY <1>1
  <2> QED BY <1>2, <2>1, PassIsTaken
<1>3. SUFFICES ASSUME wrong # {} PROVE FALSE
  OBVIOUS
<1>4. PICK n \in wrong : \A i \in wrong : n <= i
  <2>1. wrong \subseteq Nat
    BY <1>1
  <2> HIDE DEF wrong
  <2> QED BY <1>3, <2>1, SmallestIn
<1>5. n \in 0..Len(entries) /\ Pass(entries)[n] = Kept(Pass(entries), entries, n)
  BY <1>1, PassStep
<1>6. CASE n = 0
  <2>1. Pass(entries)[n] = <<>>
    BY <1>5, <1>6 DEF Kept
  <2> DEFINE none == [i \in 1..0 |-> 0]
  <2>2. PublicPlaces(entries, 0) = {} /\ Len(<<>>) = 0 /\ <<>> \in Seq(S)
    BY EmptySeq DEF PublicPlaces
  <2>3. Numbers(none, {}, 0)
    BY DEF Numbers
  <2>4. IsKept(<<>>, entries, 0)
    BY <2>2, <2>3 DEF IsKept
  <2> QED BY <1>4, <1>6, <2>1, <2>2, <2>4
<1>7. CASE n # 0
  <2>1. n \in 1..Len(entries) /\ n - 1 \in 0..Len(entries) /\ n - 1 \notin wrong
    BY <1>1, <1>4, <1>5, <1>7
  <2>2. good(n - 1)
    BY <2>1
  <2>3. Pass(entries)[n] = IF entries[n].draft THEN Pass(entries)[n - 1]
                           ELSE Append(Pass(entries)[n - 1], entries[n])
    BY <1>5, <1>7 DEF Kept
  <2>4. good(n)
    BY <2>1, <2>2, <2>3, StepKeeps
  <2> QED BY <1>4, <2>4
<1> QED BY <1>6, <1>7

\* What is kept is determined.
LEMMA KeptIsOne ==
  ASSUME NEW S, NEW entries, NEW kept \in Seq(S), NEW n \in Nat,
         IsKept(kept, entries, n),
         NEW other \in Seq(S), IsKept(other, entries, n)
  PROVE  kept = other
<1>1. PublicPlaces(entries, n) \subseteq Nat
  BY DEF PublicPlaces
<1>2. Len(kept) \in Nat /\ Len(other) \in Nat
  BY LenProperties
<1>3. PICK p : /\ Numbers(p, PublicPlaces(entries, n), Len(kept))
               /\ \A k \in 1..Len(kept) : kept[k] = entries[p[k]]
  BY DEF IsKept
<1>4. PICK q : /\ Numbers(q, PublicPlaces(entries, n), Len(other))
               /\ \A k \in 1..Len(other) : other[k] = entries[q[k]]
  BY DEF IsKept
<1>5. Len(kept) = Len(other) /\ p = q
  BY <1>1, <1>2, <1>3, <1>4, OneNumbering
<1>6. \A k \in 1..Len(kept) : kept[k] = other[k]
  BY <1>3, <1>4, <1>5
<1> QED BY <1>5, <1>6, SeqEqual

\* A list whose public entries are those of another, moved to other places without
\* changing their order, keeps the same.
LEMMA MovedKeeps ==
  ASSUME NEW S, NEW kept \in Seq(S), NEW entries, NEW n, IsKept(kept, entries, n),
         NEW other, NEW m \in Nat,
         NEW move \in [PublicPlaces(entries, n) -> PublicPlaces(other, m)],
         \A i, j \in PublicPlaces(entries, n) : i < j => move[i] < move[j],
         \A x \in PublicPlaces(other, m) : \E i \in PublicPlaces(entries, n) : move[i] = x,
         \A i \in PublicPlaces(entries, n) : other[move[i]] = entries[i]
  PROVE  IsKept(kept, other, m)
<1>1. PICK place : /\ Numbers(place, PublicPlaces(entries, n), Len(kept))
                   /\ \A k \in 1..Len(kept) : kept[k] = entries[place[k]]
  BY DEF IsKept
<1> DEFINE moved == [k \in 1..Len(kept) |-> move[place[k]]]
<1>2. \A k \in 1..Len(kept) : place[k] \in PublicPlaces(entries, n)
  BY <1>1 DEF Numbers
<1>3. moved \in [1..Len(kept) -> PublicPlaces(other, m)]
  BY <1>2
<1>4. \A i, j \in 1..Len(kept) : i < j => moved[i] < moved[j]
  BY <1>1, <1>2 DEF Numbers
<1>5. \A x \in PublicPlaces(other, m) : \E k \in 1..Len(kept) : moved[k] = x
  <2> SUFFICES ASSUME NEW x \in PublicPlaces(other, m)
               PROVE  \E k \in 1..Len(kept) : moved[k] = x
    OBVIOUS
  <2>1. PICK i \in PublicPlaces(entries, n) : move[i] = x
    OBVIOUS
  <2>2. PICK k \in 1..Len(kept) : place[k] = i
    BY <1>1 DEF Numbers
  <2> QED BY <2>1, <2>2
<1>6. \A k \in 1..Len(kept) : kept[k] = other[moved[k]]
  BY <1>1, <1>2
<1> QED BY <1>3, <1>4, <1>5, <1>6 DEF IsKept, Numbers

\* A list without drafts is kept whole.
LEMMA PublicListIsKept ==
  ASSUME NEW S, NEW entries \in Seq(S), \A i \in 1..Len(entries) : ~entries[i].draft
  PROVE  WithoutDrafts(entries) = entries
<1> DEFINE same == [i \in 1..Len(entries) |-> i]
<1>1. Len(entries) \in Nat /\ PublicPlaces(entries, Len(entries)) = 1..Len(entries)
  BY LenProperties DEF PublicPlaces
<1>2. Numbers(same, 1..Len(entries), Len(entries))
  BY DEF Numbers
<1>3. IsKept(entries, entries, Len(entries))
  BY <1>1, <1>2 DEF IsKept
<1> QED BY <1>1, <1>3, PassKeeps, KeptIsOne

\* What is kept is public and was there, and all that is public is kept.
LEMMA KeptArePublic ==
  ASSUME NEW S, NEW entries \in Seq(S)
  PROVE  LET kept == WithoutDrafts(entries) IN
         /\ kept \in Seq(S) /\ Len(kept) \in Nat
         /\ \A k \in 1..Len(kept) :
              ~kept[k].draft /\ \E i \in 1..Len(entries) : kept[k] = entries[i]
<1> DEFINE kept == WithoutDrafts(entries)
<1>1. kept \in Seq(S) /\ IsKept(kept, entries, Len(entries)) /\ Len(kept) \in Nat
  BY PassKeeps, LenProperties
<1>2. PICK place : /\ Numbers(place, PublicPlaces(entries, Len(entries)), Len(kept))
                   /\ \A k \in 1..Len(kept) : kept[k] = entries[place[k]]
  BY <1>1 DEF IsKept
<1>3. \A k \in 1..Len(kept) : place[k] \in 1..Len(entries) /\ ~entries[place[k]].draft
  BY <1>2 DEF Numbers, PublicPlaces
<1> QED BY <1>1, <1>2, <1>3

-----------------------------------------------------------------------------
(* What the list may do to the public ones. *)

LEMMA StagedIsUnseen ==
  ASSUME NEW S, NEW entries \in Seq(S), NEW e \in S, e.draft
  PROVE  /\ <<e>> \o entries \in Seq(S)
         /\ WithoutDrafts(<<e>> \o entries) = WithoutDrafts(entries)
<1> DEFINE n == Len(entries)
           other == <<e>> \o entries
           move == [i \in PublicPlaces(entries, n) |-> i + 1]
<1>1. /\ n \in Nat /\ other \in Seq(S) /\ Len(other) = n + 1
      /\ \A i \in 1..(n + 1) : other[i] = IF i = 1 THEN e ELSE entries[i - 1]
  <2>1. <<e>> \in Seq(S) /\ Len(<<e>>) = 1 /\ <<e>>[1] = e
    OBVIOUS
  <2>2. n \in Nat
    BY LenProperties
  <2>3. /\ other \in Seq(S) /\ Len(other) = 1 + n
        /\ \A i \in 1..(1 + n) : other[i] = IF i <= 1 THEN <<e>>[i] ELSE entries[i - 1]
    BY <2>1, ConcatProperties
  <2>4. \A i \in 1..(n + 1) : i \in 1..(1 + n) /\ (i <= 1 <=> i = 1)
    BY <2>2
  <2> HIDE DEF other
  <2>5. \A i \in 1..(n + 1) : other[i] = IF i = 1 THEN e ELSE entries[i - 1]
    BY <2>1, <2>3, <2>4
  <2> QED BY <2>2, <2>3, <2>5
<1> HIDE DEF other
<1>2. \A i \in PublicPlaces(entries, n) :
        /\ i \in Nat /\ i + 1 \in PublicPlaces(other, n + 1)
        /\ move[i] = i + 1 /\ other[i + 1] = entries[i]
  BY <1>1 DEF PublicPlaces
<1>3. \A x \in PublicPlaces(other, n + 1) :
        x - 1 \in PublicPlaces(entries, n) /\ move[x - 1] = x
  BY <1>1 DEF PublicPlaces
<1>4. IsKept(WithoutDrafts(entries), other, n + 1)
  <2>1. move \in [PublicPlaces(entries, n) -> PublicPlaces(other, n + 1)]
    BY <1>2
  <2>2. \A i, j \in PublicPlaces(entries, n) : i < j => move[i] < move[j]
    BY <1>2
  <2>3. /\ \A x \in PublicPlaces(other, n + 1) : \E i \in PublicPlaces(entries, n) : move[i] = x
        /\ \A i \in PublicPlaces(entries, n) : other[move[i]] = entries[i]
    BY <1>2, <1>3
  <2>4. /\ WithoutDrafts(entries) \in Seq(S) /\ n + 1 \in Nat
        /\ IsKept(WithoutDrafts(entries), entries, n)
    BY <1>1, PassKeeps
  <2> HIDE DEF move, n
  <2> QED BY <2>1, <2>2, <2>3, <2>4, MovedKeeps
<1>5. WithoutDrafts(other) = WithoutDrafts(entries)
  BY <1>1, <1>4, PassKeeps, KeptIsOne
<1> QED BY <1>1, <1>5 DEF other

LEMMA RemoveAtProperties ==
  ASSUME NEW S, NEW entries \in Seq(S), NEW d \in 1..Len(entries)
  PROVE  /\ RemoveAt(entries, d) \in Seq(S)
         /\ Len(RemoveAt(entries, d)) = Len(entries) - 1
         /\ \A i \in 1..(Len(entries) - 1) :
              RemoveAt(entries, d)[i] = IF i < d THEN entries[i] ELSE entries[i + 1]
<1> DEFINE n == Len(entries)
           before == SubSeq(entries, 1, d - 1)
           after == SubSeq(entries, d + 1, n)
<1>1. n \in Nat /\ d \in Nat /\ \A i \in 1..n : entries[i] \in S
  BY LenProperties, ElementOfSeq
<1>2. /\ before \in Seq(S) /\ Len(before) = d - 1
      /\ \A i \in 1..(d - 1) : before[i] = entries[i]
  <2>1. \A i \in 1..(d - 1) : entries[i] \in S
    BY <1>1
  <2>2. /\ before \in Seq(S)
        /\ Len(before) = IF 1 <= d - 1 THEN (d - 1) - 1 + 1 ELSE 0
        /\ \A i \in 1..((d - 1) - 1 + 1) : before[i] = entries[1 + i - 1]
    BY <1>1, <2>1, SubSeqProperties
  <2> HIDE DEF before
  <2> QED BY <1>1, <2>2
<1>3. /\ after \in Seq(S) /\ Len(after) = n - d
      /\ \A i \in 1..(n - d) : after[i] = entries[i + d]
  <2>1. \A i \in (d + 1)..n : entries[i] \in S
    BY <1>1
  <2>2. /\ after \in Seq(S)
        /\ Len(after) = IF d + 1 <= n THEN n - (d + 1) + 1 ELSE 0
        /\ \A i \in 1..(n - (d + 1) + 1) : after[i] = entries[(d + 1) + i - 1]
    BY <1>1, <2>1, SubSeqProperties
  <2> HIDE DEF after
  <2>3. \A i \in 1..(n - d) : i \in 1..(n - (d + 1) + 1) /\ (d + 1) + i - 1 = i + d
    BY <1>1
  <2> QED BY <1>1, <2>2, <2>3
<1> HIDE DEF before, after
<1>4. /\ before \o after \in Seq(S) /\ Len(before \o after) = n - 1
      /\ \A i \in 1..(n - 1) : (before \o after)[i] = IF i <= d - 1 THEN before[i] ELSE after[i - (d - 1)]
  <2>1. /\ before \o after \in Seq(S) /\ Len(before \o after) = Len(before) + Len(after)
        /\ \A i \in 1..(Len(before) + Len(after)) : (before \o after)[i] =
             IF i <= Len(before) THEN before[i] ELSE after[i - Len(before)]
    BY <1>2, <1>3, ConcatProperties
  <2>2. Len(before) + Len(after) = n - 1
    BY <1>1, <1>2, <1>3
  <2> QED BY <1>2, <2>1, <2>2
<1>5. RemoveAt(entries, d) = before \o after
  BY DEF RemoveAt, before, after
<1>6. \A i \in 1..(n - 1) : (before \o after)[i] = IF i < d THEN entries[i] ELSE entries[i + 1]
  <2> SUFFICES ASSUME NEW i \in 1..(n - 1)
               PROVE  (before \o after)[i] = IF i < d THEN entries[i] ELSE entries[i + 1]
    OBVIOUS
  <2>1. CASE i < d
    BY <1>1, <1>2, <1>4, <2>1
  <2>2. CASE ~(i < d)
    <3>1. i - (d - 1) \in 1..(n - d) /\ i - (d - 1) + d = i + 1
      BY <1>1, <2>2
    <3>2. after[i - (d - 1)] = entries[i + 1]
      BY <1>3, <3>1
    <3> QED BY <1>1, <1>4, <2>2, <3>2
  <2> QED BY <2>1, <2>2
<1> QED BY <1>4, <1>5, <1>6

LEMMA DiscardedIsUnseen ==
  ASSUME NEW S, NEW entries \in Seq(S), NEW d \in 1..Len(entries), entries[d].draft
  PROVE  /\ RemoveAt(entries, d) \in Seq(S)
         /\ WithoutDrafts(RemoveAt(entries, d)) = WithoutDrafts(entries)
<1> DEFINE n == Len(entries)
           other == RemoveAt(entries, d)
           move == [i \in PublicPlaces(entries, n) |-> IF i < d THEN i ELSE i - 1]
<1>1. /\ n \in Nat /\ d \in 1..n /\ n - 1 \in Nat /\ other \in Seq(S) /\ Len(other) = n - 1
      /\ \A i \in 1..(n - 1) : other[i] = IF i < d THEN entries[i] ELSE entries[i + 1]
  <2>1. n \in Nat /\ d \in 1..n
    BY LenProperties
  <2>2. /\ other \in Seq(S) /\ Len(other) = n - 1
        /\ \A i \in 1..(n - 1) : other[i] = IF i < d THEN entries[i] ELSE entries[i + 1]
    BY RemoveAtProperties
  <2> HIDE DEF other, n
  <2> QED BY <2>1, <2>2
<1> HIDE DEF other
<1>2. ASSUME NEW i \in PublicPlaces(entries, n)
      PROVE  /\ i \in 1..n /\ i # d /\ move[i] = (IF i < d THEN i ELSE i - 1)
             /\ move[i] \in PublicPlaces(other, n - 1) /\ other[move[i]] = entries[i]
  <2>1. i \in 1..n /\ ~entries[i].draft /\ i # d
    BY DEF PublicPlaces
  <2>2. move[i] = IF i < d THEN i ELSE i - 1
    OBVIOUS
  <2>3. move[i] \in 1..(n - 1) /\ (i < d => move[i] < d) /\ (~(i < d) => ~(move[i] < d) /\ move[i] + 1 = i)
    BY <1>1, <2>1, <2>2
  <2>4. other[move[i]] = entries[i]
    BY <1>1, <2>2, <2>3
  <2> QED BY <2>1, <2>2, <2>3, <2>4 DEF PublicPlaces
<1>3. ASSUME NEW x \in PublicPlaces(other, n - 1)
      PROVE  \E i \in PublicPlaces(entries, n) : move[i] = x
  <2>1. x \in 1..(n - 1) /\ ~other[x].draft
    BY DEF PublicPlaces
  <2>2. CASE x < d
    <3>1. x \in PublicPlaces(entries, n)
      BY <1>1, <2>1, <2>2 DEF PublicPlaces
    <3> QED BY <2>2, <3>1
  <2>3. CASE ~(x < d)
    <3>1. x + 1 \in PublicPlaces(entries, n)
      <4>1. x + 1 \in 1..n
        BY <1>1, <2>1
      <4>2. other[x] = entries[x + 1]
        BY <1>1, <2>1, <2>3
      <4> QED BY <2>1, <4>1, <4>2 DEF PublicPlaces
    <3>2. ~(x + 1 < d) /\ x + 1 - 1 = x
      BY <1>1, <2>1, <2>3
    <3>3. PICK i \in PublicPlaces(entries, n) : i = x + 1
      BY <3>1
    <3>4. move[i] = IF i < d THEN i ELSE i - 1
      BY <1>2
    <3> QED BY <3>2, <3>3, <3>4
  <2> QED BY <2>2, <2>3
<1>4. IsKept(WithoutDrafts(entries), other, n - 1)
  <2>1. move \in [PublicPlaces(entries, n) -> PublicPlaces(other, n - 1)]
    BY <1>2
  <2>2. \A i, j \in PublicPlaces(entries, n) : i < j => move[i] < move[j]
    BY <1>1, <1>2
  <2>3. \A i \in PublicPlaces(entries, n) : other[move[i]] = entries[i]
    BY <1>2
  <2>4. WithoutDrafts(entries) \in Seq(S) /\ IsKept(WithoutDrafts(entries), entries, n)
    BY PassKeeps
  <2>5. n - 1 \in Nat
    BY <1>1
  <2> DEFINE kept == WithoutDrafts(entries)
             m == n - 1
  <2> HIDE DEF move, n, m, kept
  <2>6. kept \in Seq(S) /\ IsKept(kept, entries, n) /\ m \in Nat
    BY <2>4, <2>5 DEF kept, m
  <2>7. IsKept(kept, other, m)
    BY <1>3, <2>1, <2>2, <2>3, <2>6, MovedKeeps DEF m
  <2> QED BY <2>7 DEF kept, m
<1>5. WithoutDrafts(other) = WithoutDrafts(entries)
  BY <1>1, <1>4, PassKeeps, KeptIsOne
<1> QED BY <1>1, <1>5 DEF other

\* What was public is still listed, no earlier than it was.
LEMMA PublishedPushesBack ==
  ASSUME NEW entries \in Seq(Entries), NEW d \in 1..Len(entries), entries[d].draft
  PROVE  LET other == [entries EXCEPT ![d].draft = FALSE]
             kept == WithoutDrafts(entries)
             more == WithoutDrafts(other)
         IN /\ other \in Seq(Entries)
            /\ \A k \in 1..Len(kept) : \E l \in 1..Len(more) : k <= l /\ more[l] = kept[k]
<1> DEFINE n == Len(entries)
           other == [entries EXCEPT ![d].draft = FALSE]
           kept == WithoutDrafts(entries)
           more == WithoutDrafts(other)
           opened == [entries[d] EXCEPT !.draft = FALSE]
<1>1. n \in Nat /\ entries[d] \in Entries /\ opened \in Entries /\ ~opened.draft
  <2>1. n \in Nat /\ entries[d] \in Entries
    BY LenProperties, ElementOfSeq
  <2> QED BY <2>1 DEF Entries
<1>2. /\ other \in Seq(Entries) /\ Len(other) = n
      /\ \A i \in 1..n : other[i] = IF i = d THEN opened ELSE entries[i]
  <2>1. other = [entries EXCEPT ![d] = opened]
    OBVIOUS
  <2> HIDE DEF opened
  <2>2. /\ [entries EXCEPT ![d] = opened] \in Seq(Entries)
        /\ Len([entries EXCEPT ![d] = opened]) = n
        /\ \A i \in 1..n : [entries EXCEPT ![d] = opened][i] = IF i = d THEN opened ELSE entries[i]
    BY <1>1, ExceptSeq
  <2> QED BY <2>1, <2>2
<1> HIDE DEF other, opened
<1>3. /\ PublicPlaces(entries, n) \subseteq PublicPlaces(other, n)
      /\ PublicPlaces(other, n) \subseteq Nat
      /\ \A i \in PublicPlaces(entries, n) : i \in 1..n /\ other[i] = entries[i]
  BY <1>1, <1>2 DEF PublicPlaces
<1>4. /\ Len(kept) \in Nat /\ IsKept(kept, entries, n)
      /\ Len(more) \in Nat /\ IsKept(more, other, n)
  BY <1>2, PassKeeps, LenProperties
<1> HIDE DEF kept, more, n
<1>5. PICK p : /\ Numbers(p, PublicPlaces(entries, n), Len(kept))
               /\ \A k \in 1..Len(kept) : kept[k] = entries[p[k]]
  BY <1>4 DEF IsKept
<1>6. PICK q : /\ Numbers(q, PublicPlaces(other, n), Len(more))
               /\ \A k \in 1..Len(more) : more[k] = other[q[k]]
  BY <1>4 DEF IsKept
<1>7. \A k \in 1..Len(kept) : k <= Len(more) /\ q[k] <= p[k]
  BY <1>3, <1>4, <1>5, <1>6, Denser
<1>8. ASSUME NEW k \in 1..Len(kept)
      PROVE  \E l \in 1..Len(more) : k <= l /\ more[l] = kept[k]
  <2>1. p[k] \in PublicPlaces(entries, n)
    BY <1>5 DEF Numbers
  <2>2. PICK l \in 1..Len(more) : q[l] = p[k]
    BY <1>3, <1>6, <2>1 DEF Numbers
  <2>3. more[l] = kept[k]
    BY <1>3, <1>5, <1>6, <2>1, <2>2
  <2>4. k \in 1..Len(more) /\ q[k] <= q[l]
    BY <1>4, <1>7, <2>2
  <2>5. l < k => q[l] < q[k]
    BY <1>6, <2>4 DEF Numbers
  <2>6. q[k] \in Nat /\ q[l] \in Nat
    BY <1>3, <1>6, <2>4 DEF Numbers
  <2>7. k <= l
    BY <1>4, <2>4, <2>5, <2>6
  <2> QED BY <2>3, <2>7
<1> QED BY <1>2, <1>8 DEF other, kept, more, n

-----------------------------------------------------------------------------
(* The pages of a list. *)

LEMMA IdsProperties ==
  ASSUME NEW entries \in Seq(Entries)
  PROVE  /\ Ids(entries) \in Seq(Releases) /\ Len(Ids(entries)) = Len(entries)
         /\ \A k \in 1..Len(entries) : Ids(entries)[k] = entries[k].id
<1>1. /\ Len(entries) \in Nat /\ DOMAIN entries = 1..Len(entries)
      /\ \A k \in 1..Len(entries) : entries[k] \in Entries
  BY LenProperties, ElementOfSeq
<1>2. Ids(entries) = [k \in 1..Len(entries) |-> entries[k].id]
  BY <1>1 DEF Ids
<1>3. \A k \in 1..Len(entries) : entries[k].id \in Releases
  BY <1>1 DEF Entries
<1> QED BY <1>1, <1>2, <1>3

LEMMA PageProperties ==
  ASSUME NEW S, NEW seen \in Seq(S), NEW n \in Nat \ {0}
  PROVE  LET done == (n - 1) * PageSize
             page == PageOf(seen, n)
         IN /\ done \in Nat /\ n * PageSize = done + PageSize /\ Len(seen) \in Nat
            /\ page \in Seq(S) /\ Len(page) \in Nat /\ Len(page) <= PageSize
            /\ \A i \in 1..Len(page) : \E k \in 1..Len(seen) : page[i] = seen[k]
            /\ \A k \in 1..Len(seen) :
                 done < k /\ (Len(page) < PageSize \/ k <= done + PageSize)
                   => \E i \in 1..Len(page) : page[i] = seen[k]
            /\ done <= Len(seen) /\ Len(page) < PageSize => SubSeq(seen, 1, done) \o page = seen
            /\ done <= Len(seen) /\ ~(Len(page) < PageSize) =>
                 /\ done + PageSize <= Len(seen)
                 /\ SubSeq(seen, 1, done) \o page = SubSeq(seen, 1, done + PageSize)
<1> DEFINE done == (n - 1) * PageSize
           page == PageOf(seen, n)
           len == Len(seen)
           last == IF done + PageSize < len THEN done + PageSize ELSE len
<1>1. PageSize \in Nat /\ PageSize > 0 /\ len \in Nat /\ \A k \in 1..len : seen[k] \in S
  BY CaptureAssumption, LenProperties, ElementOfSeq
<1>2. done \in Nat /\ n * PageSize = done + PageSize
  BY <1>1
<1>3. page = SubSeq(seen, done + 1, last)
  BY <1>2 DEF PageOf
<1> HIDE DEF done, page
<1>4. /\ last \in Nat /\ last <= len /\ last <= done + PageSize
      /\ done + PageSize < len => last = done + PageSize
      /\ ~(done + PageSize < len) => last = len
  BY <1>1, <1>2
<1> HIDE DEF last
<1>5. /\ page \in Seq(S) /\ Len(page) = (IF done + 1 <= last THEN last - done ELSE 0)
      /\ \A i \in 1..(last - done) : page[i] = seen[i + done]
  <2>1. \A i \in (done + 1)..last : seen[i] \in S
    BY <1>1, <1>2, <1>4
  <2>2. /\ page \in Seq(S)
        /\ Len(page) = IF done + 1 <= last THEN last - (done + 1) + 1 ELSE 0
        /\ \A i \in 1..(last - (done + 1) + 1) : page[i] = seen[(done + 1) + i - 1]
    BY <1>2, <1>3, <1>4, <2>1, SubSeqProperties
  <2>3. \A i \in 1..(last - done) : i \in 1..(last - (done + 1) + 1) /\ (done + 1) + i - 1 = i + done
    BY <1>2, <1>4
  <2>4. Len(page) = (IF done + 1 <= last THEN last - done ELSE 0)
    <3>1. done \in Nat /\ last \in Nat
      BY <1>2, <1>4
    <3>2. last - (done + 1) + 1 = last - done
      BY <3>1
    <3> QED BY <2>2, <3>2
  <2>5. \A i \in 1..(last - done) : page[i] = seen[i + done]
    BY <2>2, <2>3
  <2> QED BY <2>2, <2>4, <2>5
<1>6. Len(page) \in Nat /\ Len(page) <= PageSize
  BY <1>1, <1>2, <1>4, <1>5
<1>7. ASSUME NEW i \in 1..Len(page) PROVE \E k \in 1..len : page[i] = seen[k]
  <2>1. i \in 1..(last - done) /\ i + done \in 1..len
    BY <1>1, <1>2, <1>4, <1>5
  <2> QED BY <1>5, <2>1
<1>8. ASSUME NEW k \in 1..len, done < k, Len(page) < PageSize \/ k <= done + PageSize
      PROVE  \E i \in 1..Len(page) : page[i] = seen[k]
  <2>1. k <= last
    BY <1>1, <1>2, <1>4, <1>5, <1>8
  <2>2. k - done \in 1..Len(page) /\ k - done \in 1..(last - done) /\ (k - done) + done = k
    BY <1>1, <1>2, <1>4, <1>5, <1>8, <2>1
  <2>3. page[k - done] = seen[k]
    BY <1>5, <2>2
  <2> QED BY <2>2, <2>3
<1>9. ASSUME done <= len PROVE SubSeq(seen, 1, done) \o page = SubSeq(seen, 1, last)
  <2>1. 1 \in 1..(len + 1) /\ done \in (1 - 1)..len /\ last \in done..len
    BY <1>1, <1>2, <1>4, <1>9
  <2> QED BY <1>3, <2>1, ConcatAdjacentSubSeq
<1>10. ASSUME done <= len, Len(page) < PageSize PROVE SubSeq(seen, 1, done) \o page = seen
  <2>1. last = len
    BY <1>1, <1>2, <1>4, <1>5, <1>10
  <2> QED BY <1>9, <1>10, <2>1, SubSeqFull
<1>11. ASSUME done <= len, ~(Len(page) < PageSize)
       PROVE  /\ done + PageSize <= len
              /\ SubSeq(seen, 1, done) \o page = SubSeq(seen, 1, done + PageSize)
  <2>1. last = done + PageSize
    BY <1>1, <1>2, <1>4, <1>5, <1>11
  <2> QED BY <1>1, <1>4, <1>9, <1>11, <2>1
<1> QED BY <1>1, <1>2, <1>5, <1>6, <1>7, <1>8, <1>10, <1>11 DEF done, page

\* A page continues what the pages before it hold, and a short one ends it.
LEMMA PageJoins ==
  ASSUME NEW S, NEW seen \in Seq(S), NEW n \in Nat \ {0}
  PROVE  LET done == (n - 1) * PageSize
             page == PageOf(seen, n)
         IN /\ done \in Nat /\ n * PageSize = done + PageSize
            /\ done <= Len(seen) /\ Len(page) < PageSize => SubSeq(seen, 1, done) \o page = seen
            /\ done <= Len(seen) /\ ~(Len(page) < PageSize) =>
                 /\ done + PageSize <= Len(seen)
                 /\ SubSeq(seen, 1, done) \o page = SubSeq(seen, 1, done + PageSize)
BY PageProperties

-----------------------------------------------------------------------------
(* The invariant. *)

Captures ==
  [page : Nat \ {0}, items : Seq(Entries), attempt : 1..Attempts,
   result : {"idle", "none", "healthy", "failed", "misshapen"},
   body : Seq(Releases), atStart : Seq(Releases), moved : BOOLEAN]

TypeInv ==
  /\ list \in Seq(Entries)
  /\ read \in [Readers -> Captures]

Joined(r) == (r.page - 1) * PageSize

\* What was public when the capture began has been joined or is still to be read.
Covers(r, seen) ==
  \A k \in 1..Len(r.atStart) :
    \/ \E i \in 1..Len(r.items) : r.items[i].id = r.atStart[k]
    \/ \E i \in 1..Len(seen) : Joined(r) < i /\ seen[i].id = r.atStart[k]

Watching ==
  read["watcher"].result = "none" =>
    /\ \A i \in 1..Len(read["watcher"].items) : ~read["watcher"].items[i].draft
    /\ Covers(read["watcher"], WithoutDrafts(list))

\* While the list rests, what is joined is a first part of what the reader sees.
AtRest(reader) ==
  ~read[reader].moved =>
    /\ read[reader].result = "none" =>
         /\ read[reader].atStart = PublicNow
         /\ Joined(read[reader]) <= Len(Visible(reader))
         /\ read[reader].items = SubSeq(Visible(reader), 1, Joined(read[reader]))
    /\ read[reader].result = "healthy" => read[reader].body = read[reader].atStart

CaptureInv ==
  /\ TypeInv
  /\ Watching
  /\ WatcherSeesEveryRelease
  /\ \A reader \in Readers : AtRest(reader)

LEMMA VisibleType ==
  ASSUME TypeInv, NEW reader \in Readers
  PROVE  /\ Visible(reader) \in Seq(Entries)
         /\ WithoutDrafts(list) \in Seq(Entries)
         /\ PublicNow \in Seq(Releases) /\ PublicNow = Ids(WithoutDrafts(list))
<1>1. list \in Seq(Entries)
  BY DEF TypeInv
<1>2. WithoutDrafts(list) \in Seq(Entries)
  BY <1>1, PassKeeps
<1> QED BY <1>1, <1>2, IdsProperties DEF Visible, PublicNow, Projected

LEMMA ProjectedType ==
  ASSUME NEW items \in Seq(Entries)
  PROVE  Projected(items) \in Seq(Releases)
BY PassKeeps, IdsProperties DEF Projected

LEMMA IdleType ==
  Idle \in Captures
BY EmptySeq DEF Idle, Captures, Attempts

LEMMA TypeStart ==
  ASSUME Init
  PROVE  TypeInv
<1>1. list \in Seq(Entries)
  <2>1. /\ Len(Listed) \in Nat /\ DOMAIN Listed = 1..Len(Listed)
        /\ \A i \in 1..Len(Listed) : Listed[i] \in Releases
    BY CaptureAssumption, LenProperties, ElementOfSeq
  <2>2. list = [i \in 1..Len(Listed) |-> [id |-> Listed[i], draft |-> FALSE]]
    BY <2>1 DEF Init
  <2>3. \A i \in 1..Len(Listed) : [id |-> Listed[i], draft |-> FALSE] \in Entries
    BY <2>1 DEF Entries
  <2> QED BY <2>1, <2>2, <2>3
<1> QED BY <1>1, IdleType DEF Init, TypeInv

\* A step of one reader leaves the other and the list alone.
LEMMA ReaderType ==
  ASSUME TypeInv, NEW reader \in Readers, NEW after \in Captures,
         read' = [read EXCEPT ![reader] = after], UNCHANGED list
  PROVE  TypeInv' /\ read'[reader] = after
                  /\ \A other \in Readers : other # reader => read'[other] = read[other]
BY DEF TypeInv

LEMMA StartTakes ==
  ASSUME TypeInv, NEW reader \in Readers, StartCapture(reader)
  PROVE  LET after == [Idle EXCEPT !.result = "none", !.atStart = PublicNow] IN
         /\ after \in Captures
         /\ read' = [read EXCEPT ![reader] = after] /\ UNCHANGED list
         /\ after.page = 1 /\ after.items = <<>> /\ after.result = "none"
         /\ after.atStart = PublicNow /\ after.moved = FALSE
<1> DEFINE after == [Idle EXCEPT !.result = "none", !.atStart = PublicNow]
<1>1. PublicNow \in Seq(Releases)
  BY VisibleType
<1>2. Idle \in Captures /\ Idle.page = 1 /\ Idle.items = <<>> /\ Idle.moved = FALSE
  BY IdleType DEF Idle
<1>3. /\ after \in Captures /\ after.page = Idle.page /\ after.items = Idle.items
      /\ after.moved = Idle.moved /\ after.result = "none" /\ after.atStart = PublicNow
  BY <1>1, <1>2 DEF Captures
<1>4. read' = [read EXCEPT ![reader] = after] /\ UNCHANGED list
  BY DEF StartCapture
<1> QED BY <1>2, <1>3, <1>4

\* A page read: what it makes of the capture, by the three ways it may end.
LEMMA ReadTakes ==
  ASSUME TypeInv, NEW reader \in Readers, ReadPage(reader)
  PROVE  LET r == read[reader]
             page == PageOf(Visible(reader), r.page)
             items == r.items \o page
             after == read'[reader]
         IN /\ r.result = "none" /\ items \in Seq(Entries) /\ UNCHANGED list
            /\ after \in Captures /\ read' = [read EXCEPT ![reader] = after]
            /\ after.atStart = r.atStart /\ after.moved = r.moved
            /\ \/ /\ Len(page) < PageSize
                  /\ after.result = "healthy" /\ after.body = Projected(items)
               \/ after.result = "failed"
               \/ /\ ~(Len(page) < PageSize)
                  /\ after.result = "none" /\ after.items = items /\ after.page = r.page + 1
<1> DEFINE r == read[reader]
           page == PageOf(Visible(reader), r.page)
           items == r.items \o page
           whole == [r EXCEPT !.items = <<>>, !.result = "healthy", !.body = Projected(items)]
           full == [r EXCEPT !.items = <<>>, !.result = "failed"]
           more == [r EXCEPT !.items = items, !.page = @ + 1, !.attempt = 1]
           after == IF Len(page) < PageSize THEN whole
                    ELSE IF r.page = MaxPages THEN full ELSE more
<1>1. r \in Captures /\ r.page \in Nat \ {0} /\ r.items \in Seq(Entries)
  BY DEF TypeInv, Captures
<1>2. page \in Seq(Entries)
  BY <1>1, VisibleType, PageProperties
<1> HIDE DEF page
<1>3. items \in Seq(Entries) /\ Projected(items) \in Seq(Releases)
  BY <1>1, <1>2, ConcatProperties, ProjectedType
<1>4. r.result = "none" /\ read' = [read EXCEPT ![reader] = after] /\ UNCHANGED list
  BY DEF ReadPage, IsLastPage, page
<1> HIDE DEF r, items
<1>5. /\ whole \in Captures /\ whole.atStart = r.atStart /\ whole.moved = r.moved
      /\ whole.result = "healthy" /\ whole.body = Projected(items)
  BY <1>1, <1>3, EmptySeq DEF Captures
<1>6. /\ full \in Captures /\ full.atStart = r.atStart /\ full.moved = r.moved
      /\ full.result = "failed"
  BY <1>1, EmptySeq DEF Captures
<1>7. /\ more \in Captures /\ more.atStart = r.atStart /\ more.moved = r.moved
      /\ more.result = r.result /\ more.items = items /\ more.page = r.page + 1
  <2>1. r.page + 1 \in Nat \ {0} /\ 1 \in 1..Attempts
    BY <1>1 DEF Attempts
  <2>2. more = [r EXCEPT !.items = items, !.page = r.page + 1, !.attempt = 1]
    BY <1>1 DEF Captures
  <2> HIDE DEF more
  <2> QED BY <1>1, <1>3, <2>1, <2>2 DEF Captures
<1> HIDE DEF whole, full, more
<1>8. after \in Captures /\ after.atStart = r.atStart /\ after.moved = r.moved
  BY <1>5, <1>6, <1>7
<1>9. read'[reader] = after
  BY <1>4 DEF TypeInv
<1>10. \/ /\ Len(page) < PageSize
          /\ after.result = "healthy" /\ after.body = Projected(items)
       \/ after.result = "failed"
       \/ /\ ~(Len(page) < PageSize)
          /\ after.result = "none" /\ after.items = items /\ after.page = r.page + 1
  BY <1>4, <1>5, <1>6, <1>7
<1> HIDE DEF after
<1> QED BY <1>3, <1>4, <1>8, <1>9, <1>10 DEF r, items, page

\* A lost or rejected answer ends the capture, or leaves it as it was.
LEMMA LostTakes ==
  ASSUME TypeInv, NEW reader \in Readers, AnswerLost(reader) \/ AnswerRejected(reader)
  PROVE  LET r == read[reader]
             after == read'[reader]
         IN /\ UNCHANGED list
            /\ after \in Captures /\ read' = [read EXCEPT ![reader] = after]
            /\ \/ after.result \in {"failed", "misshapen"}
               \/ /\ after.result = r.result /\ after.page = r.page /\ after.items = r.items
                  /\ after.atStart = r.atStart /\ after.moved = r.moved
<1> DEFINE r == read[reader]
           again == [r EXCEPT !.attempt = @ + 1]
           ended(result) == [r EXCEPT !.items = <<>>, !.result = result]
<1>1. r \in Captures /\ read \in [Readers -> Captures]
  BY DEF TypeInv
<1>2. \A result \in {"failed", "misshapen"} : ended(result) \in Captures /\ ended(result).result = result
  BY <1>1, EmptySeq DEF Captures
<1>3. /\ r.attempt < Attempts => again \in Captures
      /\ again.result = r.result /\ again.page = r.page /\ again.items = r.items
      /\ again.atStart = r.atStart /\ again.moved = r.moved
  <2>1. r.attempt \in 1..Attempts /\ (r.attempt < Attempts => r.attempt + 1 \in 1..Attempts)
    BY <1>1 DEF Captures, Attempts
  <2>2. again = [r EXCEPT !.attempt = r.attempt + 1]
    BY <1>1 DEF Captures
  <2> HIDE DEF again
  <2> QED BY <1>1, <2>1, <2>2 DEF Captures
<1>4. CASE AnswerLost(reader)
  <2>1. /\ read' = [read EXCEPT ![reader] = IF r.attempt < Attempts THEN again ELSE ended("failed")]
        /\ UNCHANGED list
    BY <1>4 DEF AnswerLost
  <2> HIDE DEF again, ended
  <2> QED BY <1>1, <1>2, <1>3, <2>1
<1>5. CASE AnswerRejected(reader)
  <2>1. PICK result \in {"failed", "misshapen"} :
          read' = [read EXCEPT ![reader].items = <<>>, ![reader].result = result] /\ UNCHANGED list
    BY <1>5 DEF AnswerRejected
  <2>2. read' = [read EXCEPT ![reader] = ended(result)]
    BY <1>1, <2>1
  <2> HIDE DEF ended
  <2> QED BY <1>1, <1>2, <2>1, <2>2
<1> QED BY <1>4, <1>5

\* A change of the list reaches a capture only by its mark.
LEMMA ChangeTakes ==
  ASSUME TypeInv, NEW entries \in Seq(Entries), Changes(entries)
  PROVE  /\ TypeInv' /\ list' = entries
         /\ \A reader \in Readers :
              LET r == read[reader]
                  after == read'[reader]
              IN /\ after.result = r.result /\ after.page = r.page /\ after.items = r.items
                 /\ after.atStart = r.atStart /\ after.body = r.body
                 /\ ~after.moved => ~r.moved /\ r.result # "none"
<1> DEFINE moved(reader) == read[reader].moved \/ read[reader].result = "none"
<1>1. /\ list' = entries
      /\ read' = [reader \in Readers |-> [read[reader] EXCEPT !.moved = moved(reader)]]
  BY DEF Changes
<1>2. ASSUME NEW reader \in Readers
      PROVE  LET r == read[reader]
                 after == read'[reader]
             IN /\ after \in Captures /\ after.moved = moved(reader)
                /\ after.result = r.result /\ after.page = r.page /\ after.items = r.items
                /\ after.atStart = r.atStart /\ after.body = r.body
  <2>1. read[reader] \in Captures /\ moved(reader) \in BOOLEAN
    BY DEF TypeInv
  <2>2. read'[reader] = [read[reader] EXCEPT !.moved = moved(reader)]
    BY <1>1
  <2> HIDE DEF moved
  <2> QED BY <2>1, <2>2 DEF Captures
<1>3. TypeInv'
  <2>1. read' \in [Readers -> Captures]
    BY <1>1, <1>2
  <2> QED BY <1>1, <2>1 DEF TypeInv
<1>4. ASSUME NEW reader \in Readers, ~read'[reader].moved
      PROVE  ~read[reader].moved /\ read[reader].result # "none"
  BY <1>2, <1>4
<1> QED BY <1>1, <1>2, <1>3, <1>4

ListChanges ==
  \/ \E id \in Releases : StageDraft(id)
  \/ \E i \in DOMAIN list : PublishDraft(i) \/ DiscardDraft(i)

\* Whatever happens to the list, no public entry leaves it or moves forward.
LEMMA ListPushesBack ==
  ASSUME TypeInv, ListChanges
  PROVE  \E entries \in Seq(Entries) :
           /\ Changes(entries)
           /\ \A k \in 1..Len(WithoutDrafts(list)) :
                \E l \in 1..Len(WithoutDrafts(entries)) :
                  k <= l /\ WithoutDrafts(entries)[l] = WithoutDrafts(list)[k]
<1>1. list \in Seq(Entries) /\ DOMAIN list = 1..Len(list)
  BY LenProperties DEF TypeInv
<1>2. ASSUME NEW entries \in Seq(Entries), WithoutDrafts(entries) = WithoutDrafts(list)
      PROVE  \A k \in 1..Len(WithoutDrafts(list)) :
               \E l \in 1..Len(WithoutDrafts(entries)) :
                 k <= l /\ WithoutDrafts(entries)[l] = WithoutDrafts(list)[k]
  BY <1>2
<1>3. CASE \E id \in Releases : StageDraft(id)
  <2>1. PICK id \in Releases : Changes(<<[id |-> id, draft |-> TRUE]>> \o list)
    BY <1>3 DEF StageDraft
  <2> DEFINE e == [id |-> id, draft |-> TRUE]
  <2>2. e \in Entries /\ e.draft
    BY DEF Entries
  <2> HIDE DEF e
  <2>3. <<e>> \o list \in Seq(Entries) /\ WithoutDrafts(<<e>> \o list) = WithoutDrafts(list)
    BY <1>1, <2>2, StagedIsUnseen
  <2>4. Changes(<<e>> \o list)
    BY <2>1 DEF e
  <2> QED BY <1>2, <2>3, <2>4
<1>4. CASE \E i \in DOMAIN list : PublishDraft(i)
  <2>1. PICK i \in 1..Len(list) : list[i].draft /\ Changes([list EXCEPT ![i].draft = FALSE])
    BY <1>1, <1>4 DEF PublishDraft
  <2> QED BY <1>1, <2>1, PublishedPushesBack
<1>5. CASE \E i \in DOMAIN list : DiscardDraft(i)
  <2>1. PICK i \in 1..Len(list) : list[i].draft /\ Changes(RemoveAt(list, i))
    BY <1>1, <1>5 DEF DiscardDraft
  <2>2. RemoveAt(list, i) \in Seq(Entries) /\ WithoutDrafts(RemoveAt(list, i)) = WithoutDrafts(list)
    BY <1>1, <2>1, DiscardedIsUnseen
  <2> QED BY <1>2, <2>1, <2>2
<1> QED BY <1>3, <1>4, <1>5 DEF ListChanges

LEMMA NextIsOne ==
  ASSUME Next
  PROVE  \/ \E reader \in Readers :
              StartCapture(reader) \/ ReadPage(reader) \/ AnswerLost(reader) \/ AnswerRejected(reader)
         \/ ListChanges
BY DEF Next, ListChanges

LEMMA TypeStep ==
  ASSUME TypeInv, [Next]_vars
  PROVE  TypeInv'
<1>1. ASSUME NEW reader \in Readers, StartCapture(reader) PROVE TypeInv'
  BY <1>1, StartTakes, ReaderType
<1>2. ASSUME NEW reader \in Readers, ReadPage(reader) PROVE TypeInv'
  BY <1>2, ReadTakes, ReaderType
<1>3. ASSUME NEW reader \in Readers, AnswerLost(reader) \/ AnswerRejected(reader) PROVE TypeInv'
  BY <1>3, LostTakes, ReaderType
<1>4. ASSUME ListChanges PROVE TypeInv'
  BY <1>4, ListPushesBack, ChangeTakes
<1>5. CASE UNCHANGED vars
  BY <1>5 DEF vars, TypeInv
<1> QED BY <1>1, <1>2, <1>3, <1>4, <1>5, NextIsOne

\* A capture of the watcher that has just begun has all of it to read.
LEMMA StartCovers ==
  ASSUME TypeInv, NEW r, r.page = 1, r.items = <<>>, r.atStart = PublicNow
  PROVE  Covers(r, WithoutDrafts(list)) /\ Joined(r) = 0
<1> DEFINE seen == WithoutDrafts(list)
<1>1. seen \in Seq(Entries) /\ r.atStart = Ids(seen)
  BY VisibleType DEF Readers
<1>2. Len(seen) \in Nat /\ Len(r.atStart) = Len(seen) /\ \A k \in 1..Len(seen) : r.atStart[k] = seen[k].id
  BY <1>1, IdsProperties, LenProperties
<1>3. Joined(r) = 0
  BY CaptureAssumption DEF Joined
<1> HIDE DEF seen
<1>4. Covers(r, seen)
  BY <1>2, <1>3 DEF Covers
<1> QED BY <1>3, <1>4 DEF seen

\* The page takes up what comes first of what is still to be read; a short one, all of it.
LEMMA ReadCovers ==
  ASSUME TypeInv, Watching, ReadPage("watcher")
  PROVE  Watching' /\ WatcherSeesEveryRelease'
<1> DEFINE r == read["watcher"]
           seen == WithoutDrafts(list)
           page == PageOf(seen, r.page)
           items == r.items \o page
           after == read'["watcher"]
<1>1. "watcher" \in Readers /\ Visible("watcher") = seen
  BY DEF Readers, Visible
<1>2. /\ r.result = "none" /\ items \in Seq(Entries) /\ UNCHANGED list
      /\ after \in Captures
      /\ after.atStart = r.atStart
      /\ \/ /\ Len(page) < PageSize
            /\ after.result = "healthy" /\ after.body = Projected(items)
         \/ after.result = "failed"
         \/ /\ ~(Len(page) < PageSize)
            /\ after.result = "none" /\ after.items = items /\ after.page = r.page + 1
  BY <1>1, ReadTakes
<1>3. /\ r.page \in Nat \ {0} /\ r.items \in Seq(Entries) /\ r.atStart \in Seq(Releases)
      /\ list \in Seq(Entries)
  BY <1>1 DEF TypeInv, Captures
<1>4. /\ seen \in Seq(Entries) /\ Len(seen) \in Nat
      /\ \A k \in 1..Len(seen) : ~seen[k].draft
  BY <1>3, KeptArePublic
<1>5. /\ \A i \in 1..Len(r.items) : ~r.items[i].draft
      /\ Covers(r, seen)
  BY <1>2 DEF Watching
<1>6. /\ Joined(r) \in Nat /\ r.page * PageSize = Joined(r) + PageSize
      /\ page \in Seq(Entries) /\ Len(page) \in Nat
      /\ \A i \in 1..Len(page) : \E k \in 1..Len(seen) : page[i] = seen[k]
      /\ \A k \in 1..Len(seen) :
           Joined(r) < k /\ (Len(page) < PageSize \/ k <= Joined(r) + PageSize)
             => \E i \in 1..Len(page) : page[i] = seen[k]
  BY <1>3, <1>4, PageProperties DEF Joined
<1> HIDE DEF seen, page
<1>7. /\ Len(r.items) \in Nat /\ Len(items) = Len(r.items) + Len(page)
      /\ \A i \in 1..(Len(r.items) + Len(page)) :
           items[i] = IF i <= Len(r.items) THEN r.items[i] ELSE page[i - Len(r.items)]
  BY <1>3, <1>6, LenProperties, ConcatProperties
<1> HIDE DEF r, items
<1>8. /\ \A i \in 1..Len(r.items) : i \in 1..Len(items) /\ items[i] = r.items[i]
      /\ \A i \in 1..Len(page) : \E j \in 1..Len(items) : items[j] = page[i]
  <2>1. ASSUME NEW i \in 1..Len(page) PROVE \E j \in 1..Len(items) : items[j] = page[i]
    <3>1. /\ Len(r.items) + i \in 1..(Len(r.items) + Len(page)) /\ ~(Len(r.items) + i <= Len(r.items))
          /\ (Len(r.items) + i) - Len(r.items) = i
      BY <1>6, <1>7
    <3> QED BY <1>7, <3>1
  <2> QED BY <1>6, <1>7, <2>1
<1>9. \A i \in 1..Len(items) : ~items[i].draft
  <2> SUFFICES ASSUME NEW i \in 1..Len(items) PROVE ~items[i].draft
    OBVIOUS
  <2>1. CASE i <= Len(r.items)
    BY <1>5, <1>7, <2>1
  <2>2. CASE ~(i <= Len(r.items))
    <3>1. /\ i \in 1..(Len(r.items) + Len(page))
          /\ Len(r.items) \in Nat /\ Len(page) \in Nat
      BY <1>6, <1>7
    <3> DEFINE j == i - Len(r.items)
    <3>2. j \in 1..Len(page)
      BY <2>2, <3>1
    <3>3. items[i] = page[j]
      BY <1>7, <2>2, <3>1
    <3> HIDE DEF j
    <3>4. PICK k \in 1..Len(seen) : items[i] = seen[k]
      BY <1>6, <3>2, <3>3
    <3> QED BY <1>4, <3>4
  <2> QED BY <2>1, <2>2
<1>10. ASSUME NEW k \in 1..Len(r.atStart)
       PROVE  \/ \E i \in 1..Len(items) : items[i].id = r.atStart[k]
              \/ /\ ~(Len(page) < PageSize)
                 /\ \E i \in 1..Len(seen) : Joined(r) + PageSize < i /\ seen[i].id = r.atStart[k]
  <2>1. CASE \E i \in 1..Len(r.items) : r.items[i].id = r.atStart[k]
    BY <1>8, <2>1
  <2>2. CASE \E i \in 1..Len(seen) : Joined(r) < i /\ seen[i].id = r.atStart[k]
    <3>1. PICK i \in 1..Len(seen) : Joined(r) < i /\ seen[i].id = r.atStart[k]
      BY <2>2
    <3>2. CASE Len(page) < PageSize \/ i <= Joined(r) + PageSize
      <4>1. PICK l \in 1..Len(page) : page[l] = seen[i]
        BY <1>6, <3>1, <3>2
      <4>2. PICK j \in 1..Len(items) : items[j] = page[l]
        BY <1>8
      <4> QED BY <3>1, <4>1, <4>2
    <3>3. CASE ~(Len(page) < PageSize) /\ ~(i <= Joined(r) + PageSize)
      <4>1. Joined(r) + PageSize < i
        BY <1>4, <1>6, <3>3, CaptureAssumption
      <4> QED BY <3>1, <3>3, <4>1
    <3> QED BY <3>2, <3>3
  <2> QED BY <1>5, <2>1, <2>2 DEF Covers
<1>11. Watching'
  <2> SUFFICES ASSUME after.result = "none"
               PROVE  /\ \A i \in 1..Len(after.items) : ~after.items[i].draft
                      /\ Covers(after, seen)
    BY <1>2 DEF Watching, seen
  <2>1. ~(Len(page) < PageSize) /\ after.items = items /\ after.page = r.page + 1
    BY <1>2
  <2>2. Joined(after) = Joined(r) + PageSize
    <3>1. (r.page + 1) - 1 = r.page
      BY <1>3
    <3> QED BY <1>6, <2>1, <3>1 DEF Joined
  <2> QED BY <1>2, <1>9, <1>10, <2>1, <2>2 DEF Covers
<1>12. WatcherSeesEveryRelease'
  <2> SUFFICES ASSUME after.result = "healthy"
               PROVE  ToSet(after.atStart) \subseteq ToSet(after.body)
    BY DEF WatcherSeesEveryRelease
  <2>1. Len(page) < PageSize /\ after.body = Projected(items)
    BY <1>2
  <2>2. after.body = Ids(items)
    BY <1>2, <1>9, <2>1, PublicListIsKept DEF Projected
  <2>3. /\ Len(after.body) = Len(items) /\ DOMAIN after.body = 1..Len(items)
        /\ \A i \in 1..Len(items) : after.body[i] = items[i].id
    BY <1>2, <2>2, IdsProperties, LenProperties
  <2>4. DOMAIN r.atStart = 1..Len(r.atStart) /\ after.atStart = r.atStart
    BY <1>2, <1>3, LenProperties
  <2>5. ASSUME NEW k \in 1..Len(r.atStart)
        PROVE  \E i \in DOMAIN after.body : after.body[i] = after.atStart[k]
    <3>1. PICK i \in 1..Len(items) : items[i].id = r.atStart[k]
      BY <1>10, <2>1
    <3> QED BY <2>3, <2>4, <3>1
  <2> HIDE DEF after
  <2> QED BY <2>4, <2>5 DEF ToSet
<1> QED BY <1>11, <1>12

\* The projection of a list, with its drafts or without them, is the same.
LEMMA ProjectedAlike ==
  ASSUME TypeInv, NEW reader \in Readers
  PROVE  Projected(Visible(reader)) = PublicNow
<1>1. list \in Seq(Entries)
  BY DEF TypeInv
<1>2. WithoutDrafts(WithoutDrafts(list)) = WithoutDrafts(list)
  BY <1>1, KeptArePublic, PublicListIsKept
<1> QED BY <1>2 DEF Visible, PublicNow, Projected

\* While the list rests, a page continues the first part that was joined.
LEMMA ReadAtRest ==
  ASSUME TypeInv, NEW reader \in Readers, AtRest(reader), ReadPage(reader)
  PROVE  AtRest(reader)'
<1> DEFINE r == read[reader]
           seen == Visible(reader)
           page == PageOf(seen, r.page)
           items == r.items \o page
           after == read'[reader]
<1>1. /\ r.result = "none" /\ UNCHANGED list
      /\ after.atStart = r.atStart /\ after.moved = r.moved
      /\ \/ /\ Len(page) < PageSize
            /\ after.result = "healthy" /\ after.body = Projected(items)
         \/ after.result = "failed"
         \/ /\ ~(Len(page) < PageSize)
            /\ after.result = "none" /\ after.items = items /\ after.page = r.page + 1
  BY ReadTakes
<1>2. r.page \in Nat \ {0} /\ seen \in Seq(Entries)
  BY VisibleType DEF TypeInv, Captures
<1> HIDE DEF r, seen
<1>3. /\ Joined(r) \in Nat /\ r.page * PageSize = Joined(r) + PageSize
      /\ Joined(r) <= Len(seen) /\ Len(page) < PageSize => SubSeq(seen, 1, Joined(r)) \o page = seen
      /\ Joined(r) <= Len(seen) /\ ~(Len(page) < PageSize) =>
           /\ Joined(r) + PageSize <= Len(seen)
           /\ SubSeq(seen, 1, Joined(r)) \o page = SubSeq(seen, 1, Joined(r) + PageSize)
  BY <1>2, PageJoins DEF Joined
<1> USE DEF r, seen
<1>4. Projected(seen) = PublicNow
  BY ProjectedAlike
<1>5. SUFFICES ASSUME ~after.moved
               PROVE  /\ after.result = "none" =>
                           /\ after.atStart = PublicNow
                           /\ Joined(after) <= Len(seen)
                           /\ after.items = SubSeq(seen, 1, Joined(after))
                      /\ after.result = "healthy" => after.body = after.atStart
  BY <1>1 DEF AtRest, Visible, PublicNow
<1>6. /\ r.atStart = PublicNow /\ Joined(r) <= Len(seen)
      /\ r.items = SubSeq(seen, 1, Joined(r))
  BY <1>1, <1>5 DEF AtRest
<1> HIDE DEF page, seen
<1>7. ASSUME after.result = "healthy" PROVE after.body = after.atStart
  BY <1>1, <1>3, <1>4, <1>6, <1>7
<1>8. ASSUME after.result = "none"
      PROVE  /\ after.atStart = PublicNow
             /\ Joined(after) <= Len(seen)
             /\ after.items = SubSeq(seen, 1, Joined(after))
  <2>1. ~(Len(page) < PageSize) /\ after.items = items /\ after.page = r.page + 1
    BY <1>1, <1>8
  <2>2. Joined(after) = Joined(r) + PageSize
    <3>1. (r.page + 1) - 1 = r.page
      BY <1>2
    <3> QED BY <1>3, <2>1, <3>1 DEF Joined
  <2> QED BY <1>1, <1>3, <1>6, <2>1, <2>2
<1> QED BY <1>7, <1>8

LEMMA StartAtRest ==
  ASSUME TypeInv, NEW reader \in Readers, StartCapture(reader)
  PROVE  AtRest(reader)'
<1> DEFINE after == read'[reader]
<1>1. /\ after.page = 1 /\ after.items = <<>> /\ after.result = "none"
      /\ after.atStart = PublicNow /\ UNCHANGED list
  BY StartTakes, ReaderType
<1>2. Visible(reader) \in Seq(Entries) /\ Len(Visible(reader)) \in Nat
  BY VisibleType, LenProperties
<1>3. Joined(after) = 0
  BY <1>1, CaptureAssumption DEF Joined
<1>4. SubSeq(Visible(reader), 1, 0) = <<>>
  BY SubSeqEmpty
<1> HIDE DEF after
<1> QED BY <1>1, <1>2, <1>3, <1>4 DEF AtRest, Visible, PublicNow, after

-----------------------------------------------------------------------------
(* The invariant is inductive. *)

LEMMA CaptureStart ==
  ASSUME Init
  PROVE  CaptureInv
<1>1. TypeInv
  BY TypeStart
<1>2. \A reader \in Readers : read[reader].result = "idle"
  BY DEF Init, Idle
<1>3. "watcher" \in Readers
  BY DEF Readers
<1> QED BY <1>1, <1>2, <1>3 DEF CaptureInv, Watching, WatcherSeesEveryRelease, AtRest

\* The readers a step leaves alone, the list at rest.
LEMMA OtherReaders ==
  ASSUME CaptureInv, UNCHANGED list, NEW reader \in Readers, read'[reader] = read[reader]
  PROVE  /\ AtRest(reader)'
         /\ reader = "watcher" => Watching' /\ WatcherSeesEveryRelease'
BY DEF CaptureInv, AtRest, Watching, WatcherSeesEveryRelease, Visible, PublicNow

LEMMA ReaderStep ==
  ASSUME CaptureInv, NEW reader \in Readers,
         StartCapture(reader) \/ ReadPage(reader) \/ AnswerLost(reader) \/ AnswerRejected(reader)
  PROVE  CaptureInv'
<1> USE DEF CaptureInv
<1>1. /\ TypeInv /\ Watching /\ WatcherSeesEveryRelease /\ AtRest(reader)
      /\ "watcher" \in Readers
  BY DEF Readers
<1>2. /\ TypeInv' /\ UNCHANGED list
      /\ \A other \in Readers : other # reader => read'[other] = read[other]
  <2>1. CASE StartCapture(reader)
    BY <2>1, StartTakes, ReaderType
  <2>2. CASE ReadPage(reader)
    <3> DEFINE after == read'[reader]
    <3>1. after \in Captures /\ read' = [read EXCEPT ![reader] = after] /\ UNCHANGED list
      BY <1>1, <2>2, ReadTakes
    <3> HIDE DEF after
    <3> QED BY <1>1, <3>1, ReaderType
  <2>3. CASE AnswerLost(reader) \/ AnswerRejected(reader)
    BY <2>3, LostTakes, ReaderType
  <2> QED BY <2>1, <2>2, <2>3
<1>3. AtRest(reader)' /\ (reader = "watcher" => Watching' /\ WatcherSeesEveryRelease')
  <2>1. CASE StartCapture(reader)
    <3>1. AtRest(reader)'
      BY <1>1, <2>1, StartAtRest
    <3>2. ASSUME reader = "watcher" PROVE Watching' /\ WatcherSeesEveryRelease'
      <4> DEFINE after == read'["watcher"]
      <4>1. /\ after.page = 1 /\ after.items = <<>> /\ after.result = "none"
            /\ after.atStart = PublicNow /\ UNCHANGED list
        BY <1>1, <2>1, <3>2, StartTakes, ReaderType
      <4>2. Covers(after, WithoutDrafts(list))
        BY <1>1, <4>1, StartCovers
      <4>3. Len(after.items) = 0
        BY <4>1
      <4> HIDE DEF after
      <4> QED BY <4>1, <4>2, <4>3 DEF Watching, WatcherSeesEveryRelease, after
    <3> QED BY <3>1, <3>2
  <2>2. CASE ReadPage(reader)
    BY <1>1, <2>2, ReadAtRest, ReadCovers
  <2>3. CASE AnswerLost(reader) \/ AnswerRejected(reader)
    <3> DEFINE r == read[reader]
               after == read'[reader]
    <3>1. \/ after.result \in {"failed", "misshapen"}
          \/ /\ after.result = r.result /\ after.page = r.page /\ after.items = r.items
             /\ after.atStart = r.atStart /\ after.moved = r.moved
      BY <1>1, <2>3, LostTakes
    <3>2. r.result = "none"
      BY <2>3 DEF AnswerLost, AnswerRejected
    <3> HIDE DEF after
    <3>3. CASE after.result \in {"failed", "misshapen"}
      BY <3>3 DEF AtRest, Watching, WatcherSeesEveryRelease, after
    <3>4. CASE /\ after.result = r.result /\ after.page = r.page /\ after.items = r.items
               /\ after.atStart = r.atStart /\ after.moved = r.moved
      <4>1. AtRest(reader)'
        BY <1>1, <1>2, <3>2, <3>4 DEF AtRest, Joined, Visible, PublicNow, after
      <4>2. ASSUME reader = "watcher" PROVE Watching' /\ WatcherSeesEveryRelease'
        <5>1. WatcherSeesEveryRelease'
          BY <3>2, <3>4, <4>2 DEF WatcherSeesEveryRelease, after
        <5> DEFINE seen == WithoutDrafts(list)
        <5>2. (\A i \in 1..Len(r.items) : ~r.items[i].draft) /\ Covers(r, seen)
          BY <1>1, <3>2, <4>2 DEF Watching
        <5> HIDE DEF r, seen
        <5>3. (\A i \in 1..Len(after.items) : ~after.items[i].draft) /\ Covers(after, seen)
          BY <3>4, <5>2 DEF Covers, Joined
        <5>4. Watching'
          BY <1>2, <4>2, <5>3 DEF Watching, after, seen
        <5> QED BY <5>1, <5>4
      <4> QED BY <4>1, <4>2
    <3> QED BY <3>1, <3>3, <3>4
  <2> QED BY <2>1, <2>2, <2>3
<1>4. \A other \in Readers : AtRest(other)'
  BY <1>2, <1>3, OtherReaders
<1>5. Watching' /\ WatcherSeesEveryRelease'
  BY <1>1, <1>2, <1>3, OtherReaders
<1> QED BY <1>2, <1>4, <1>5

LEMMA ListStep ==
  ASSUME CaptureInv, ListChanges
  PROVE  CaptureInv'
<1>1. /\ TypeInv /\ Watching /\ WatcherSeesEveryRelease /\ "watcher" \in Readers
      /\ \A reader \in Readers : AtRest(reader)
  BY DEF CaptureInv, Readers
<1> DEFINE seen == WithoutDrafts(list)
           later == WithoutDrafts(list')
<1>2. /\ TypeInv'
      /\ \A reader \in Readers :
           LET r == read[reader]
               after == read'[reader]
           IN /\ after.result = r.result /\ after.page = r.page /\ after.items = r.items
              /\ after.atStart = r.atStart /\ after.body = r.body
              /\ ~after.moved => ~r.moved /\ r.result # "none"
      /\ \A k \in 1..Len(seen) : \E l \in 1..Len(later) : k <= l /\ later[l] = seen[k]
  <2>1. PICK entries \in Seq(Entries) :
          /\ Changes(entries)
          /\ \A k \in 1..Len(WithoutDrafts(list)) :
               \E l \in 1..Len(WithoutDrafts(entries)) :
                 k <= l /\ WithoutDrafts(entries)[l] = WithoutDrafts(list)[k]
    BY <1>1, ListPushesBack
  <2> QED BY <1>1, <2>1, ChangeTakes
<1>3. \A reader \in Readers : AtRest(reader)'
  BY <1>1, <1>2 DEF AtRest
<1>4. WatcherSeesEveryRelease'
  BY <1>1, <1>2 DEF WatcherSeesEveryRelease
<1>5. Watching'
  <2> DEFINE r == read["watcher"]
             after == read'["watcher"]
  <2>1. /\ after.result = r.result /\ after.page = r.page /\ after.items = r.items
        /\ after.atStart = r.atStart
    BY <1>1, <1>2
  <2>2. Joined(after) = Joined(r) /\ Joined(r) \in Int /\ Len(seen) \in Nat /\ Len(later) \in Nat
    <3>1. r.page \in Nat /\ PageSize \in Nat
      BY <1>1, CaptureAssumption DEF TypeInv, Captures
    <3>2. Joined(r) \in Int
      BY <3>1 DEF Joined
    <3>3. list \in Seq(Entries) /\ list' \in Seq(Entries)
      BY <1>1, <1>2 DEF TypeInv
    <3>4. Len(seen) \in Nat /\ Len(later) \in Nat
      BY <3>3, KeptArePublic
    <3> QED BY <2>1, <3>2, <3>4 DEF Joined
  <2>3. ASSUME r.result = "none"
        PROVE  Covers(r, seen) /\ \A i \in 1..Len(r.items) : ~r.items[i].draft
    BY <1>1, <2>3 DEF Watching
  <2> HIDE DEF seen, later, r, after
  <2>4. ASSUME Covers(r, seen) PROVE Covers(after, later)
    <3> SUFFICES ASSUME NEW k \in 1..Len(r.atStart)
                 PROVE  \/ \E i \in 1..Len(r.items) : r.items[i].id = r.atStart[k]
                        \/ \E i \in 1..Len(later) : Joined(r) < i /\ later[i].id = r.atStart[k]
      BY <2>1, <2>2 DEF Covers
    <3>1. SUFFICES ASSUME NEW i \in 1..Len(seen), Joined(r) < i, seen[i].id = r.atStart[k]
                   PROVE  \E l \in 1..Len(later) : Joined(r) < l /\ later[l].id = r.atStart[k]
      BY <2>4 DEF Covers
    <3>2. PICK l \in 1..Len(later) : i <= l /\ later[l] = seen[i]
      BY <1>2
    <3>3. Joined(r) < l
      BY <2>2, <3>1, <3>2
    <3> QED BY <3>1, <3>2, <3>3
  <2> QED BY <2>1, <2>3, <2>4 DEF Watching, seen, later, r, after
<1> QED BY <1>2, <1>3, <1>4, <1>5 DEF CaptureInv

LEMMA CaptureStep ==
  ASSUME CaptureInv, [Next]_vars
  PROVE  CaptureInv'
<1>1. CASE UNCHANGED vars
  BY <1>1 DEF vars, CaptureInv, TypeInv, Watching, WatcherSeesEveryRelease, AtRest, Covers,
              Joined, Visible, PublicNow
<1>2. CASE Next
  BY <1>2, NextIsOne, ReaderStep, ListStep
<1> QED BY <1>1, <1>2

LEMMA CaptureIsInvariant ==
  Spec => []CaptureInv
<1> QED BY CaptureStart, CaptureStep, PTL DEF Spec

\* Whatever changes between its pages and whichever of its answers are lost, a healthy
\* capture of the watcher holds every release that was public when it began
\* (_fetch, capture_evidence): rebuilds and record recovery miss none.
THEOREM EveryReleaseIsSeen ==
  Spec => []WatcherSeesEveryRelease
<1>1. CaptureInv => WatcherSeesEveryRelease
  BY DEF CaptureInv
<1> QED BY <1>1, CaptureIsInvariant, PTL

\* From the same list at rest the watcher and the publish job capture one body,
\* although the publish token is shown drafts and splits the pages elsewhere
\* (project_release_identity), so the recapture finds the watcher's digest.
THEOREM TokensReadTheSame ==
  Spec => []TokensAgree
<1>1. CaptureInv => TokensAgree
  BY DEF CaptureInv, AtRest, TokensAgree, Readers
<1> QED BY <1>1, CaptureIsInvariant, PTL
=============================================================================
