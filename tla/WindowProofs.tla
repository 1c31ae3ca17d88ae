------------------------------ MODULE WindowProofs --------------------------
(***************************************************************************)
(* What the parts of the window keep, for every value of their constants:  *)
(* first each on its own, then what the module that composes them says of  *)
(* all.                                                                    *)
(***************************************************************************)
EXTENDS Window, FiniteSetTheorems, SequenceTheorems, WellFoundedInduction, TLAPS

-----------------------------------------------------------------------------
(* PanesAreFaithful is an invariant, for any number of sessions, panes and *)
(* chunks, and any cap.  It rests on three facts.  A pane's captures, and  *)
(* its screen once it is bound, are what the sessions wrote since it was   *)
(* opened, less what the cap had no room for; a pane has at most one call  *)
(* in flight, which is for the session it shows if it shows one; and a new *)
(* pane has a number that no pane and no call has.                         *)

CapturedT == [chunks : Seq(Nat), bytes : Nat, lost : SUBSET Nat, lostBytes : Nat]
PaneT ==
  [id : Panes!PaneIds, session : Sessions \cup {Nothing}, resume : BOOLEAN, unmeasured : BOOLEAN,
   captured : [Sessions -> CapturedT], flushed : BOOLEAN, report : CapturedT, screen : Seq(Nat),
   since : [Sessions -> Nat]]
CallT == [pane : Panes!PaneIds, session : Sessions \cup {Nothing}, answer : {"none", "ok"}]

Typed == output \in [Sessions -> Nat] /\ panes \in Seq(PaneT) /\ calls \subseteq CallT

\* The chunks after the first a ones, up to the b-th, in order, but for those lost.
Kept(seq, lost, a, b) ==
  /\ \A j, k \in DOMAIN seq : j < k => seq[j] < seq[k]
  /\ {seq[k] : k \in DOMAIN seq} = ((a + 1)..b) \ lost
  /\ lost \subseteq (a + 1)..b
\* Only a full buffer drops a chunk.
Full(had) == had.lost # {} => had.bytes + had.lostBytes > CapBytes

Faithful(p, written) ==
  /\ p.flushed <=> p.session # Nothing
  /\ \A s \in Sessions : p.since[s] <= written[s] /\ p.captured[s].bytes <= CapBytes
  /\ p.flushed =>
       Kept(p.screen, p.report.lost, p.since[p.session], written[p.session]) /\ Full(p.report)
  /\ ~p.flushed => \A s \in Sessions :
       Kept(p.captured[s].chunks, p.captured[s].lost, p.since[s], written[s]) /\ Full(p.captured[s])

AllFaithful == \A i \in DOMAIN panes : Faithful(panes[i], output)

Unique ==
  /\ \A i, j \in DOMAIN panes : i # j /\ panes[i].session # Nothing => panes[i].session # panes[j].session
  /\ \A i, j \in DOMAIN panes : i # j => panes[i].id # panes[j].id

\* What the answer of a call will find.
CallInv ==
  /\ \A c \in calls : c.answer = "ok" => c.session \in Sessions
  /\ \A c, d \in calls : c.pane = d.pane => c = d
  /\ \A c \in calls, i \in DOMAIN panes :
       panes[i].id = c.pane => ~panes[i].unmeasured /\ panes[i].session \in {Nothing, c.session}

Named == terminal # Nothing => \E i \in DOMAIN panes : panes[i].id = terminal

PanesInv == Typed /\ AllFaithful /\ Unique /\ CallInv

LEMMA HasSmallest ==
  ASSUME NEW I \in SUBSET Nat, I # {}
  PROVE  \E m \in I : \A k \in I : m <= k
<1> DEFINE Less == {p \in Nat \X Nat : p[1] < p[2]}
<1>1. IsWellFoundedOn(Less, Nat)
  <2>1. Less = OpToRel(<, Nat)
    BY DEF OpToRel
  <2> QED BY <2>1, NatLessThanWellFounded
<1>2. I \subseteq Nat /\ I # {}
  OBVIOUS
<1>3. PICK x \in I : \A y \in I : ~(<<y, x>> \in Less)
  <2> HIDE DEF Less
  <2> QED BY <1>1, <1>2, WFMin
<1>4. ASSUME NEW y \in I PROVE x <= y
  <2>1. x \in Nat /\ y \in Nat
    BY <1>2
  <2>2. ~(y < x)
    BY <1>3, <2>1
  <2> QED BY <2>1, <2>2
<1> QED BY <1>4

LEMMA FirstIsOne ==
  ASSUME NEW I \in SUBSET Nat, I # {}
  PROVE  Panes!First(I) \in I
BY HasSmallest DEF Panes!First

LEMMA Removed ==
  ASSUME NEW S, NEW s \in Seq(S), NEW i \in DOMAIN s
  PROVE  /\ Panes!RemoveAt(s, i) \in Seq(S) /\ Len(Panes!RemoveAt(s, i)) = Len(s) - 1
         /\ \A j \in DOMAIN Panes!RemoveAt(s, i) :
              /\ j < i => j \in DOMAIN s \ {i} /\ Panes!RemoveAt(s, i)[j] = s[j]
              /\ ~(j < i) => j + 1 \in DOMAIN s \ {i} /\ Panes!RemoveAt(s, i)[j] = s[j + 1]
         /\ \A k \in DOMAIN s \ {i} : \E j \in DOMAIN Panes!RemoveAt(s, i) : Panes!RemoveAt(s, i)[j] = s[k]
<1> DEFINE a == SubSeq(s, 1, i - 1)
           b == SubSeq(s, i + 1, Len(s))
<1>1. i \in 1..Len(s) /\ Len(s) \in Nat /\ DOMAIN s = 1..Len(s)
  OBVIOUS
<1>2. a \in Seq(S) /\ Len(a) = i - 1 /\ \A k \in 1..(i - 1) : a[k] = s[k]
  BY <1>1, SubSeqProperties
<1>3. b \in Seq(S) /\ Len(b) = Len(s) - i /\ \A k \in 1..(Len(s) - i) : b[k] = s[i + k]
  BY SMTT(60), <1>1, SubSeqProperties
<1> HIDE DEF a, b
<1>3a. /\ a \o b \in Seq(S) /\ Len(a \o b) = Len(s) - 1
       /\ \A k \in 1..(Len(s) - 1) : (a \o b)[k] = IF k <= i - 1 THEN a[k] ELSE b[k - (i - 1)]
  <2>1. Len(a) + Len(b) = Len(s) - 1
    BY <1>1, <1>2, <1>3
  <2>2. a \in Seq(S) /\ b \in Seq(S) /\ Len(a) = i - 1
    BY <1>2, <1>3
  <2>3. /\ a \o b \in Seq(S) /\ Len(a \o b) = Len(a) + Len(b)
        /\ \A k \in 1..Len(a) + Len(b) : (a \o b)[k] = IF k <= Len(a) THEN a[k] ELSE b[k - Len(a)]
    BY <2>2, ConcatProperties
  <2> QED BY <2>1, <2>2, <2>3
<1>4. /\ a \o b \in Seq(S) /\ Len(a \o b) = Len(s) - 1 /\ DOMAIN (a \o b) = 1..(Len(s) - 1)
      /\ \A k \in 1..(Len(s) - 1) : k < i => (a \o b)[k] = s[k]
      /\ \A k \in 1..(Len(s) - 1) : ~(k < i) => (a \o b)[k] = s[k + 1]
  <2>1. ASSUME NEW k \in 1..(Len(s) - 1), k < i PROVE (a \o b)[k] = s[k]
    BY <1>1, <1>2, <1>3a, <2>1
  <2>2. ASSUME NEW k \in 1..(Len(s) - 1), ~(k < i) PROVE (a \o b)[k] = s[k + 1]
    <3>1. k - (i - 1) \in 1..(Len(s) - i) /\ i + (k - (i - 1)) = k + 1 /\ ~(k <= i - 1)
      BY <1>1, <2>2
    <3> QED BY <1>3, <1>3a, <3>1
  <2>3. DOMAIN (a \o b) = 1..Len(a \o b)
    BY <1>3a
  <2> QED BY <1>3a, <2>1, <2>2, <2>3
<1>5. Panes!RemoveAt(s, i) = a \o b
  BY DEF Panes!RemoveAt, a, b
<1>6. ASSUME NEW k \in DOMAIN s \ {i}
      PROVE  \E j \in 1..(Len(s) - 1) : (a \o b)[j] = s[k]
  <2>1. CASE k < i
    <3>1. k \in 1..(Len(s) - 1)
      BY <1>1, <2>1
    <3> QED BY <1>4, <2>1, <3>1
  <2>2. CASE k > i
    <3>1. k - 1 \in 1..(Len(s) - 1) /\ ~(k - 1 < i) /\ (k - 1) + 1 = k
      BY <1>1, <2>2
    <3> QED BY <1>4, <3>1
  <2>3. k < i \/ k > i
    BY <1>1
  <2> QED BY <2>1, <2>2, <2>3
<1>7. ASSUME NEW j \in 1..(Len(s) - 1)
      PROVE  /\ j < i => j \in DOMAIN s \ {i} /\ (a \o b)[j] = s[j]
             /\ ~(j < i) => j + 1 \in DOMAIN s \ {i} /\ (a \o b)[j] = s[j + 1]
  <2>1. (j < i => j \in DOMAIN s \ {i}) /\ (~(j < i) => j + 1 \in DOMAIN s \ {i})
    BY <1>1
  <2> QED BY <1>4, <2>1
<1>8. DOMAIN (a \o b) = 1..(Len(s) - 1) /\ a \o b \in Seq(S) /\ Len(a \o b) = Len(s) - 1
  BY <1>4
<1> HIDE DEF a, b
<1> QED BY <1>5, <1>6, <1>7, <1>8, Zenon

LEMMA FreshIsFresh ==
  ASSUME Panes!SessionsAssumption, \E id \in Panes!PaneIds : id \notin Panes!OpenIds
  PROVE  Panes!FreshId \in Panes!PaneIds /\ Panes!FreshId \notin Panes!OpenIds
<1>1. Panes!PaneIds \ Panes!OpenIds \in SUBSET (1..(MaxPanes + 1)) /\ MaxPanes + 1 \in Nat /\ Panes!PaneIds \ Panes!OpenIds # {}
  BY DEF Panes!PaneIds, Panes!SessionsAssumption
<1>2. PICK id \in Panes!PaneIds \ Panes!OpenIds : \A j \in Panes!PaneIds \ Panes!OpenIds : id <= j
  <2>1. Panes!PaneIds \ Panes!OpenIds \in SUBSET Nat
    BY <1>1
  <2> QED BY <1>1, <2>1, HasSmallest
<1> QED BY <1>2 DEF Panes!FreshId

LEMMA NothingIsKept ==
  ASSUME NEW a \in Nat
  PROVE  Kept(<<>>, {}, a, a)
<1>1. (a + 1)..a = {}
  OBVIOUS
<1> QED BY <1>1 DEF Kept

\* The next chunk is kept, as the last, or lost.
LEMMA NextIsKept ==
  ASSUME NEW a \in Nat, NEW b \in Nat, a <= b, NEW seq \in Seq(Nat), NEW lost \in SUBSET Nat, Kept(seq, lost, a, b)
  PROVE  /\ Append(seq, b + 1) \in Seq(Nat) /\ Kept(Append(seq, b + 1), lost, a, b + 1)
         /\ Kept(seq, lost \cup {b + 1}, a, b + 1)
<1> DEFINE now == Append(seq, b + 1)
           n == Len(seq)
<1>1. /\ now \in Seq(Nat) /\ n \in Nat /\ DOMAIN seq = 1..n /\ DOMAIN now = 1..(n + 1)
      /\ now[n + 1] = b + 1 /\ \A k \in 1..n : now[k] = seq[k]
  OBVIOUS
<1>2. (a + 1)..(b + 1) = ((a + 1)..b) \cup {b + 1} /\ b + 1 \notin (a + 1)..b /\ b + 1 \notin lost
  BY DEF Kept
<1>3. \A k \in 1..n : seq[k] \in (a + 1)..b
  BY <1>1 DEF Kept
<1> HIDE DEF now, n
<1>4. \A j, k \in DOMAIN now : j < k => now[j] < now[k]
  <2> SUFFICES ASSUME NEW j \in 1..(n + 1), NEW k \in 1..(n + 1), j < k PROVE now[j] < now[k]
    BY <1>1
  <2>1. j \in 1..n
    BY <1>1
  <2>2. CASE k \in 1..n
    BY <1>1, <2>1, <2>2 DEF Kept
  <2>3. CASE k = n + 1
    BY <1>1, <1>3, <2>1, <2>3
  <2> QED BY <1>1, <2>2, <2>3
<1>5. {now[k] : k \in DOMAIN now} = {seq[k] : k \in DOMAIN seq} \cup {b + 1}
  <2>1. DOMAIN now = DOMAIN seq \cup {n + 1}
    BY <1>1
  <2>2. \A k \in DOMAIN seq : now[k] = seq[k]
    BY <1>1
  <2> QED BY <1>1, <2>1, <2>2
<1>6. Kept(now, lost, a, b + 1)
  <2>1. {now[k] : k \in DOMAIN now} = ((a + 1)..(b + 1)) \ lost
    BY <1>2, <1>5 DEF Kept
  <2>2. lost \subseteq (a + 1)..(b + 1)
    BY <1>2 DEF Kept
  <2> QED BY <1>4, <2>1, <2>2 DEF Kept
<1>7. Kept(seq, lost \cup {b + 1}, a, b + 1)
  <2>1. {seq[k] : k \in DOMAIN seq} = ((a + 1)..(b + 1)) \ (lost \cup {b + 1})
    BY <1>2 DEF Kept
  <2>2. lost \cup {b + 1} \subseteq (a + 1)..(b + 1)
    BY <1>2 DEF Kept
  <2> QED BY <2>1, <2>2 DEF Kept
<1> QED BY <1>1, <1>6, <1>7 DEF now

\* So it is for what is captured before the bind, within the cap.
LEMMA CaptureKeeps ==
  ASSUME Panes!SessionsAssumption, NEW a \in Nat, NEW b \in Nat, a <= b, NEW n \in 1..MaxChunk, NEW had \in CapturedT,
         Kept(had.chunks, had.lost, a, b), Full(had), had.bytes <= CapBytes
  PROVE  LET got == Panes!Capture(had, b + 1, n) IN
         /\ got \in CapturedT /\ Kept(got.chunks, got.lost, a, b + 1) /\ Full(got) /\ got.bytes <= CapBytes
<1> DEFINE got == Panes!Capture(had, b + 1, n)
<1>0. /\ n \in Nat /\ CapBytes \in Nat /\ had.chunks \in Seq(Nat) /\ had.lost \in SUBSET Nat
      /\ had.bytes \in Nat /\ had.lostBytes \in Nat
  BY DEF CapturedT, Panes!SessionsAssumption
<1>1. /\ Append(had.chunks, b + 1) \in Seq(Nat) /\ Kept(Append(had.chunks, b + 1), had.lost, a, b + 1)
      /\ Kept(had.chunks, had.lost \cup {b + 1}, a, b + 1)
  BY <1>0, NextIsKept
<1>2. CASE had.bytes + n > CapBytes
  <2>1. got = [had EXCEPT !.lost = had.lost \cup {b + 1}, !.lostBytes = had.lostBytes + n]
    BY <1>2 DEF Panes!Capture
  <2>2. /\ got.chunks = had.chunks /\ got.bytes = had.bytes /\ got.lost = had.lost \cup {b + 1}
        /\ got.lostBytes = had.lostBytes + n
    BY <2>1 DEF CapturedT
  <2>3. had.lost \cup {b + 1} \in SUBSET Nat /\ had.lostBytes + n \in Nat
    BY <1>0
  <2>4. got \in CapturedT
    BY <2>1, <2>3 DEF CapturedT
  <2>5. had.bytes + (had.lostBytes + n) > CapBytes
    BY <1>0, <1>2
  <2> HIDE DEF got
  <2> QED BY <1>1, <2>2, <2>4, <2>5 DEF Full, got
<1>3. CASE ~(had.bytes + n > CapBytes)
  <2>1. got = [had EXCEPT !.chunks = Append(had.chunks, b + 1), !.bytes = had.bytes + n]
    BY <1>3 DEF Panes!Capture
  <2>2. /\ got.chunks = Append(had.chunks, b + 1) /\ got.bytes = had.bytes + n /\ got.lost = had.lost
        /\ got.lostBytes = had.lostBytes
    BY <2>1 DEF CapturedT
  <2>3. had.bytes + n \in Nat /\ had.bytes + n <= CapBytes
    BY <1>0, <1>3
  <2>4. got \in CapturedT
    BY <1>1, <2>1, <2>3 DEF CapturedT
  <2>5. had.bytes + had.lostBytes > CapBytes => (had.bytes + n) + had.lostBytes > CapBytes
    BY <1>0
  <2> HIDE DEF got
  <2> QED BY <1>1, <2>2, <2>3, <2>4, <2>5 DEF Full, got
<1> QED BY <1>2, <1>3

LEMMA NothingYetIsKept ==
  ASSUME Panes!SessionsAssumption, NEW a \in Nat
  PROVE  /\ Panes!NothingYet \in CapturedT /\ Panes!NothingYet.chunks = <<>> /\ Panes!NothingYet.lost = {}
         /\ Panes!NothingYet.bytes <= CapBytes /\ Full(Panes!NothingYet)
         /\ Kept(Panes!NothingYet.chunks, Panes!NothingYet.lost, a, a)
<1>1. <<>> \in Seq(Nat) /\ {} \in SUBSET Nat /\ 0 \in Nat /\ 0 <= CapBytes
  BY DEF Panes!SessionsAssumption
<1> QED BY <1>1, NothingIsKept DEF Panes!NothingYet, CapturedT, Full

\* A new pane has nothing to show yet, and no answer is on its way to it.
LEMMA Opened ==
  ASSUME Panes!SessionsAssumption, PanesInv, Panes!Room, NEW s \in Sessions \cup {Nothing}, NEW r \in BOOLEAN,
         s = Nothing \/ ~Panes!Bound(s), panes' = Append(panes, Panes!NewPane(Panes!FreshId, s, r)),
         UNCHANGED <<output, calls>>
  PROVE  /\ PanesInv'
         /\ \A i \in DOMAIN panes : i \in DOMAIN panes' /\ panes'[i] = panes[i]
         /\ \E i \in DOMAIN panes' : panes'[i].id = Panes!FreshId
<1> DEFINE p == Panes!NewPane(Panes!FreshId, s, r)
<1>1. Panes!FreshId \in Panes!PaneIds /\ Panes!FreshId \notin Panes!OpenIds
  BY FreshIsFresh DEF Panes!Room
<1>2. /\ p.id = Panes!FreshId /\ p.session = s /\ (p.flushed <=> s # Nothing) /\ p.screen = <<>>
      /\ p.since = output /\ p.report = Panes!NothingYet
      /\ \A x \in Sessions : p.captured[x] = Panes!NothingYet
  BY DEF Panes!NewPane
<1>y. /\ Panes!NothingYet \in CapturedT /\ Panes!NothingYet.lost = {} /\ Full(Panes!NothingYet)
      /\ Panes!NothingYet.bytes <= CapBytes
      /\ \A a \in Nat : /\ Kept(<<>>, {}, a, a)
                        /\ Kept(Panes!NothingYet.chunks, Panes!NothingYet.lost, a, a)
  <2>1. 0 \in Nat
    OBVIOUS
  <2> QED BY <2>1, NothingIsKept, NothingYetIsKept
<1>3. p \in PaneT
  <2>1. output \in [Sessions -> Nat] /\ [x \in Sessions |-> Panes!NothingYet] \in [Sessions -> CapturedT] /\ <<>> \in Seq(Nat)
    BY <1>y DEF PanesInv, Typed
  <2>2. p = [id |-> Panes!FreshId, session |-> s, resume |-> r, unmeasured |-> (r \/ s = Nothing),
             captured |-> [x \in Sessions |-> Panes!NothingYet], flushed |-> (s # Nothing),
             report |-> Panes!NothingYet, screen |-> <<>>, since |-> output]
    BY DEF Panes!NewPane
  <2>3. (r \/ s = Nothing) \in BOOLEAN /\ (s # Nothing) \in BOOLEAN
    OBVIOUS
  <2> HIDE DEF p
  <2> QED BY <1>1, <1>y, <2>1, <2>2, <2>3 DEF PaneT
<1>4. Faithful(p, output)
  <2>1. \A x \in Sessions : output[x] \in Nat
    BY DEF PanesInv, Typed
  <2> HIDE DEF p
  <2>2. \A x \in Sessions : p.since[x] <= output[x] /\ p.captured[x].bytes <= CapBytes
    BY <1>2, <1>y, <2>1
  <2>3. p.flushed => Kept(p.screen, p.report.lost, p.since[p.session], output[p.session]) /\ Full(p.report)
    BY <1>2, <1>y, <2>1
  <2>4. \A x \in Sessions :
          Kept(p.captured[x].chunks, p.captured[x].lost, p.since[x], output[x]) /\ Full(p.captured[x])
    BY <1>2, <1>y, <2>1
  <2>5. p.flushed <=> p.session # Nothing
    BY <1>2
  <2> QED BY <2>2, <2>3, <2>4, <2>5 DEF Faithful
<1>5. panes \in Seq(PaneT)
  BY DEF PanesInv, Typed
<1> HIDE DEF p
<1>6. /\ panes' \in Seq(PaneT) /\ Len(panes) \in Nat
      /\ DOMAIN panes = 1..Len(panes) /\ DOMAIN panes' = 1..(Len(panes) + 1)
      /\ \A i \in DOMAIN panes : i \in DOMAIN panes' /\ panes'[i] = panes[i]
      /\ panes'[Len(panes) + 1] = p
  BY <1>3, <1>5 DEF p
<1>7. \A i \in DOMAIN panes' : (i \in DOMAIN panes /\ panes'[i] = panes[i]) \/ (i = Len(panes) + 1 /\ panes'[i] = p)
  BY <1>6
<1>8. Len(panes) + 1 \notin DOMAIN panes /\ Len(panes) + 1 \in DOMAIN panes'
  BY <1>6
<1>9. \A i \in DOMAIN panes : panes[i].id # p.id /\ (s # Nothing => panes[i].session # s)
  BY <1>1, <1>2 DEF Panes!OpenIds, Panes!Bound, Panes!PanesOf
<1>10. \A c \in calls : c.pane # p.id
  BY <1>1, <1>2 DEF Panes!OpenIds
<1>11. Typed' /\ AllFaithful'
  BY <1>4, <1>6, <1>7 DEF PanesInv, Typed, AllFaithful
<1>12. Unique'
  BY <1>2, <1>7, <1>9 DEF PanesInv, Unique
<1>13. CallInv'
  BY <1>7, <1>10 DEF PanesInv, CallInv
<1> QED BY <1>2, <1>6, <1>8, <1>11, <1>12, <1>13 DEF PanesInv

\* The panes that stay when one is closed are as they were.
LEMMA Closed ==
  ASSUME PanesInv, NEW I \in SUBSET DOMAIN panes, panes' = Panes!Without(I), calls' \subseteq calls,
         UNCHANGED output
  PROVE  /\ PanesInv'
         /\ \A k \in DOMAIN panes :
              (I = {} \/ k # Panes!First(I)) => \E j \in DOMAIN panes' : panes'[j] = panes[k]
<1>s. panes \in Seq(PaneT) /\ DOMAIN panes \subseteq Nat
  BY DEF PanesInv, Typed
<1>1. CASE I = {}
  BY <1>1 DEF Panes!Without, PanesInv, Typed, AllFaithful, Unique, CallInv
<1>2. CASE I # {}
  <2> DEFINE i == Panes!First(I)
             Was(j) == IF j < i THEN j ELSE j + 1
  <2>1. i \in DOMAIN panes
    <3>1. I \in SUBSET Nat
      BY <1>s
    <3> QED BY <1>2, <3>1, FirstIsOne
  <2>2. panes' = Panes!RemoveAt(panes, i)
    BY <1>2 DEF Panes!Without
  <2> HIDE DEF i
  <2>3. /\ panes' \in Seq(PaneT)
        /\ \A j \in DOMAIN panes' :
             /\ j < i => j \in DOMAIN panes \ {i} /\ panes'[j] = panes[j]
             /\ ~(j < i) => j + 1 \in DOMAIN panes \ {i} /\ panes'[j] = panes[j + 1]
        /\ \A k \in DOMAIN panes \ {i} : \E j \in DOMAIN panes' : panes'[j] = panes[k]
    BY <1>s, <2>1, <2>2, Removed
  <2>4. \A j \in DOMAIN panes' : Was(j) \in DOMAIN panes /\ panes'[j] = panes[Was(j)]
    BY <2>3
  <2>5. \A j, k \in DOMAIN panes' : j # k => Was(j) # Was(k)
    <3>1. DOMAIN panes' \subseteq Nat /\ i \in Nat
      BY <1>s, <2>1, <2>3
    <3> QED BY <3>1
  <2> HIDE DEF Was
  <2>6. Typed' /\ AllFaithful'
    BY <2>3, <2>4 DEF PanesInv, Typed, AllFaithful
  <2>7. Unique'
    BY <2>4, <2>5 DEF PanesInv, Unique
  <2>8. CallInv'
    BY <2>4 DEF PanesInv, CallInv
  <2>9. PanesInv'
    BY <2>6, <2>7, <2>8 DEF PanesInv
  <2>10. \A k \in DOMAIN panes : k # i => \E j \in DOMAIN panes' : panes'[j] = panes[k]
    BY <2>3
  <2> QED BY <1>2, <2>9, <2>10 DEF i
<1> QED BY <1>1, <1>2

LEMMA StaysAsItIs ==
  ASSUME PanesInv, UNCHANGED <<output, panes>>, calls' \subseteq calls
  PROVE  PanesInv'
BY DEF PanesInv, Typed, AllFaithful, Unique, CallInv

\* A chunk is captured, dropped, shown or of another session's.
LEMMA Received ==
  ASSUME Panes!SessionsAssumption, NEW written \in [Sessions -> Nat], NEW s \in Sessions, NEW n \in 1..MaxChunk,
         NEW p \in PaneT, Faithful(p, written)
  PROVE  LET q == Panes!Receive(p, s, written[s] + 1, n) IN
         /\ q \in PaneT /\ q.id = p.id /\ q.session = p.session /\ q.unmeasured = p.unmeasured
         /\ Faithful(q, [written EXCEPT ![s] = @ + 1])
<1> DEFINE a == p.since[s]
           w == written[s]
           now == [written EXCEPT ![s] = @ + 1]
           q == Panes!Receive(p, s, w + 1, n)
<1>1. /\ w \in Nat /\ a \in Nat /\ a <= w /\ \A x \in Sessions : now[x] = IF x = s THEN w + 1 ELSE written[x]
      /\ \A x \in Sessions : p.since[x] <= now[x] /\ p.captured[x].bytes <= CapBytes
  <2>1. \A x \in Sessions : p.since[x] \in Nat /\ written[x] \in Nat /\ p.since[x] <= written[x] /\ p.captured[x].bytes <= CapBytes
    BY DEF PaneT, Faithful
  <2> QED BY <2>1
<1>t. /\ p.captured \in [Sessions -> CapturedT] /\ p.screen \in Seq(Nat) /\ p.flushed \in BOOLEAN
      /\ p.session \in Sessions \cup {Nothing} /\ p.report.lost \in SUBSET Nat
  BY DEF PaneT, CapturedT
<1> HIDE DEF now, a, w
<1>3. CASE ~p.flushed
  <2> DEFINE got == Panes!Capture(p.captured[s], w + 1, n)
  <2>0. Kept(p.captured[s].chunks, p.captured[s].lost, a, w) /\ Full(p.captured[s]) /\ p.captured[s] \in CapturedT
    BY <1>3, <1>t DEF Faithful, a, w
  <2>1. got \in CapturedT /\ Kept(got.chunks, got.lost, a, w + 1) /\ Full(got) /\ got.bytes <= CapBytes
    BY <1>1, <2>0, CaptureKeeps
  <2>2. q = [p EXCEPT !.captured[s] = got]
    BY <1>3 DEF Panes!Receive
  <2> HIDE DEF got
  <2>3. /\ q.id = p.id /\ q.session = p.session /\ q.unmeasured = p.unmeasured /\ q.flushed = p.flushed
        /\ q.since = p.since /\ q.captured = [p.captured EXCEPT ![s] = got]
    BY <2>2 DEF PaneT
  <2>4. q.captured \in [Sessions -> CapturedT]
    BY <1>t, <2>1, <2>3
  <2>5. q \in PaneT
    BY <2>2, <2>3, <2>4 DEF PaneT
  <2>6. \A x \in Sessions :
          /\ Kept(q.captured[x].chunks, q.captured[x].lost, q.since[x], now[x]) /\ Full(q.captured[x])
          /\ q.captured[x].bytes <= CapBytes /\ q.since[x] <= now[x]
    <3> SUFFICES ASSUME NEW x \in Sessions
                 PROVE  /\ Kept(q.captured[x].chunks, q.captured[x].lost, q.since[x], now[x]) /\ Full(q.captured[x])
                        /\ q.captured[x].bytes <= CapBytes /\ q.since[x] <= now[x]
      OBVIOUS
    <3>1. CASE x = s
      <4>1. q.captured[x] = got /\ q.since[x] = a /\ now[x] = w + 1
        BY <1>1, <1>t, <2>3, <3>1 DEF a
      <4> QED BY <1>1, <2>1, <4>1, <3>1, <2>3
    <3>2. CASE x # s
      <4>1. q.captured[x] = p.captured[x] /\ q.since[x] = p.since[x] /\ now[x] = written[x]
        BY <1>1, <1>t, <2>3, <3>2
      <4> QED BY <1>1, <1>3, <4>1 DEF Faithful
    <3> QED BY <3>1, <3>2
  <2>7. q.flushed <=> q.session # Nothing
    BY <2>3 DEF Faithful
  <2>8. Faithful(q, now)
    BY <1>3, <2>3, <2>6, <2>7 DEF Faithful
  <2> QED BY <2>3, <2>5, <2>8 DEF now, w
<1>4. CASE p.flushed /\ p.session = s
  <2>0. Kept(p.screen, p.report.lost, a, w) /\ Full(p.report)
    BY <1>4 DEF Faithful, a, w
  <2>1. Append(p.screen, w + 1) \in Seq(Nat) /\ Kept(Append(p.screen, w + 1), p.report.lost, a, w + 1)
    BY <1>1, <1>t, <2>0, NextIsKept
  <2>2. q = [p EXCEPT !.screen = Append(@, w + 1)]
    BY <1>4 DEF Panes!Receive
  <2>3. /\ q.id = p.id /\ q.session = p.session /\ q.unmeasured = p.unmeasured /\ q.flushed = p.flushed
        /\ q.since = p.since /\ q.report = p.report /\ q.captured = p.captured /\ q.screen = Append(p.screen, w + 1)
    BY <2>2 DEF PaneT
  <2>4. q \in PaneT
    BY <2>1, <2>2, <2>3 DEF PaneT
  <2>5. Kept(q.screen, q.report.lost, q.since[s], now[s])
    BY <1>1, <2>1, <2>3 DEF a
  <2>6. Faithful(q, now)
    BY <1>1, <1>4, <2>0, <2>3, <2>5 DEF Faithful
  <2> QED BY <2>3, <2>4, <2>6 DEF now, w
<1>5. CASE p.flushed /\ p.session # s
  <2>1. q = p
    BY <1>5 DEF Panes!Receive
  <2>2. p.session \in Sessions /\ now[p.session] = written[p.session]
    BY <1>1, <1>5, <1>t DEF Faithful
  <2>3. Faithful(p, now)
    BY <1>1, <1>5, <2>2 DEF Faithful
  <2> HIDE DEF q
  <2> QED BY <2>1, <2>3 DEF now, q, w
<1> QED BY <1>3, <1>4, <1>5

\* The answer of a call opens the gate of its pane, or finds it open already.
LEMMA BoundTo ==
  ASSUME Panes!SessionsAssumption, NEW written \in [Sessions -> Nat], NEW s \in Sessions, NEW p \in PaneT,
         Faithful(p, written), p.session \in {Nothing, s}
  PROVE  LET q == Panes!BindTo(p, s) IN
         /\ q \in PaneT /\ q.id = p.id /\ q.session = s /\ q.unmeasured = p.unmeasured
         /\ Faithful(q, written)
<1> DEFINE q == Panes!BindTo(p, s)
<1>1. /\ q.id = p.id /\ q.session = s /\ q.unmeasured = p.unmeasured /\ q.flushed = TRUE /\ q.since = p.since
      /\ q.screen = IF p.flushed THEN p.screen ELSE p.captured[s].chunks
      /\ q.report = IF p.flushed THEN p.report ELSE p.captured[s]
      /\ q.captured = [x \in Sessions |-> Panes!NothingYet]
  BY DEF Panes!BindTo, PaneT
<1>y. Panes!NothingYet \in CapturedT /\ Panes!NothingYet.bytes <= CapBytes
  <2>1. 0 \in Nat
    OBVIOUS
  <2> QED BY <2>1, NothingYetIsKept
<1>2. q \in PaneT
  <2>1. [x \in Sessions |-> Panes!NothingYet] \in [Sessions -> CapturedT]
    BY <1>y
  <2>2. p.captured[s] \in CapturedT /\ p.captured[s].chunks \in Seq(Nat) /\ p.report \in CapturedT /\ p.screen \in Seq(Nat)
    BY DEF PaneT, CapturedT
  <2>3. /\ (IF p.flushed THEN p.screen ELSE p.captured[s].chunks) \in Seq(Nat)
        /\ (IF p.flushed THEN p.report ELSE p.captured[s]) \in CapturedT
    BY <2>2
  <2> QED BY <2>1, <2>3 DEF Panes!BindTo, PaneT
<1>3. s # Nothing /\ Kept(q.screen, q.report.lost, p.since[s], written[s]) /\ Full(q.report)
  <2>1. p.flushed => p.session = s
    BY DEF Faithful
  <2> QED BY <1>1, <2>1 DEF Faithful, Panes!SessionsAssumption
<1>4. \A x \in Sessions : p.since[x] <= written[x] /\ q.captured[x].bytes <= CapBytes
  BY <1>1, <1>y DEF Faithful
<1> HIDE DEF q
<1>5. Faithful(q, written)
  BY <1>1, <1>3, <1>4 DEF Faithful
<1> QED BY <1>1, <1>2, <1>5 DEF q

\* The first of the panes that show a session is one of them.
LEMMA FirstOfPanes ==
  ASSUME PanesInv, NEW I \in SUBSET DOMAIN panes, I # {}
  PROVE  Panes!First(I) \in I
<1>1. I \in SUBSET Nat
  BY DEF PanesInv, Typed
<1> QED BY <1>1, FirstIsOne

\* The steps that open panes, at most one each, and turn to one that is open.
LEMMA OpenStep ==
  ASSUME Panes!SessionsAssumption, PanesInv, Named,
         Panes!Launch \/ \E s \in Sessions : Panes!Focus(s) \/ Panes!Resume(s) \/ Panes!Adopt(s)
  PROVE  PanesInv' /\ Named'
<1> USE DEF Named
<1>1. CASE Panes!Launch
  BY <1>1, Opened DEF Panes!Launch, Panes!mainVars
<1>2. ASSUME NEW s \in Sessions, NEW r \in BOOLEAN, Panes!AttachPane(s, r), UNCHANGED <<output, calls>>
      PROVE  PanesInv' /\ Named'
  <2>1. CASE Panes!Bound(s)
    <3>1. panes' = panes /\ terminal' = panes[Panes!First(Panes!PanesOf(s))].id
      BY <1>2, <2>1 DEF Panes!AttachPane
    <3>2. Panes!First(Panes!PanesOf(s)) \in DOMAIN panes
      BY <2>1, FirstOfPanes DEF Panes!PanesOf, Panes!Bound
    <3> QED BY <1>2, <3>1, <3>2, StaysAsItIs
  <2>2. CASE ~Panes!Bound(s)
    BY <1>2, <2>2, Opened DEF Panes!AttachPane
  <2> QED BY <2>1, <2>2
<1>3. ASSUME NEW s \in Sessions, Panes!Focus(s) PROVE PanesInv' /\ Named'
  <2>1. CASE UNCHANGED <<panes, terminal>>
    BY <1>3, <2>1, StaysAsItIs DEF Panes!Focus, Panes!mainVars
  <2>2. CASE Panes!AttachPane(s, FALSE)
    BY <1>2, <1>3, <2>2 DEF Panes!Focus, Panes!mainVars
  <2> QED BY <1>3, <2>1, <2>2 DEF Panes!Focus
<1>4. ASSUME NEW s \in Sessions, Panes!Resume(s) PROVE PanesInv' /\ Named'
  BY <1>2, <1>4 DEF Panes!Resume, Panes!mainVars
<1>5. ASSUME NEW s \in Sessions, Panes!Adopt(s) PROVE PanesInv' /\ Named'
  <2>1. PanesInv' /\ (\A i \in DOMAIN panes : i \in DOMAIN panes' /\ panes'[i] = panes[i])
        /\ \E i \in DOMAIN panes' : panes'[i].id = Panes!FreshId
    BY <1>5, Opened DEF Panes!Adopt, Panes!Unadopted, Panes!mainVars
  <2>2. terminal' \in {Panes!FreshId, terminal}
    BY <1>5 DEF Panes!Adopt
  <2> QED BY <2>1, <2>2
<1> QED BY <1>1, <1>3, <1>4, <1>5

\* The first show of a pane makes the only call it will have.
LEMMA MeasureStep ==
  ASSUME PanesInv, Named, NEW i \in DOMAIN panes, Panes!Measure(i)
  PROVE  PanesInv' /\ Named'
<1> DEFINE p == panes[i]
           call == [pane |-> p.id, session |-> p.session, answer |-> "none"]
<1>s. panes \in Seq(PaneT) /\ p \in PaneT /\ p.unmeasured
  BY DEF PanesInv, Typed, Panes!Measure
<1>1. /\ panes' \in Seq(PaneT) /\ DOMAIN panes' = DOMAIN panes
      /\ \A j \in DOMAIN panes : panes'[j] = IF j = i THEN [p EXCEPT !.unmeasured = FALSE] ELSE panes[j]
  <2>1. [p EXCEPT !.unmeasured = FALSE] \in PaneT
    BY <1>s DEF PaneT
  <2>2. panes' = [panes EXCEPT ![i] = [p EXCEPT !.unmeasured = FALSE]]
    BY DEF Panes!Measure
  <2> HIDE DEF p
  <2> QED BY <1>s, <2>1, <2>2
<1>2. \A j \in DOMAIN panes :
        /\ panes[j] \in PaneT
        /\ panes'[j].id = panes[j].id /\ panes'[j].session = panes[j].session
        /\ panes'[j].flushed = panes[j].flushed /\ panes'[j].since = panes[j].since
        /\ panes'[j].captured = panes[j].captured /\ panes'[j].screen = panes[j].screen
        /\ panes'[j].report = panes[j].report
        /\ (j = i => ~panes'[j].unmeasured) /\ (j # i => panes'[j].unmeasured = panes[j].unmeasured)
  <2>1. \A j \in DOMAIN panes : panes[j] \in PaneT
    BY <1>s
  <2>2. /\ p.id = [p EXCEPT !.unmeasured = FALSE].id /\ p.session = [p EXCEPT !.unmeasured = FALSE].session
        /\ p.flushed = [p EXCEPT !.unmeasured = FALSE].flushed /\ p.since = [p EXCEPT !.unmeasured = FALSE].since
        /\ p.captured = [p EXCEPT !.unmeasured = FALSE].captured /\ p.screen = [p EXCEPT !.unmeasured = FALSE].screen
        /\ p.report = [p EXCEPT !.unmeasured = FALSE].report
        /\ ~[p EXCEPT !.unmeasured = FALSE].unmeasured
    BY <1>s DEF PaneT
  <2> QED BY <1>1, <2>1, <2>2
<1>3. calls' = calls \/ calls' = calls \cup {call}
  BY DEF Panes!Measure
<1>4. \A c \in calls : c.pane # p.id
  BY <1>s DEF PanesInv, CallInv
<1>5. call \in CallT /\ call.pane = p.id /\ call.session = p.session /\ call.answer = "none"
  BY <1>s DEF CallT, PaneT
<1> HIDE DEF p, call
<1>6. UNCHANGED <<output, terminal>>
  BY DEF Panes!Measure, Panes!mainVars
<1>7. Typed' /\ AllFaithful' /\ Unique' /\ Named'
  <2>1. Typed'
    BY <1>1, <1>3, <1>5, <1>6 DEF PanesInv, Typed
  <2>2. AllFaithful'
    BY <1>1, <1>2, <1>6 DEF PanesInv, AllFaithful, Faithful
  <2>3. Unique'
    BY <1>1, <1>2 DEF PanesInv, Unique
  <2>4. Named'
    BY <1>1, <1>2, <1>6 DEF Named
  <2> QED BY <2>1, <2>2, <2>3, <2>4
<1>8. CallInv'
  <2>1. \A c \in calls' : c \in calls \/ c = call
    BY <1>3
  <2>2. \A j \in DOMAIN panes : panes[j].id = p.id => j = i
    BY DEF PanesInv, Unique, p
  <2>3. \A c \in calls', j \in DOMAIN panes' :
          panes'[j].id = c.pane => ~panes'[j].unmeasured /\ panes'[j].session \in {Nothing, c.session}
    <3>1. ASSUME NEW c \in calls, NEW j \in DOMAIN panes, panes[j].id = c.pane
          PROVE  ~panes'[j].unmeasured /\ panes'[j].session \in {Nothing, c.session}
      BY <1>2, <3>1 DEF PanesInv, CallInv
    <3>2. ASSUME NEW j \in DOMAIN panes, panes[j].id = call.pane
          PROVE  ~panes'[j].unmeasured /\ panes'[j].session \in {Nothing, call.session}
      BY <1>2, <1>5, <2>2, <3>2 DEF p
    <3> QED BY <1>1, <1>2, <2>1, <3>1, <3>2
  <2>4. \A c, d \in calls' : c.pane = d.pane => c = d
    BY <1>4, <1>5, <2>1 DEF PanesInv, CallInv
  <2>5. \A c \in calls' : c.answer = "ok" => c.session \in Sessions
    BY <1>5, <2>1 DEF PanesInv, CallInv
  <2> QED BY <2>3, <2>4, <2>5 DEF CallInv
<1> QED BY <1>7, <1>8 DEF PanesInv

LEMMA OutputStep ==
  ASSUME Panes!SessionsAssumption, PanesInv, Named, NEW s \in Sessions, Panes!Write(s)
  PROVE  PanesInv' /\ Named'
<1>1. panes \in Seq(PaneT) /\ output \in [Sessions -> Nat]
  BY DEF PanesInv, Typed
<1>2. output' = [output EXCEPT ![s] = @ + 1] /\ output'[s] = output[s] + 1 /\ output' \in [Sessions -> Nat]
  BY <1>1 DEF Panes!Write
<1>3. PICK n \in 1..MaxChunk :
        panes' = [i \in DOMAIN panes |-> Panes!Receive(panes[i], s, output[s] + 1, n)] /\ UNCHANGED <<terminal, calls>>
  BY <1>2 DEF Panes!Write
<1>4. \A i \in DOMAIN panes :
        LET q == Panes!Receive(panes[i], s, output[s] + 1, n) IN
        /\ q \in PaneT /\ q.id = panes[i].id /\ q.session = panes[i].session /\ q.unmeasured = panes[i].unmeasured
        /\ Faithful(q, output')
  <2> SUFFICES ASSUME NEW i \in DOMAIN panes
               PROVE  LET q == Panes!Receive(panes[i], s, output[s] + 1, n) IN
                      /\ q \in PaneT /\ q.id = panes[i].id /\ q.session = panes[i].session
                      /\ q.unmeasured = panes[i].unmeasured /\ Faithful(q, output')
    OBVIOUS
  <2>1. panes[i] \in PaneT /\ Faithful(panes[i], output)
    BY <1>1 DEF PanesInv, AllFaithful
  <2>2. LET q == Panes!Receive(panes[i], s, output[s] + 1, n) IN
        /\ q \in PaneT /\ q.id = panes[i].id /\ q.session = panes[i].session
        /\ q.unmeasured = panes[i].unmeasured /\ Faithful(q, [output EXCEPT ![s] = @ + 1])
    BY <1>1, <2>1, Received
  <2> QED BY <1>2, <2>2
<1>5. /\ DOMAIN panes' = DOMAIN panes /\ panes' \in Seq(PaneT)
      /\ \A i \in DOMAIN panes :
           /\ panes'[i].id = panes[i].id /\ panes'[i].session = panes[i].session
           /\ panes'[i].unmeasured = panes[i].unmeasured /\ Faithful(panes'[i], output')
  BY <1>1, <1>3, <1>4
<1>6. Typed' /\ AllFaithful'
  BY <1>2, <1>3, <1>5 DEF PanesInv, Typed, AllFaithful
<1>7. Unique' /\ CallInv'
  BY <1>3, <1>5 DEF PanesInv, Unique, CallInv
<1> QED BY <1>3, <1>5, <1>6, <1>7 DEF PanesInv, Named

\* The main process decides the session of a call, once.
LEMMA ServeStep ==
  ASSUME PanesInv, Named, NEW c \in calls, Panes!Serve(c)
  PROVE  PanesInv' /\ Named'
<1>1. PICK s \in Sessions :
        /\ c.session # Nothing => s = c.session
        /\ calls' = (calls \ {c}) \cup {[c EXCEPT !.session = s, !.answer = "ok"]}
  BY DEF Panes!Serve
<1> DEFINE d == [c EXCEPT !.session = s, !.answer = "ok"]
<1>2. d \in CallT /\ d.pane = c.pane /\ d.session = s /\ d.answer = "ok"
  BY DEF PanesInv, Typed, CallT
<1>3. \A e \in calls' : (e \in calls /\ e # c) \/ e = d
  BY <1>1
<1> HIDE DEF d
<1>4. UNCHANGED <<output, panes, terminal>>
  BY DEF Panes!Serve, Panes!windowVars
<1>5. Typed'
  BY <1>2, <1>3, <1>4 DEF PanesInv, Typed
<1>6. CallInv'
  <2>1. \A e \in calls', i \in DOMAIN panes :
          panes[i].id = e.pane => ~panes[i].unmeasured /\ panes[i].session \in {Nothing, e.session}
    BY <1>1, <1>2, <1>3 DEF PanesInv, CallInv
  <2>2. \A e, f \in calls' : e.pane = f.pane => e = f
    BY <1>2, <1>3 DEF PanesInv, CallInv
  <2>3. \A e \in calls' : e.answer = "ok" => e.session \in Sessions
    BY <1>2, <1>3 DEF PanesInv, CallInv
  <2> QED BY <1>4, <2>1, <2>2, <2>3 DEF CallInv
<1> QED BY <1>4, <1>5, <1>6 DEF PanesInv, AllFaithful, Unique, Named

\* The answer binds its pane, or the pane goes in favour of one that is there.
LEMMA BindStep ==
  ASSUME Panes!SessionsAssumption, PanesInv, Named, NEW c \in calls, Panes!Bind(c)
  PROVE  PanesInv' /\ Named'
<1> DEFINE s == c.session
           own == {i \in DOMAIN panes : panes[i].id = c.pane}
           twins == Panes!PanesOf(s) \ own
<1>1. /\ panes \in Seq(PaneT) /\ output \in [Sessions -> Nat] /\ s \in Sessions
      /\ calls' = calls \ {c} /\ UNCHANGED output
  BY DEF PanesInv, Typed, CallInv, Panes!Bind, Panes!mainVars
<1>2. CASE twins # {}
  <2>1. panes' = Panes!Without(own) /\ terminal' = panes[Panes!First(twins)].id
    BY <1>2 DEF Panes!Bind
  <2>2. twins \in SUBSET DOMAIN panes /\ own \in SUBSET DOMAIN panes
    BY DEF Panes!PanesOf
  <2>3. Panes!First(twins) \in twins
    BY <1>2, <2>2, FirstOfPanes
  <2>4. own # {} => Panes!First(own) \in own
    BY <2>2, FirstOfPanes
  <2>5. Panes!First(twins) \in DOMAIN panes /\ (own = {} \/ Panes!First(twins) # Panes!First(own))
    BY <2>2, <2>3, <2>4
  <2> HIDE DEF own, twins
  <2>6. /\ PanesInv'
        /\ \A k \in DOMAIN panes :
             (own = {} \/ k # Panes!First(own)) => \E j \in DOMAIN panes' : panes'[j] = panes[k]
    BY <1>1, <2>1, <2>2, Closed
  <2>7. \E j \in DOMAIN panes' : panes'[j] = panes[Panes!First(twins)]
    BY <2>5, <2>6
  <2> QED BY <2>1, <2>6, <2>7 DEF Named
<1>3. CASE twins = {}
  <2>1. /\ panes' = [i \in DOMAIN panes |-> IF panes[i].id = c.pane THEN Panes!BindTo(panes[i], s) ELSE panes[i]]
        /\ UNCHANGED terminal
    BY <1>3 DEF Panes!Bind
  <2>2. ASSUME NEW i \in DOMAIN panes
        PROVE  /\ panes'[i] \in PaneT /\ panes'[i].id = panes[i].id /\ panes'[i].unmeasured = panes[i].unmeasured
               /\ panes'[i].session = IF panes[i].id = c.pane THEN s ELSE panes[i].session
               /\ Faithful(panes'[i], output)
    <3>1. panes[i] \in PaneT /\ Faithful(panes[i], output)
      BY <1>1 DEF PanesInv, AllFaithful
    <3>2. CASE panes[i].id = c.pane
      <4>1. panes[i].session \in {Nothing, s}
        BY <3>2 DEF PanesInv, CallInv
      <4> QED BY <1>1, <2>1, <3>1, <3>2, <4>1, BoundTo
    <3>3. CASE panes[i].id # c.pane
      BY <2>1, <3>1, <3>3
    <3> QED BY <3>2, <3>3
  <2>3. DOMAIN panes' = DOMAIN panes /\ panes' \in Seq(PaneT)
    BY <1>1, <2>1, <2>2
  <2>4. \A i \in DOMAIN panes : panes[i].id # c.pane => panes[i].session # s
    BY <1>3 DEF Panes!PanesOf
  <2>5. Typed' /\ AllFaithful'
    BY <1>1, <2>2, <2>3 DEF PanesInv, Typed, AllFaithful
  <2>6. Unique'
    BY <2>2, <2>3, <2>4 DEF PanesInv, Unique
  <2>7. CallInv'
    <3>1. ASSUME NEW e \in calls', NEW i \in DOMAIN panes, panes[i].id = e.pane
          PROVE  ~panes'[i].unmeasured /\ panes'[i].session \in {Nothing, e.session}
      <4>1. e \in calls /\ e.pane # c.pane
        BY <1>1 DEF PanesInv, CallInv
      <4> QED BY <2>2, <3>1, <4>1 DEF PanesInv, CallInv
    <3> QED BY <1>1, <2>2, <2>3, <3>1 DEF PanesInv, CallInv
  <2> QED BY <2>1, <2>2, <2>3, <2>5, <2>6, <2>7 DEF PanesInv, Named
<1> QED BY <1>2, <1>3

\* The newest pane takes the place of the one whose child has exited.
LEMMA ExitStep ==
  ASSUME PanesInv, Named, NEW s \in Sessions, Panes!Exit(s)
  PROVE  PanesInv' /\ Named'
<1> DEFINE closing == Panes!PanesOf(s)
<1>1. panes' = Panes!Without(closing) /\ UNCHANGED <<output, calls>>
  BY DEF Panes!Exit, Panes!Closing
<1>2. closing \in SUBSET DOMAIN panes
  BY DEF Panes!PanesOf
<1>3. /\ PanesInv'
      /\ \A k \in DOMAIN panes :
           (closing = {} \/ k # Panes!First(closing)) => \E j \in DOMAIN panes' : panes'[j] = panes[k]
  <2> HIDE DEF closing
  <2> QED BY <1>1, <1>2, Closed
<1>4. CASE closing # {} /\ terminal = panes[Panes!First(closing)].id
  <2>1. terminal' = IF panes' = <<>> THEN Nothing ELSE Panes!Last(panes').id
    BY <1>1, <1>4 DEF Panes!Exit, Panes!Closing
  <2>2. panes' # <<>> => Len(panes') \in DOMAIN panes' /\ Panes!Last(panes') = panes'[Len(panes')]
    <3>1. panes' \in Seq(PaneT)
      BY <1>3 DEF PanesInv, Typed
    <3> QED BY <3>1 DEF Panes!Last
  <2> QED BY <1>3, <2>1, <2>2 DEF Named
<1>5. CASE ~(closing # {} /\ terminal = panes[Panes!First(closing)].id)
  <2>1. terminal' = terminal
    BY <1>1, <1>5 DEF Panes!Exit, Panes!Closing
  <2>2. ASSUME NEW k \in DOMAIN panes, panes[k].id = terminal
        PROVE  \E j \in DOMAIN panes' : panes'[j].id = terminal
    BY <1>3, <1>5, <2>2
  <2> QED BY <1>3, <2>1, <2>2 DEF Named
<1> QED BY <1>4, <1>5

\* However launches, resumes, adoptions, exits and late answers cross, no two panes
\* show one session, and a bound pane shows every chunk of it since it was opened, but
\* for those it reported when its buffer was full.
LEMMA FaithfulPanes == Panes!Spec => [](Panes!SessionsAssumption => Panes!PanesAreFaithful)
<1> DEFINE Inv == Panes!SessionsAssumption => PanesInv /\ Named
<1>1. Panes!Init => Inv
  BY DEF Panes!Init, Panes!ShellInit, PanesInv, Typed, AllFaithful, Unique, CallInv, Named
<1>2. Inv /\ [Panes!Next]_(Panes!vars) => Inv'
  <2> SUFFICES ASSUME Panes!SessionsAssumption, PanesInv, Named, [Panes!Next]_(Panes!vars)
               PROVE  PanesInv' /\ Named'
    OBVIOUS
  <2>1. CASE Panes!Reload
    BY <2>1 DEF Panes!Reload, Panes!mainVars, PanesInv, Typed, AllFaithful, Unique, CallInv, Named
  <2>2. CASE UNCHANGED <<output, panes, terminal>> /\ calls' \subseteq calls
    BY <2>2, StaysAsItIs DEF Named
  <2>3. CASE \/ Panes!ShowAnother \/ Panes!PushList \/ UNCHANGED Panes!vars \/ \E s \in Sessions : Panes!Spawn(s)
             \/ \E c \in calls : Panes!BindFails(c)
    BY <2>2, <2>3 DEF Panes!ShowAnother, Panes!PushList, Panes!Spawn, Panes!BindFails, Panes!vars, Panes!mainVars, Panes!windowVars
  <2> QED BY <2>1, <2>3, OpenStep, MeasureStep, OutputStep, ServeStep, BindStep, ExitStep DEF Panes!Next
<1>3. Inv => (Panes!SessionsAssumption => Panes!PanesAreFaithful)
  <2> SUFFICES ASSUME PanesInv, Named PROVE Panes!PanesAreFaithful
    OBVIOUS
  <2>1. Panes!ReplayedOnce
    BY DEF Panes!ReplayedOnce, PanesInv, AllFaithful, Faithful, Kept, Full
  <2>2. Panes!WithinTheCap
    BY DEF Panes!WithinTheCap, PanesInv, AllFaithful, Faithful
  <2>3. Panes!OnePanePerSession
    BY DEF Panes!OnePanePerSession, PanesInv, Unique, Named
  <2> QED BY <2>1, <2>2, <2>3 DEF Panes!PanesAreFaithful
<1> QED BY <1>1, <1>2, <1>3, PTL DEF Panes!Spec

-----------------------------------------------------------------------------
(* Answers that come late: the command palette and the search panel.  An    *)
(* answer carries the number of the question, and a number is given to one  *)
(* question only.                                                           *)

\* The targets are those of the command, and so are the ones that are still loaded
\* for the number of now.
Offered ==
  /\ loadToken \in Nat /\ \A l \in inFlight : l.token \in Nat /\ l.token <= loadToken
  /\ opened /\ items.of # {} => stage = "choices" /\ items.for = command
  /\ opened => \A l \in inFlight : l.token = loadToken => stage = "choices" /\ l.for = command

LEMMA OfferedStep ==
  ASSUME Offered, [Palette!Next]_(Palette!vars)
  PROVE  Offered'
<1> USE DEF Offered
<1>1. CASE Palette!Open
  BY <1>1 DEF Palette!Open, Palette!NoItems
<1>2. CASE Palette!toCommands
  BY <1>2 DEF Palette!toCommands, Palette!NoItems, Palette!Stage
<1>3. CASE Palette!EscapeCloses \/ Palette!Type
  BY <1>3 DEF Palette!EscapeCloses, Palette!Type
<1>4. ASSUME NEW id, Palette!enterChoices(id)
      PROVE  Offered'
  <2>1. /\ loadToken' = loadToken + 1 /\ stage' = "choices" /\ command' = Palette!Made(id) /\ opened' = opened
        /\ \/ items' = Palette!NoItems /\ inFlight' = inFlight \cup {[token |-> loadToken', for |-> command']}
           \/ items' = [of |-> there, for |-> command'] /\ inFlight' = inFlight
    BY <1>4 DEF Palette!enterChoices, Palette!Stage
  <2> QED BY <2>1 DEF Palette!NoItems
<1>5. ASSUME NEW id, Palette!Pick(id)
      PROVE  Offered'
  BY <1>5 DEF Palette!Pick, Palette!Deed, Palette!Stage
<1>6. ASSUME NEW l \in inFlight, Palette!Loaded(l) \/ Palette!LoadFails(l)
      PROVE  Offered'
  BY <1>6 DEF Palette!Loaded, Palette!LoadFails, Palette!Awaited, Palette!NoItems
<1>7. ASSUME NEW t \in Trees, Palette!PickChoice(t) \/ Palette!submitPrompt(t) \/ Palette!Shortcut(t)
      PROVE  Offered'
  BY <1>7 DEF Palette!PickChoice, Palette!submitPrompt, Palette!Shortcut, Palette!Deed, Palette!palette
<1>8. CASE UNCHANGED Palette!vars
  BY <1>8 DEF Palette!vars, Palette!palette
<1> QED BY <1>1, <1>2, <1>3, <1>4, <1>5, <1>6, <1>7, <1>8 DEF Palette!Next

Hit == [query : Queries, n : Nat]

\* A request with the number of now is for the draft of now.
Asked ==
  /\ query \in Queries /\ requestId \in Nat /\ hits \in Seq(Hit) /\ nextCursor \in Nat
  /\ \A c \in searches : /\ c.id \in Nat /\ c.id <= requestId /\ c.query \in Queries /\ c.cursor \in Nat
                         /\ c.id = requestId => c.query = query

SearchInv == Asked /\ Search!HitsOfTheDraft

LEMMA PageIsOfItsQuery ==
  ASSUME Search!PanelAssumption, NEW c, c.query \in Queries, c.cursor \in Nat
  PROVE  /\ Search!PageOf(c) \in Seq(Hit) /\ Search!CursorAfter(c) \in Nat
         /\ \A i \in 1..Len(Search!PageOf(c)) : Search!PageOf(c)[i].query = c.query
<1> DEFINE left == TotalOf(c.query) - c.cursor
           size == IF left > Search!Limit THEN Search!Limit ELSE IF left > 0 THEN left ELSE 0
           page1 == [i \in 1..size |-> [query |-> c.query, n |-> c.cursor + i]]
<1>1. TotalOf(c.query) \in Nat
  BY DEF Search!PanelAssumption
<1>2. size \in Nat
  BY <1>1 DEF Search!Limit
<1>3. Search!PageOf(c) = page1
  BY DEF Search!PageOf
<1> HIDE DEF size
<1>4. \A i \in 1..size : [query |-> c.query, n |-> c.cursor + i] \in Hit
  BY <1>2 DEF Hit
<1>5. page1 \in Seq(Hit) /\ Len(page1) = size /\ \A i \in 1..size : page1[i].query = c.query
  BY <1>2, <1>4
<1>6. Search!CursorAfter(c) \in Nat
  BY <1>1 DEF Search!CursorAfter, Search!Limit, Search!NoCursor
<1> QED BY <1>3, <1>5, <1>6

LEMMA SearchStep ==
  ASSUME Search!PanelAssumption, SearchInv, [Search!Next]_(Search!vars)
  PROVE  SearchInv'
<1>h. \A i \in 1..Len(hits) : ~searching => hits[i].query = query
  BY DEF SearchInv, Asked, Search!HitsOfTheDraft
<1> USE DEF SearchInv, Asked, Search!HitsOfTheDraft
<1>1. ASSUME NEW q \in Queries, Search!Change(q)
      PROVE  SearchInv'
  BY <1>1 DEF Search!Change
<1>2. CASE Search!Issue \/ Search!LoadMore
  BY <1>2 DEF Search!Issue, Search!LoadMore
<1>3. ASSUME NEW c \in searches, Search!Answer(c)
      PROVE  SearchInv'
  <2>1. /\ searches' = searches \ {c} /\ UNCHANGED <<query, requestId, debounce>>
        /\ Search!Found(c) \/ Search!NotFound(c) \/ Search!FoundMore(c) \/ Search!NotFoundMore(c)
    BY <1>3 DEF Search!Answer
  <2>p. /\ Search!PageOf(c) \in Seq(Hit) /\ Search!CursorAfter(c) \in Nat
        /\ \A i \in 1..Len(Search!PageOf(c)) : Search!PageOf(c)[i].query = c.query
    BY PageIsOfItsQuery
  <2>2. CASE Search!Found(c) /\ Search!Current(c)
    <3>1. hits' = Search!PageOf(c) /\ nextCursor' = Search!CursorAfter(c)
      BY <2>2 DEF Search!Found
    <3>2. DOMAIN hits' = 1..Len(hits')
      BY <2>p, <3>1
    <3> QED BY <2>1, <2>2, <2>p, <3>1, <3>2 DEF Search!Current
  <2>3. CASE Search!NotFound(c) /\ Search!Current(c)
    BY <2>1, <2>3 DEF Search!NotFound, Search!NoCursor
  <2>4. CASE Search!FoundMore(c) /\ Search!Current(c)
    <3>1. /\ hits' = hits \o Search!PageOf(c) /\ nextCursor' = Search!CursorAfter(c) /\ searching' = searching
      BY <2>4 DEF Search!FoundMore
    <3> DEFINE more == Search!PageOf(c)
    <3> HIDE DEF more
    <3>2. more \in Seq(Hit) /\ \A i \in 1..Len(more) : more[i].query = query
      BY <2>4, <2>p DEF more, Search!Current
    <3>3. /\ hits \o more \in Seq(Hit) /\ DOMAIN (hits \o more) = 1..(Len(hits) + Len(more))
          /\ \A i \in 1..(Len(hits) + Len(more)) :
               (hits \o more)[i] = IF i <= Len(hits) THEN hits[i] ELSE more[i - Len(hits)]
      BY <3>2
    <3>4. ASSUME ~searching, NEW i \in 1..(Len(hits) + Len(more))
          PROVE  (hits \o more)[i].query = query
      BY <1>h, <3>2, <3>3, <3>4
    <3>5. hits' = hits \o more
      BY <3>1 DEF more
    <3> QED BY <2>1, <2>p, <3>1, <3>3, <3>4, <3>5
  <2>5. CASE Search!NotFoundMore(c) \/ ~Search!Current(c)
    BY <2>1, <2>5 DEF Search!Found, Search!NotFound, Search!FoundMore, Search!NotFoundMore
  <2> QED BY <2>1, <2>2, <2>3, <2>4, <2>5
<1>4. CASE UNCHANGED Search!vars
  BY <1>4 DEF Search!vars
<1> QED BY <1>1, <1>2, <1>3, <1>4 DEF Search!Next, Search!AnswerSome

\* However late, and in whatever order, loads and searches are answered.
LEMMA LateAnswers ==
  Palette!Spec /\ Search!Spec => [](Search!PanelAssumption => LateAnswersAreDropped)
<1>1. Palette!Init => Offered
  BY DEF Palette!Init, Palette!NoItems, Offered
<1>2. Offered => Palette!TargetsOfTheCommand
  BY DEF Offered, Palette!TargetsOfTheCommand
<1>3. Search!Init => (Search!PanelAssumption => SearchInv)
  BY DEF Search!Init, Search!NoCursor, SearchInv, Asked, Search!HitsOfTheDraft
<1>4. (Search!PanelAssumption => SearchInv) /\ [Search!Next]_(Search!vars)
       => (Search!PanelAssumption => SearchInv)'
  BY SearchStep DEF Search!PanelAssumption
<1>5. SearchInv => Search!HitsOfTheDraft
  BY DEF SearchInv
<1> QED BY <1>1, <1>2, <1>3, <1>4, <1>5, OfferedStep, PTL DEF Palette!Spec, Search!Spec, LateAnswersAreDropped

-----------------------------------------------------------------------------
(* The chat pane: ComposerIsTrue.  The mention is read again from every     *)
(* text that is set, and a chat that is left takes its files along.         *)

Keys == {Chat!At, Chat!Word, Chat!Space}
Text == Seq(Keys)
PaneTypes ==
  /\ chat \in Chats /\ draft \in Text /\ caret \in 0..Len(draft) /\ mention \in Nat
  /\ \A r \in sends : r = [id |-> r.id, text |-> r.text, chat |-> r.chat, to |-> r.to, here |-> r.here]
                      /\ r.text \in Text

\* Files are asked for, and kept, for the workspace of the pane while it is mounted.
OfThePane ==
  /\ files # Nothing => files = Chat!Workspace /\ chatShown
  /\ loadedFor # Nothing => loadedFor = Chat!Workspace /\ chatShown
  /\ escaping => chatShown
  /\ ~chatShown => loads = <<>>

ComposerInv == PaneTypes /\ OfThePane /\ Chat!MentionIsThere /\ Chat!SentInItsChat

LEMMA MentionIsFound ==
  ASSUME NEW txt \in Text, NEW n \in 0..Len(txt)
  PROVE  LET at0 == Chat!detectMention(txt, n)
         IN  at0 = Chat!NoMention \/ (at0 \in 1..n /\ txt[at0] = Chat!At)
  BY DEF Chat!detectMention, Chat!NoMention

\* A text with its caret is set, and the mention and the files follow.
LEMMA TextIsSet ==
  ASSUME ComposerInv, chatShown, draft' \in Text, caret' \in 0..Len(draft'), Chat!syncMention(draft', caret'),
         UNCHANGED <<chat, chatShown, sends>>
  PROVE  ComposerInv'
<1>1. mention' = Chat!detectMention(draft', caret') /\ Chat!EnsureFilesLoaded(mention')
  BY DEF Chat!syncMention
<1>2. mention' = 0 \/ (mention' \in 1..caret' /\ draft'[mention'] = Chat!At)
  BY <1>1, MentionIsFound DEF Chat!NoMention
<1>3. PaneTypes' /\ (Chat!MentionIsThere)' /\ (Chat!SentInItsChat)'
  BY <1>2 DEF ComposerInv, PaneTypes, Chat!MentionIsThere, Chat!SentInItsChat, Chat!NoMention, Text
<1>4. OfThePane'
  BY <1>1 DEF Chat!EnsureFilesLoaded, Chat!picker, ComposerInv, OfThePane, Chat!Workspace
<1> QED BY <1>3, <1>4 DEF ComposerInv

\* A key is put in, and a reference stands for its mention.
LEMMA Joined ==
  ASSUME NEW X, NEW a \in Seq(X), NEW b \in Seq(X), NEW c \in Seq(X)
  PROVE  a \o b \o c \in Seq(X) /\ Len(a \o b \o c) = Len(a) + Len(b) + Len(c)
<1>1. a \o b \in Seq(X) /\ Len(a \o b) = Len(a) + Len(b)
  OBVIOUS
<1> DEFINE d == a \o b
<1>2. d \in Seq(X)
  BY <1>1
<1> HIDE DEF d
<1>3. d \o c \in Seq(X) /\ Len(d \o c) = Len(d) + Len(c)
  BY <1>2
<1> QED BY <1>1, <1>3 DEF d

\* Where the caret is put is in the text.
LEMMA InTheText ==
  ASSUME NEW m \in Nat, NEW k \in Nat, NEW n \in Nat, NEW length \in Nat, n <= length
  PROVE  m + k \in 0..(m + k + (length - n))
  OBVIOUS

LEMMA ComposerStep ==
  ASSUME Chat!ChatPaneAssumption, ComposerInv, [Chat!Next]_(Chat!vars)
  PROVE  ComposerInv'
<1>t. /\ draft \in Text /\ caret \in Nat /\ Len(draft) \in Nat /\ caret <= Len(draft) /\ mention \in Nat
      /\ mention # 0 => mention <= caret
  BY DEF ComposerInv, PaneTypes, Chat!MentionIsThere, Chat!NoMention, Text
<1>1. ASSUME NEW c \in Keys, Chat!Type(c)
      PROVE  ComposerInv'
  <2>1. /\ draft' = SubSeq(draft, 1, caret) \o <<c>> \o SubSeq(draft, caret + 1, Len(draft))
        /\ caret' = caret + 1 /\ chatShown /\ UNCHANGED <<chat, chatShown, sends, escaping>>
        /\ ~escaping /\ Chat!syncMention(draft', caret')
    BY <1>1, <1>t DEF Chat!Type, Chat!InsertAt, Chat!world
  <2>2. draft' \in Text /\ Len(draft') = caret + 1 + (Len(draft) - caret)
    <3>1. <<c>> \in Seq(Keys) /\ Len(<<c>>) = 1 /\ draft \in Seq(Keys)
      BY <1>t DEF Text
    <3> DEFINE front == SubSeq(draft, 1, caret)
               back == SubSeq(draft, caret + 1, Len(draft))
               key == <<c>>
    <3>2. /\ front \in Seq(Keys) /\ Len(front) = caret
          /\ back \in Seq(Keys) /\ Len(back) = Len(draft) - caret
      BY <1>t, <3>1
    <3>3. draft' = front \o key \o back /\ key \in Seq(Keys) /\ Len(key) = 1
      BY <2>1, <3>1
    <3>f. front \in Seq(Keys) /\ key \in Seq(Keys) /\ back \in Seq(Keys)
      BY <3>2, <3>3
    <3> HIDE DEF front, back, key
    <3>4. front \o key \o back \in Seq(Keys) /\ Len(front \o key \o back) = Len(front) + Len(key) + Len(back)
      BY <3>f, Joined
    <3> QED BY <3>2, <3>3, <3>4 DEF Text
  <2>3. caret' \in 0..Len(draft')
    BY <1>t, <2>1, <2>2, InTheText
  <2> QED BY <2>1, <2>2, <2>3, TextIsSet
<1>2. CASE Chat!Backspace
  <2>1. /\ draft' = SubSeq(draft, 1, caret - 1) \o SubSeq(draft, caret + 1, Len(draft)) /\ caret > 0
        /\ caret' = caret - 1 /\ chatShown /\ UNCHANGED <<chat, chatShown, sends, escaping>>
        /\ ~escaping /\ Chat!syncMention(draft', caret')
    BY <1>2, <1>t DEF Chat!Backspace, Chat!RemoveAt, Chat!world
  <2>2. draft' \in Text /\ Len(draft') = caret - 1 + (Len(draft) - caret)
    <3>1. draft \in Seq(Keys) /\ caret - 1 \in Nat
      BY <1>t, <2>1 DEF Text
    <3>2. /\ SubSeq(draft, 1, caret - 1) \in Seq(Keys) /\ Len(SubSeq(draft, 1, caret - 1)) = caret - 1
          /\ SubSeq(draft, caret + 1, Len(draft)) \in Seq(Keys)
          /\ Len(SubSeq(draft, caret + 1, Len(draft))) = Len(draft) - caret
      BY <1>t, <3>1
    <3> QED BY <2>1, <3>2 DEF Text
  <2>3. caret' \in 0..Len(draft')
    <3>1. caret - 1 \in Nat
      BY <1>t, <2>1
    <3>2. caret - 1 + 0 \in 0..(caret - 1 + 0 + (Len(draft) - caret))
      BY <1>t, <3>1, InTheText
    <3>3. caret' = caret - 1 /\ Len(draft') = caret - 1 + (Len(draft) - caret)
      BY <2>1, <2>2
    <3> QED BY <3>1, <3>2, <3>3
  <2> QED BY <2>1, <2>2, <2>3, TextIsSet
<1>3. ASSUME NEW n \in 0..Len(draft), Chat!PlaceCaret(n)
      PROVE  ComposerInv'
  <2>1. /\ draft' = draft /\ caret' = n /\ chatShown /\ UNCHANGED <<chat, chatShown, sends, escaping>>
        /\ ~escaping /\ Chat!syncMention(draft', caret')
    BY <1>3 DEF Chat!PlaceCaret, Chat!world
  <2> QED BY <1>t, <2>1, TextIsSet
<1>4. ASSUME NEW token \in Text, Chat!Pick(token)
      PROVE  ComposerInv'
  <2>1. /\ draft' = SubSeq(draft, 1, mention - 1) \o token \o SubSeq(draft, caret + 1, Len(draft))
        /\ caret' = mention - 1 + Len(token) /\ mention' = 0 /\ mention # 0
        /\ UNCHANGED <<chat, chatShown, escaping, sends, loadedFor, files, loads>>
    BY <1>4 DEF Chat!Pick, Chat!Done, Chat!NoMention, Chat!world, Chat!picker
  <2>2. mention - 1 \in Nat /\ mention - 1 <= caret /\ Len(token) \in Nat
    BY <1>t, <2>1 DEF Text
  <2>3. draft' \in Text /\ Len(draft') = mention - 1 + Len(token) + (Len(draft) - caret)
    <3>1. draft \in Seq(Keys) /\ token \in Seq(Keys)
      BY <1>t DEF Text
    <3> DEFINE front == SubSeq(draft, 1, mention - 1)
               back == SubSeq(draft, caret + 1, Len(draft))
    <3>2. /\ front \in Seq(Keys) /\ Len(front) = mention - 1
          /\ back \in Seq(Keys) /\ Len(back) = Len(draft) - caret
      BY <1>t, <2>2, <3>1
    <3>3. draft' = front \o token \o back
      BY <2>1
    <3>f. front \in Seq(Keys) /\ back \in Seq(Keys) /\ token \in Seq(Keys)
      BY <3>1, <3>2
    <3> HIDE DEF front, back
    <3>4. front \o token \o back \in Seq(Keys)
          /\ Len(front \o token \o back) = Len(front) + Len(token) + Len(back)
      BY <3>f, Joined
    <3> QED BY <3>2, <3>3, <3>4 DEF Text
  <2>4. caret' \in 0..Len(draft')
    <3>1. mention - 1 + Len(token) \in 0..(mention - 1 + Len(token) + (Len(draft) - caret))
      BY <1>t, <2>2, InTheText
    <3> QED BY <2>1, <2>3, <3>1
  <2> QED BY <2>1, <2>3, <2>4 DEF ComposerInv, PaneTypes, OfThePane, Chat!MentionIsThere, Chat!SentInItsChat,
                                  Chat!NoMention, Chat!Workspace
<1>5. CASE Chat!PickText \/ \E s \in Sessions : Chat!PickSession(s)
  <2>1. <<Chat!Word, Chat!Space>> \in Text /\ <<>> \in Text
    BY DEF Text, Keys
  <2> QED BY <1>4, <1>5, <2>1 DEF Chat!PickText, Chat!PickSession
<1>6. CASE Chat!EscapeDown
  BY <1>6 DEF Chat!EscapeDown, Chat!NoMention, Chat!world, Chat!picker, ComposerInv, PaneTypes, OfThePane,
              Chat!MentionIsThere, Chat!SentInItsChat, Chat!Workspace
<1>7. CASE Chat!EscapeUp
  <2>1. /\ draft' = draft /\ caret' = caret /\ chatShown /\ UNCHANGED <<chat, chatShown, sends>>
        /\ escaping' = FALSE /\ Chat!syncMention(draft', caret')
    BY <1>7 DEF Chat!EscapeUp, Chat!world, ComposerInv, OfThePane
  <2> QED BY <1>t, <2>1, TextIsSet
<1>8. ASSUME NEW i \in DOMAIN loads, Chat!Loaded(i) \/ Chat!LoadFails(i)
      PROVE  ComposerInv'
  <2>1. /\ UNCHANGED <<chat, chatShown, draft, caret, mention, escaping, sends>>
        /\ loadedFor' \in {loadedFor, Nothing} 
        /\ files' = files \/ (files' = loadedFor /\ loadedFor' = loadedFor)
    BY <1>8 DEF Chat!Loaded, Chat!LoadFails, Chat!Awaited, Chat!world, Chat!composer
  <2>2. chatShown
    BY <1>8 DEF ComposerInv, OfThePane
  <2> QED BY <2>1, <2>2 DEF ComposerInv, PaneTypes, OfThePane, Chat!MentionIsThere,
                            Chat!SentInItsChat, Chat!Workspace
<1>9. ASSUME NEW s \in Sessions, Chat!SendPrompt(s)
      PROVE  ComposerInv'
  <2> DEFINE new == [id |-> prompts + 1, text |-> draft, chat |-> chat, to |-> s, here |-> TRUE]
  <2>1. /\ sends' = sends \cup {new} /\ draft' = <<>> /\ caret' = 0 /\ mention = 0 /\ mention' = mention
        /\ UNCHANGED <<chat, chatShown, escaping, loadedFor, files, loads>>
    BY <1>9 DEF Chat!SendPrompt, Chat!NoMention, Chat!world, Chat!picker
  <2>2. ChatOf(s) = chat
    BY <1>9 DEF Chat!SendPrompt, Chat!Addressee, Chat!addressableTarget
  <2>3. <<>> \in Text /\ Len(<<>>) = 0
    BY DEF Text
  <2>4. PaneTypes'
    BY <1>t, <2>1, <2>3 DEF ComposerInv, PaneTypes
  <2> QED BY <2>1, <2>2, <2>4 DEF ComposerInv, OfThePane, Chat!MentionIsThere, Chat!SentInItsChat,
                                  Chat!NoMention, Chat!Workspace
<1>10. ASSUME NEW r \in sends, Chat!Answered(r) \/ Chat!SendFails(r)
       PROVE  ComposerInv'
  <2>1. /\ sends' = sends \ {r} /\ UNCHANGED <<chat, chatShown, mention, escaping, loadedFor, files, loads>>
        /\ \/ draft' = draft /\ caret' = caret
           \/ draft = <<>> /\ draft' = r.text /\ caret' = Len(r.text)
    BY <1>10 DEF Chat!Answered, Chat!SendFails, Chat!world, Chat!picker, Chat!composer
  <2>2. draft = <<>> => mention = 0
    BY <1>t
  <2>3. r.text \in Text /\ Len(r.text) \in 0..Len(r.text)
    BY DEF ComposerInv, PaneTypes, Text
  <2> QED BY <2>1, <2>2, <2>3 DEF ComposerInv, PaneTypes, OfThePane, Chat!MentionIsThere, Chat!SentInItsChat,
                                  Chat!NoMention, Chat!Workspace
<1>11. ASSUME NEW c \in Chats, Chat!SelectChat(c)
       PROVE  ComposerInv'
  <2>1. /\ chat' = c /\ UNCHANGED <<chatShown, draft, caret, mention, escaping, sends, loads>>
        /\ IF chatShown /\ loadedFor # WorkspaceOf(c)
             THEN loadedFor' = Nothing /\ files' = Nothing ELSE UNCHANGED <<loadedFor, files>>
    BY <1>11 DEF Chat!SelectChat, Chat!composer
  <2>2. WorkspaceOf(c) # Nothing
    BY DEF Chat!ChatPaneAssumption
  <2> QED BY <2>1, <2>2 DEF ComposerInv, PaneTypes, OfThePane, Chat!MentionIsThere,
                            Chat!SentInItsChat, Chat!Workspace
<1>12. CASE Chat!Unmount
  <2>1. /\ chatShown' = FALSE /\ draft' = <<>> /\ caret' = 0 /\ mention' = 0 /\ escaping' = FALSE
        /\ loadedFor' = Nothing /\ files' = Nothing /\ loads' = <<>> /\ chat' = chat
        /\ sends' = {[r EXCEPT !.here = FALSE] : r \in sends}
    BY <1>12 DEF Chat!Unmount, Chat!NoMention
  <2>2. <<>> \in Text /\ Len(<<>>) = 0
    BY DEF Text
  <2>3. ASSUME NEW q \in sends'
        PROVE  /\ q = [id |-> q.id, text |-> q.text, chat |-> q.chat, to |-> q.to, here |-> q.here]
               /\ q.text \in Text /\ ChatOf(q.to) = q.chat
    <3>1. PICK r \in sends : q = [r EXCEPT !.here = FALSE]
      BY <2>1
    <3>2. /\ r = [id |-> r.id, text |-> r.text, chat |-> r.chat, to |-> r.to, here |-> r.here]
          /\ r.text \in Text /\ ChatOf(r.to) = r.chat
      BY DEF ComposerInv, PaneTypes, Chat!SentInItsChat
    <3>3. q = [id |-> r.id, text |-> r.text, chat |-> r.chat, to |-> r.to, here |-> FALSE]
      BY <3>1, <3>2
    <3> QED BY <3>2, <3>3
  <2> QED BY <2>1, <2>2, <2>3 DEF ComposerInv, PaneTypes, OfThePane, Chat!MentionIsThere, Chat!SentInItsChat,
                                  Chat!NoMention
<1>13. CASE Chat!Mount \/ UNCHANGED Chat!vars
  BY <1>13 DEF Chat!Mount, Chat!vars, Chat!world, Chat!composer, Chat!picker, ComposerInv, PaneTypes, OfThePane,
               Chat!MentionIsThere, Chat!SentInItsChat, Chat!Workspace
<1> QED BY <1>1, <1>2, <1>3, <1>5, <1>6, <1>7, <1>8, <1>9, <1>10, <1>11, <1>12, <1>13 DEF Chat!Next, Keys

\* Whatever is typed, picked and restored, however late file lists arrive and
\* prompts fail, and however often chats and tabs are switched meanwhile.
LEMMA TrueComposer == Chat!Spec => [](Chat!ChatPaneAssumption => ComposerIsTrue)
<1>1. Chat!Init => ComposerInv
  BY DEF Chat!Init, Chat!NoMention, ComposerInv, PaneTypes, Text, OfThePane,
         Chat!MentionIsThere, Chat!SentInItsChat
<1>2. (Chat!ChatPaneAssumption => ComposerInv) /\ [Chat!Next]_(Chat!vars)
       => (Chat!ChatPaneAssumption => ComposerInv)'
  BY ComposerStep DEF Chat!ChatPaneAssumption
<1>3. ComposerInv => ComposerIsTrue
  BY DEF ComposerInv, OfThePane, ComposerIsTrue, Chat!FilesOfTheWorkspace
<1> QED BY <1>1, <1>2, <1>3, PTL DEF Chat!Spec

-----------------------------------------------------------------------------
(* What is shown is current: ShownIsCurrent.  The tab of a file has its     *)
(* mark exactly when the draft is another text than the one that counts as  *)
(* saved, which was on disk.                                                *)

\* What counts as saved has been on disk, and so has what a read or a save brings.
SavedIsStored ==
  /\ disk.text \in ever
  /\ read # Nothing => read.text \in ever
  /\ saving # Nothing => /\ saving = [text |-> saving.text, at |-> saving.at]
                         /\ saving.at = "written" => saving.text \in ever
  /\ editor = "open" => saved \in ever /\ mark = (text # saved)

LEMMA EditorStep ==
  ASSUME SavedIsStored, [Editor!Next]_(Editor!vars)
  PROVE  SavedIsStored'
<1> USE DEF SavedIsStored, Editor!buffer, Editor!saves
<1>1. CASE Editor!OtherWrite
  <2>1. PICK k, t : Editor!Store([kind |-> k, text |-> t])
                  /\ UNCHANGED <<read, saving, editor, text, saved, mark>>
    BY <1>1 DEF Editor!OtherWrite
  <2> QED BY <2>1 DEF Editor!Store
<1>2. CASE Editor!WriteFile
  <2>1. saving # Nothing /\ UNCHANGED <<read, editor, text, saved, mark>>
    BY <1>2 DEF Editor!WriteFile
  <2>2. CASE saving' = [saving EXCEPT !.at = "failed"] /\ UNCHANGED <<disk, ever>>
    BY <2>1, <2>2
  <2>3. CASE Editor!Store([kind |-> "text", text |-> saving.text]) /\ saving' = [saving EXCEPT !.at = "written"]
    BY <2>1, <2>3 DEF Editor!Store
  <2> QED BY <1>2, <2>2, <2>3 DEF Editor!WriteFile
<1>3. CASE Editor!WriteOrphan
  <2>1. UNCHANGED <<read, saving, editor, text, saved, mark>>
        /\ (UNCHANGED <<disk, ever>> \/ \E t : Editor!Store([kind |-> "text", text |-> t]))
    BY <1>3 DEF Editor!WriteOrphan
  <2> QED BY <2>1 DEF Editor!Store
<1>4. CASE Editor!Open \/ Editor!Tick \/ Editor!ReadFile
  BY <1>4 DEF Editor!Open, Editor!Tick, Editor!ReadFile
<1>5. CASE Editor!Answer
  BY <1>5 DEF Editor!Answer, Editor!Mount, Editor!LeaveSave
<1>6. CASE Editor!Save
  <2>1. saving' = [text |-> text, at |-> "sent"] /\ UNCHANGED <<disk, read, editor, text, saved, mark, ever>>
    BY <1>6 DEF Editor!Save
  <2> QED BY <2>1
<1>7. CASE Editor!Saved
  BY <1>7 DEF Editor!Saved, Editor!SavedText
<1>8. CASE Editor!Close
  BY <1>8 DEF Editor!Close, Editor!LeaveSave
<1>9. ASSUME NEW t \in Texts, Editor!Type(t)
      PROVE  SavedIsStored'
  BY <1>9 DEF Editor!Type
<1>10. CASE UNCHANGED Editor!vars
  BY <1>10 DEF Editor!vars
<1> QED BY <1>1, <1>2, <1>3, <1>4, <1>5, <1>6, <1>7, <1>8, <1>9, <1>10 DEF Editor!Next

(* The work pane: between two writes a refresh reads what is there, and the *)
(* comments it holds or is about to read are of the work that is selected.  *)

Shown == Work!Selected(list, picked)
Current == graph[Shown].rev

\* The list that is read, and the one that is shown.
ListInv ==
  /\ told \in BOOLEAN
  /\ hydration = [pc |-> hydration.pc, todo |-> hydration.todo, got |-> hydration.got]
  /\ hydration.pc \in {"none", "search", "get"}
  /\ ~told /\ hydration.pc = "get" =>
       hydration.todo \subseteq Work!There
       /\ hydration.got = [w \in Work!There \ hydration.todo |-> Work!loadWork(w)]
  /\ ~told /\ hydration.pc = "none" => list = [w \in Work!There |-> Work!loadWork(w)]

\* The comments that are read, and those that are shown.
LookupInv ==
  /\ allRevisions \in BOOLEAN
  /\ lookup = [pc |-> lookup.pc, work |-> lookup.work, all |-> lookup.all, current |-> lookup.current]
  /\ lookup.pc \in {"none", "row", "comments"}
  /\ lookup.pc # "none" => lookup.work = Shown /\ Shown # Nothing /\ lookup.all = allRevisions
  /\ ~told /\ lookup.pc = "comments" => lookup.current = Current
  /\ ~told /\ lookup.pc = "none" /\ Shown # Nothing =>
       listing = Work!Listed(Shown, allRevisions, Current, Work!RemarksOn(Shown))

WorkInv == ListInv /\ LookupInv

\* What a render makes of the comments.
LEMMA Rendered ==
  ASSUME LookupInv, NEW l, NEW p, NEW form, Work!Shows(l, p, form), UNCHANGED <<graph, remarks, told>>
  PROVE  LookupInv'
<1>1. list' = l /\ picked' = p /\ Shown' = Work!Selected(l, p)
  BY DEF Work!Shows, Shown, Work!Selected
<1>2. CASE Work!Selected(l, p) = Shown
  <2>1. UNCHANGED <<allRevisions, lookup, listing>> /\ Shown' = Shown
    BY <1>1, <1>2 DEF Work!Shows, Shown
  <2> QED BY <2>1 DEF LookupInv, Current, Work!Listed, Work!RemarksOn
<1>3. CASE Work!Selected(l, p) # Shown
  <2>1. allRevisions' = FALSE /\ lookup' = Work!Lookup(Shown', FALSE)
    BY <1>1, <1>3 DEF Work!Shows, Shown
  <2> QED BY <2>1 DEF LookupInv, Work!Lookup
<1> QED BY <1>2, <1>3

\* After a write the refresh is still to come.
LEMMA Announced ==
  ASSUME WorkInv, told' = TRUE, UNCHANGED <<hydration, list, lookup, listing, picked, allRevisions>>
  PROVE  WorkInv'
<1>1. Shown' = Shown
  BY DEF Shown, Work!Selected
<1> QED BY <1>1 DEF WorkInv, ListInv, LookupInv

\* Nothing of what is compared is touched.
LEMMA Untouched ==
  ASSUME WorkInv, UNCHANGED <<graph, remarks, told, hydration, list, lookup, listing, picked, allRevisions>>
  PROVE  WorkInv'
<1>1. Shown' = Shown /\ Current' = Current /\ (Work!There)' = Work!There
  BY DEF Shown, Current, Work!Selected, Work!There
<1>2. [w \in Work!There |-> Work!loadWork(w)]' = [w \in Work!There |-> Work!loadWork(w)]
  BY DEF Work!There, Work!loadWork
<1>3. ListInv'
  BY <1>1, <1>2 DEF WorkInv, ListInv, Work!loadWork
<1>4. LookupInv'
  BY <1>1 DEF WorkInv, LookupInv, Work!Listed, Work!RemarksOn
<1> QED BY <1>3, <1>4 DEF WorkInv

\* The list is as it was.
LEMMA ListIsKept ==
  ASSUME ListInv, UNCHANGED <<graph, told, hydration, list>>
  PROVE  ListInv'
<1>1. (Work!There)' = Work!There
  BY DEF Work!There
<1>2. [w \in Work!There |-> Work!loadWork(w)]' = [w \in Work!There |-> Work!loadWork(w)]
  BY DEF Work!There, Work!loadWork
<1> QED BY <1>1, <1>2 DEF ListInv, Work!loadWork

\* What agents write, what is read, and what the user does in the pane.
LEMMA WriteStep ==
  ASSUME WorkInv, NEW w \in Works, Work!Agent(w)
  PROVE  WorkInv'
<1>1. told' = TRUE /\ UNCHANGED <<hydration, list, lookup, listing, picked, allRevisions>>
  BY DEF Work!Agent, Work!AgentWrites, Work!AgentComments, Work!Remarked, Work!reads, Work!pane
<1> QED BY <1>1, Announced

LEMMA ReadStep ==
  ASSUME WorkInv, Work!Read
  PROVE  WorkInv'
<1>1. CASE Work!Refresh
  <2>1. /\ told' = FALSE /\ hydration' = Work!Searching /\ lookup' = Work!Lookup(Shown, allRevisions)
        /\ UNCHANGED <<graph, remarks, list, listing, picked, allRevisions>> /\ Shown' = Shown
    BY <1>1 DEF Work!Refresh, Work!Restarted, Work!pane, Shown, Work!Selected
  <2>2. ListInv'
    BY <2>1 DEF Work!Searching, WorkInv, ListInv
  <2>3. LookupInv'
    BY <2>1 DEF Work!Lookup, WorkInv, LookupInv
  <2> QED BY <2>2, <2>3 DEF WorkInv
<1>2. CASE Work!SearchArc
  <2>1. /\ hydration' = [pc |-> "get", todo |-> Work!There, got |-> <<>>]
        /\ UNCHANGED <<graph, remarks, told, list, lookup, listing, picked, allRevisions>>
    BY <1>2 DEF Work!SearchArc, Work!searchAll, Work!store, Work!pane
  <2>2. (Work!There)' = Work!There /\ Shown' = Shown
    BY <2>1 DEF Work!There, Shown, Work!Selected
  <2>3. <<>> = [w \in {} |-> Work!loadWork(w)']
    OBVIOUS
  <2>4. ListInv'
    BY <2>1, <2>2, <2>3 DEF WorkInv, ListInv
  <2>5. LookupInv'
    BY <2>1, <2>2 DEF WorkInv, LookupInv, Current, Work!Listed, Work!RemarksOn
  <2> QED BY <2>4, <2>5 DEF WorkInv
<1>3. ASSUME NEW w \in Works, Work!GetArc(w)
      PROVE  WorkInv'
  <2>1. /\ hydration.pc = "get" /\ w \in hydration.todo
        /\ hydration' = [hydration EXCEPT !.todo = @ \ {w},
             !.got = [x \in DOMAIN @ \cup {w} |-> IF x = w THEN Work!loadWork(w) ELSE @[x]]]
        /\ UNCHANGED <<graph, remarks, told, list, lookup, listing, picked, allRevisions>>
    BY <1>3 DEF Work!GetArc, Work!store, Work!pane
  <2> DEFINE soFar == [x \in DOMAIN hydration.got \cup {w} |->
                    IF x = w THEN Work!loadWork(w) ELSE hydration.got[x]]
  <2>2. hydration' = [pc |-> "get", todo |-> hydration.todo \ {w}, got |-> soFar]
    BY <2>1 DEF WorkInv, ListInv
  <2>3. (Work!There)' = Work!There /\ Shown' = Shown /\ \A x : Work!loadWork(x)' = Work!loadWork(x)
    BY <2>1 DEF Work!There, Shown, Work!Selected, Work!loadWork
  <2>4. ASSUME ~told
        PROVE  /\ hydration.todo \ {w} \subseteq Work!There
               /\ soFar = [x \in Work!There \ (hydration.todo \ {w}) |-> Work!loadWork(x)]
    BY <2>1, <2>4 DEF WorkInv, ListInv
  <2> HIDE DEF soFar
  <2>5. ListInv'
    <3>1. /\ hydration'.pc = "get" /\ hydration'.todo = hydration.todo \ {w} /\ hydration'.got = soFar
          /\ hydration' = [pc |-> hydration'.pc, todo |-> hydration'.todo, got |-> hydration'.got]
      BY <2>2
    <3>2. ASSUME ~told'
          PROVE  /\ hydration'.todo \subseteq (Work!There)'
                 /\ hydration'.got = [x \in (Work!There)' \ hydration'.todo |-> Work!loadWork(x)']
      <4>1. ~told
        BY <2>1, <3>2
      <4>2. [x \in (Work!There)' \ hydration'.todo |-> Work!loadWork(x)']
              = [x \in Work!There \ (hydration.todo \ {w}) |-> Work!loadWork(x)]
        BY <2>1, <2>3, <3>1 DEF Work!loadWork
      <4> QED BY <2>3, <2>4, <3>1, <4>1, <4>2
    <3> QED BY <2>1, <3>1, <3>2 DEF WorkInv, ListInv
  <2>6. LookupInv'
    BY <2>1, <2>3 DEF WorkInv, LookupInv, Current, Work!Listed, Work!RemarksOn
  <2> QED BY <2>5, <2>6 DEF WorkInv
<1>4. CASE Work!Deliver
  <2>1. /\ hydration.pc = "get" /\ hydration.todo = {} /\ hydration' = Work!NoRead
        /\ Work!Shows(hydration.got, picked, creating) /\ UNCHANGED <<graph, remarks, told>>
    BY <1>4 DEF Work!Deliver, Work!store
  <2>2. list' = hydration.got
    BY <2>1 DEF Work!Shows
  <2>3. (Work!There)' = Work!There /\ \A x : Work!loadWork(x)' = Work!loadWork(x)
    BY <2>1 DEF Work!There, Work!loadWork
  <2>4. ListInv'
    BY <2>1, <2>2, <2>3 DEF WorkInv, ListInv, Work!NoRead
  <2>5. LookupInv'
    BY <2>1, Rendered DEF WorkInv
  <2> QED BY <2>4, <2>5 DEF WorkInv
<1>5. CASE Work!RequireWork
  <2>1. /\ lookup.pc = "row" /\ lookup' = [lookup EXCEPT !.pc = "comments", !.current = graph[lookup.work].rev]
        /\ UNCHANGED <<graph, remarks, told, hydration, list, listing, picked, allRevisions>>
    BY <1>5 DEF Work!RequireWork, Work!store, Work!pane
  <2>2. Shown' = Shown /\ ListInv'
    BY <2>1, ListIsKept DEF Shown, Work!Selected, WorkInv
  <2>3. lookup' = [pc |-> "comments", work |-> lookup.work, all |-> lookup.all,
                       current |-> graph[lookup.work].rev]
    BY <2>1 DEF WorkInv, LookupInv
  <2>4. LookupInv'
    BY <2>1, <2>2, <2>3 DEF WorkInv, LookupInv, Current
  <2> QED BY <2>2, <2>4 DEF WorkInv
<1>6. CASE Work!LoadComments
  <2>1. /\ lookup.pc = "comments" /\ lookup' = Work!Lookup(Nothing, FALSE)
        /\ listing' = Work!Listed(lookup.work, lookup.all, lookup.current, Work!RemarksOn(lookup.work))
        /\ UNCHANGED <<graph, remarks, told, hydration, list, picked, allRevisions>>
    BY <1>6 DEF Work!LoadComments, Work!store, Work!pane
  <2>2. Shown' = Shown /\ ListInv'
    BY <2>1, ListIsKept DEF Shown, Work!Selected, WorkInv
  <2>3. LookupInv'
    BY <2>1, <2>2 DEF WorkInv, LookupInv, Current, Work!Lookup, Work!Listed, Work!RemarksOn
  <2> QED BY <2>2, <2>3 DEF WorkInv
<1> QED BY <1>1, <1>2, <1>3, <1>4, <1>5, <1>6 DEF Work!Read

LEMMA UserStep ==
  ASSUME WorkInv, Work!User
  PROVE  WorkInv'
<1>1. ASSUME NEW p, NEW form, Work!Shows(list, p, form), UNCHANGED <<graph, remarks, told, hydration>>
      PROVE  WorkInv'
  <2>1. list' = list
    BY <1>1 DEF Work!Shows
  <2> QED BY <1>1, <2>1, Rendered, ListIsKept DEF WorkInv
<1>2. CASE \/ Work!Back \/ Work!startCreate \/ Work!CancelCreate
           \/ \E w \in Works : Work!Pick(w) \/ Work!Open(w)
  BY <1>1, <1>2 DEF Work!Back, Work!startCreate, Work!CancelCreate, Work!Pick, Work!Open, Work!store
<1>3. CASE Work!ToggleAll
  <2>1. /\ picked = Shown /\ Shown # Nothing /\ allRevisions' = ~allRevisions
        /\ lookup' = Work!Lookup(Shown, ~allRevisions)
        /\ UNCHANGED <<graph, remarks, told, hydration, list, picked>> /\ Shown' = Shown
    BY <1>3 DEF Work!ToggleAll, Work!InDetail, Work!store, Shown, Work!Selected
  <2>2. ListInv'
    BY <2>1, ListIsKept DEF WorkInv
  <2>3. LookupInv'
    BY <2>1 DEF WorkInv, LookupInv, Work!Lookup
  <2> QED BY <2>2, <2>3 DEF WorkInv
<1>4. CASE Work!User /\ UNCHANGED <<graph, remarks, told, hydration, list, lookup,
                                                              listing, picked, allRevisions>>
  BY <1>4, Untouched
<1>5. CASE Work!startEdit \/ Work!Type \/ Work!CancelEdit \/ \E t \in Statuses \cup {"all"} : Work!Tab(t)
  BY <1>4, <1>5 DEF Work!User, Work!startEdit, Work!Type, Work!CancelEdit, Work!Tab, Work!store, Work!reads
<1>6. CASE \/ Work!SaveEdit \/ \E s \in Statuses : Work!changeStatus(s)
           \/ \E w \in Works : \E s \in Statuses : Work!Create(w, s)
  BY <1>4, <1>6 DEF Work!User, Work!SaveEdit, Work!changeStatus, Work!Create,
                          Work!Send, Work!store, Work!reads, Work!pane
<1> QED BY <1>2, <1>3, <1>5, <1>6 DEF Work!User

LEMMA MutateStep ==
  ASSUME WorkInv, Work!Mutate
  PROVE  WorkInv'
<1>1. CASE Work!Handle
  <2>1. /\ told' = (told \/ graph' # graph) /\ remarks' = remarks
        /\ UNCHANGED <<hydration, list, lookup, listing, picked, allRevisions>>
    BY <1>1 DEF Work!Handle, Work!reads, Work!pane
  <2>2. CASE graph' # graph
    BY <2>1, <2>2, Announced
  <2>3. CASE graph' = graph
    <3>1. told' = told
      BY <2>1, <2>3 DEF WorkInv, ListInv
    <3> QED BY <2>1, <2>3, <3>1, Untouched
  <2> QED BY <2>2, <2>3
<1>2. CASE Work!Refuse \/ Work!Fail
  BY <1>2, Untouched DEF Work!Refuse, Work!Fail, Work!store, Work!reads, Work!pane
<1>3. CASE Work!Return
  <2>1. /\ hydration' = Work!Searching /\ UNCHANGED <<graph, remarks, told>>
        /\ \/ Work!Shows(list, mutation.work, FALSE)
           \/ UNCHANGED <<list, lookup, listing, picked, allRevisions>>
    BY <1>3 DEF Work!Return, Work!store, Work!pane
  <2>2. ListInv'
    BY <2>1 DEF WorkInv, ListInv, Work!Searching
  <2>3. CASE Work!Shows(list, mutation.work, FALSE)
    BY <2>1, <2>2, <2>3, Rendered DEF WorkInv
  <2>4. CASE UNCHANGED <<list, lookup, listing, picked, allRevisions>>
    <3>1. Shown' = Shown
      BY <2>4 DEF Shown, Work!Selected
    <3>2. LookupInv'
      BY <2>1, <2>4, <3>1 DEF WorkInv, LookupInv, Current, Work!Listed, Work!RemarksOn
    <3> QED BY <2>2, <3>2 DEF WorkInv
  <2> QED BY <2>1, <2>3, <2>4
<1> QED BY <1>1, <1>2, <1>3 DEF Work!Mutate

LEMMA WorkStep ==
  ASSUME WorkInv, [Work!Next]_(Work!vars)
  PROVE  WorkInv'
<1>1. CASE UNCHANGED Work!vars
  BY <1>1, Untouched DEF Work!vars, Work!store, Work!reads, Work!pane
<1> QED BY <1>1, WriteStep, ReadStep, UserStep, MutateStep DEF Work!Next

LEMMA RestIsCurrent ==
  ASSUME WorkInv
  PROVE  Work!AtRestItIsCurrent
<1> SUFFICES ASSUME Work!AtRest
             PROVE  /\ list = [w \in Work!There |-> Work!loadWork(w)]
                    /\ Shown # Nothing =>
                         /\ listing.comments \cup listing.older = Work!RemarksOn(Shown)
                         /\ listing.comments \cap listing.older = {} \/ allRevisions
                         /\ {r \in Work!RemarksOn(Shown) : r.subject \in {0, Current}} \subseteq listing.comments
  BY DEF Work!AtRestItIsCurrent, Shown, Current
<1>1. Shown # Nothing => listing = Work!Listed(Shown, allRevisions, Current, Work!RemarksOn(Shown))
  BY DEF WorkInv, LookupInv, Work!AtRest
<1> QED BY <1>1 DEF WorkInv, ListInv, LookupInv, Work!AtRest, Work!Listed

\* Whatever tools and agents write between two of the reads, and whatever is typed,
\* saved and picked while they are on their way.
LEMMA CurrentPanes == Editor!Spec /\ Work!Spec => []ShownIsCurrent
<1>1. Editor!Init => SavedIsStored
  BY DEF Editor!Init, SavedIsStored
<1>2. SavedIsStored => Editor!CleanWasOnDisk
  BY DEF SavedIsStored, Editor!CleanWasOnDisk
<1>3. Work!Init => WorkInv
  <2> SUFFICES ASSUME Work!Init PROVE WorkInv
    OBVIOUS
  <2>1. Shown = Nothing
    BY DEF Work!Init, Shown, Work!Selected
  <2>2. ListInv
    BY DEF Work!Init, Work!Searching, ListInv
  <2>3. lookup = [pc |-> "none", work |-> Nothing, all |-> FALSE, current |-> 0] /\ allRevisions = FALSE
    BY DEF Work!Init, Work!Lookup
  <2>4. LookupInv
    BY <2>1, <2>3 DEF LookupInv
  <2> QED BY <2>2, <2>4 DEF WorkInv
<1> QED BY <1>1, <1>2, <1>3, EditorStep, WorkStep, RestIsCurrent, PTL DEF Editor!Spec, Work!Spec, ShownIsCurrent

-----------------------------------------------------------------------------
(* The sidebar: SelectedIsVisible.  Whatever the lists, the pick and what   *)
(* is bound come to be, the way to the chat shown is open unless the user   *)
(* closed a node of the tree since; and a long list is never cut off in     *)
(* front of it.                                                             *)

\* The way to the chat shown, in the tree as it is grouped.
WayOpen(c) ==
  LET w == HomeOf(c) IN
  /\ Tree!IsOpen(Tree!Workspace(w)) /\ Tree!IsOpen(Tree!ChatSection(w))
  /\ w \in bound => Tree!IsOpen(Tree!Project(RepoOf(w)))

Revealed ==
  Tree!Shown # Nothing /\ HomeOf(Tree!Shown) \in Tree!ToSet(workspaces) /\ ~tucked => WayOpen(Tree!Shown)

TreeInv == born \subseteq Tree!ToSet(ChatOrder) /\ Revealed

\* The effect opens it, for the lists and the pick that it was run for.
LEMMA RevealOpens ==
  ASSUME Tree!Reveal(workspaces', bound', born', chosen')
  PROVE  Revealed'
<1> DEFINE c == Tree!Shown'
           w == HomeOf(c)
           way == {Tree!Workspace(w), Tree!ChatSection(w)}
                    \cup (IF w \in bound' THEN {Tree!Project(RepoOf(w))} ELSE {})
<1>1. c = Tree!ShownChat(workspaces', born', chosen')
  BY DEF Tree!Shown
<1>2. CASE c # Nothing /\ w \in Tree!ToSet(workspaces')
  <2>1. open' = Tree!SetOpen(open, way, TRUE)
    BY <1>1, <1>2 DEF Tree!Reveal, Tree!Fires
  <2>2. \A n \in way : Tree!IsOpen(n)'
    <3> HIDE DEF way
    <3> QED BY <2>1 DEF Tree!IsOpen, Tree!SetOpen
  <2>3. WayOpen(Tree!Shown)'
    BY <2>2 DEF WayOpen
  <2> QED BY <2>3 DEF Revealed
<1>3. CASE ~(c # Nothing /\ w \in Tree!ToSet(workspaces'))
  BY <1>3 DEF Revealed
<1> QED BY <1>2, <1>3

\* What is open stays open where nothing moves and no node is closed.
LEMMA StaysOpen ==
  ASSUME Revealed, UNCHANGED <<bound, workspaces>>, Tree!Shown' = Tree!Shown,
         tucked' \/ (~tucked /\ \A n : Tree!IsOpen(n) => Tree!IsOpen(n)')
  PROVE  Revealed'
BY DEF Revealed, WayOpen

LEMMA TreeStep ==
  ASSUME TreeInv, [Tree!Next]_(Tree!vars)
  PROVE  TreeInv'
<1>1. ASSUME NEW w \in Workspaces, Tree!OpenWorkspace(w) \/ Tree!Archive(w) \/ Tree!Bind(w)
      PROVE  TreeInv'
  <2>1. Tree!Reveal(workspaces', bound', born', chosen') /\ born' = born
    BY <1>1 DEF Tree!OpenWorkspace, Tree!Archive, Tree!Bind
  <2> QED BY <2>1, RevealOpens DEF TreeInv
<1>2. ASSUME NEW c \in Tree!ToSet(ChatOrder), Tree!NewChat(c)
      PROVE  TreeInv'
  <2>1. Tree!Reveal(workspaces', bound', born', chosen') /\ born' = born \cup {c}
    BY <1>2 DEF Tree!NewChat
  <2> QED BY <2>1, RevealOpens DEF TreeInv
<1>3. ASSUME NEW c \in Tree!ToSet(ChatOrder), Tree!Select(c)
      PROVE  TreeInv'
  <2>1. CASE Tree!ShownChat(workspaces, born, c) # Tree!Shown
    <3>1. Tree!Reveal(workspaces', bound', born', chosen') /\ born' = born
      BY <1>3, <2>1 DEF Tree!Select
    <3> QED BY <3>1, RevealOpens DEF TreeInv
  <2>2. CASE Tree!ShownChat(workspaces, born, c) = Tree!Shown
    <3>1. Tree!Shown' = Tree!Shown /\ UNCHANGED <<workspaces, bound, born, open, tucked>>
      BY <1>3, <2>2 DEF Tree!Select, Tree!Shown
    <3> QED BY <3>1, StaysOpen DEF TreeInv, Tree!IsOpen
  <2> QED BY <2>1, <2>2
<1>4. ASSUME NEW n \in Tree!Nodes, Tree!Toggle(n)
      PROVE  TreeInv'
  <2>1. Tree!Shown' = Tree!Shown /\ UNCHANGED <<workspaces, bound, born>>
    BY <1>4 DEF Tree!Toggle, Tree!Shown
  <2>2. CASE Tree!IsOpen(n)
    BY <1>4, <2>1, <2>2, StaysOpen DEF TreeInv, Tree!Toggle
  <2>3. CASE ~Tree!IsOpen(n)
    <3>0. (~Tree!IsOpen(n)) = TRUE
      BY Zenon, <2>3
    <3>1. open' = Tree!SetOpen(open, {n}, TRUE) /\ (tucked' \/ ~tucked)
      BY Zenon, <1>4, <3>0 DEF Tree!Toggle
    <3>2. \A m : Tree!IsOpen(m) => Tree!IsOpen(m)'
      BY <3>1 DEF Tree!IsOpen, Tree!SetOpen
    <3> QED BY <2>1, <3>1, <3>2, StaysOpen DEF TreeInv
  <2> QED BY <2>2, <2>3
<1>5. CASE Tree!Again /\ UNCHANGED <<workspaces, bound, born, chosen>>
  BY <1>5, RevealOpens DEF TreeInv, Tree!Again
<1>6. CASE UNCHANGED <<workspaces, bound, born, chosen, open, tucked>>
  BY <1>6, StaysOpen DEF TreeInv, Tree!IsOpen, Tree!Shown
<1>7. CASE Tree!PushSessions \/ Tree!Reload
  BY Zenon, <1>5, <1>7 DEF Tree!PushSessions, Tree!Reload
<1>8. ASSUME NEW k \in Tree!Keys, Tree!Pin(k) \/ \E t \in Tree!Keys : Tree!Move(k, t)
      PROVE  TreeInv'
  BY Zenon, <1>5, <1>8 DEF Tree!Pin, Tree!Move
<1>9. ASSUME NEW w \in Workspaces, Tree!ToggleList(w)
      PROVE  TreeInv'
  BY <1>6, <1>9 DEF Tree!ToggleList
<1>10. CASE UNCHANGED Tree!vars
  BY <1>6, <1>10 DEF Tree!vars
<1> QED BY <1>1, <1>2, <1>3, <1>4, <1>7, <1>8, <1>9, <1>10 DEF Tree!Next

\* Positions in a sequence are numbers, and there are no more chats than that.
LEMMA ChatsAreFinite ==
  ASSUME Tree!SidebarAssumption
  PROVE  IsFiniteSet(Tree!ToSet(ChatOrder))
<1>0. ChatOrder \in Seq(Tree!ToSet(ChatOrder))
  BY DEF Tree!SidebarAssumption
<1>1. Tree!ToSet(ChatOrder) = {ChatOrder[i] : i \in DOMAIN ChatOrder}
  BY DEF Tree!ToSet
<1>2. Len(ChatOrder) \in Nat /\ DOMAIN ChatOrder = 1..Len(ChatOrder)
  BY <1>0
<1>3. IsFiniteSet(DOMAIN ChatOrder)
  BY <1>2, FS_Interval
<1>4. [i \in DOMAIN ChatOrder |-> ChatOrder[i]] \in Surjection(DOMAIN ChatOrder, Tree!ToSet(ChatOrder))
  BY <1>1 DEF Surjection
<1> QED BY <1>3, <1>4, FS_Surjection

LEMMA AtIsAPosition ==
  ASSUME Tree!SidebarAssumption, NEW c \in Tree!ToSet(ChatOrder)
  PROVE  Tree!At(c, ChatOrder) \in 1..Len(ChatOrder)
<1>0. ChatOrder \in Seq(Tree!ToSet(ChatOrder))
  BY DEF Tree!SidebarAssumption
<1>1. Tree!ToSet(ChatOrder) = {ChatOrder[i] : i \in DOMAIN ChatOrder}
  BY DEF Tree!ToSet
<1>2. DOMAIN ChatOrder = 1..Len(ChatOrder)
  BY <1>0
<1>3. \E i \in DOMAIN ChatOrder : ChatOrder[i] = c
  BY <1>1
<1>4. (CHOOSE i \in DOMAIN ChatOrder : ChatOrder[i] = c) \in DOMAIN ChatOrder
  BY <1>3
<1> QED BY <1>2, <1>4 DEF Tree!At

LEMMA LeastNumber ==
  ASSUME NEW T, T \subseteq Nat, T # {}
  PROVE  \E x \in T : \A y \in T : x <= y
<1> DEFINE Less == {p \in Nat \X Nat : p[1] < p[2]}
<1>1. IsWellFoundedOn(Less, Nat)
  <2>1. Less = OpToRel(<, Nat)
    BY DEF OpToRel
  <2> QED BY <2>1, NatLessThanWellFounded
<1>2. PICK x \in T : \A y \in T : ~(<<y, x>> \in Less)
  <2> HIDE DEF Less
  <2> QED BY <1>1, WFMin
<1>3. ASSUME NEW y \in T PROVE x <= y
  <2>1. x \in Nat /\ y \in Nat /\ ~(y < x)
    BY <1>2
  <2> QED BY <2>1
<1> QED BY <1>3

LEMMA OldestIsThere ==
  ASSUME Tree!SidebarAssumption, NEW S, S \subseteq Tree!ToSet(ChatOrder), S # {}
  PROVE  Tree!Oldest(S) \in S
<1> DEFINE N == Len(ChatOrder)
           behind == {N - Tree!At(c, ChatOrder) : c \in S}
<1>0. N \in Nat
  BY DEF Tree!SidebarAssumption
<1>1. \A c \in S : Tree!At(c, ChatOrder) \in 1..N
  BY AtIsAPosition
<1> HIDE DEF N
<1>2. behind \subseteq Nat /\ behind # {}
  BY <1>0, <1>1
<1>3. PICK b \in behind : \A a \in behind : b <= a
  <2> HIDE DEF behind
  <2> QED BY <1>2, LeastNumber
<1>4. PICK c \in S : b = N - Tree!At(c, ChatOrder)
  OBVIOUS
<1>5. ASSUME NEW d \in S PROVE Tree!At(d, ChatOrder) <= Tree!At(c, ChatOrder)
  <2>1. b <= N - Tree!At(d, ChatOrder)
    BY <1>3
  <2> QED BY <1>0, <1>1, <1>4, <2>1
<1> QED BY <1>5 DEF Tree!Oldest

LEMMA ShownIsBorn ==
  ASSUME Tree!SidebarAssumption, born \subseteq Tree!ToSet(ChatOrder), Tree!Shown # Nothing
  PROVE  Tree!Shown \in born
<1> DEFINE w == IF HomeOf(chosen) \in Tree!ToSet(workspaces) THEN HomeOf(chosen) ELSE workspaces[1]
           here == {c \in born : HomeOf(c) = w}
<1>1. CASE chosen \in born
  BY <1>1 DEF Tree!Shown, Tree!ShownChat
<1>2. CASE chosen \notin born /\ workspaces # <<>> /\ here # {}
  <2>1. Tree!Shown = Tree!Oldest(here)
    BY <1>2 DEF Tree!Shown, Tree!ShownChat
  <2> QED BY <1>2, <2>1, OldestIsThere
<1>3. CASE ~(chosen \in born) /\ ~(chosen \notin born /\ workspaces # <<>> /\ here # {})
  BY <1>3 DEF Tree!Shown, Tree!ShownChat
<1> QED BY <1>1, <1>2, <1>3

LEMMA SameCount ==
  ASSUME NEW S
  PROVE  Tree!Cardinality(S) = Cardinality(S)
  BY Zenon DEF Tree!Cardinality, Cardinality

LEMMA RowIsThere ==
  ASSUME Tree!SidebarAssumption, TreeInv
  PROVE  Tree!SelectedIsVisible
<1> SUFFICES ASSUME Tree!Shown # Nothing, HomeOf(Tree!Shown) \in Tree!ToSet(workspaces), ~tucked,
                    Tree!IsOpen(Tree!Projects)
             PROVE  Tree!Visible(Tree!Shown)
  BY DEF Tree!SelectedIsVisible, Tree!HasRow
<1>1. Tree!Shown \in born
  BY ShownIsBorn DEF TreeInv
<1>2. Tree!Place(Tree!Shown) \in Nat
  <2> DEFINE before == {x \in Tree!Siblings(Tree!Shown) : Tree!At(x, ChatOrder) <= Tree!At(Tree!Shown, ChatOrder)}
  <2>1. before \subseteq Tree!ToSet(ChatOrder)
    BY DEF TreeInv, Tree!Siblings
  <2>2. Cardinality(before) \in Nat
    BY <2>1, ChatsAreFinite, FS_Subset, FS_CardinalityType
  <2> QED BY <2>2, SameCount DEF Tree!Place
<1>3. Tree!InList(Tree!Shown)
  BY <1>1, <1>2 DEF Tree!InList, Tree!Siblings, Tree!SidebarAssumption
<1>4. WayOpen(Tree!Shown)
  BY DEF TreeInv, Revealed
<1> QED BY <1>3, <1>4 DEF WayOpen, Tree!Visible

\* The row of the chat shown can be seen, for any number of workspaces and chats.
LEMMA SeenRows == Tree!Spec => [](Tree!SidebarAssumption => Tree!SelectedIsVisible)
<1>1. Tree!Init => TreeInv
  <2> SUFFICES ASSUME Tree!Init PROVE TreeInv
    OBVIOUS
  <2>1. born = {} /\ workspaces = <<>>
    BY DEF Tree!Init
  <2>2. Tree!Shown = Nothing
    BY <2>1 DEF Tree!Shown, Tree!ShownChat
  <2> QED BY <2>1, <2>2 DEF TreeInv, Revealed
<1>2. TreeInv => (Tree!SidebarAssumption => Tree!SelectedIsVisible)
  BY RowIsThere
<1> QED BY <1>1, <1>2, TreeStep, PTL DEF Tree!Spec

-----------------------------------------------------------------------------
(* The whole.  A step is one of one part, and leaves the variables of the   *)
(* others alone: every behaviour of the whole is a behaviour of each part,  *)
(* so that the whole keeps what its parts keep.                             *)

\* A part takes its step, or its variables are left alone.
WindowTurn ==
  /\ Panes!Next \/ UNCHANGED panesVars
  /\ Layout!Next \/ UNCHANGED layoutVars
  /\ Tree!Next \/ UNCHANGED treeVars
  /\ Editor!Next \/ UNCHANGED editorVars
  /\ Work!Next \/ UNCHANGED workVars
  /\ Chat!Next \/ UNCHANGED chatVars
  /\ Palette!Next \/ UNCHANGED paletteVars
  /\ Search!Next \/ UNCHANGED searchVars

LEMMA WindowSteps ==
  ASSUME [Next]_vars
  PROVE  WindowTurn
<1>1. CASE Of("panes", Panes!Next)
  BY <1>1 DEF Of, WindowTurn
<1>2. CASE Of("layout", Layout!Next)
  BY <1>2 DEF Of, WindowTurn
<1>3. CASE Of("tree", Tree!Next)
  BY <1>3 DEF Of, WindowTurn
<1>4. CASE Of("editor", Editor!Next)
  BY <1>4 DEF Of, WindowTurn
<1>5. CASE Of("work", Work!Next)
  BY <1>5 DEF Of, WindowTurn
<1>6. CASE Of("chat", Chat!Next)
  BY <1>6 DEF Of, WindowTurn
<1>7. CASE Of("palette", Palette!Next)
  BY <1>7 DEF Of, WindowTurn
<1>8. CASE Of("git", Git!Next)
  BY <1>8 DEF Of, WindowTurn
<1>9. CASE Of("search", Search!Next)
  BY <1>9 DEF Of, WindowTurn
<1>10. CASE UNCHANGED vars
  BY <1>10 DEF vars, WindowTurn
<1> QED BY <1>1, <1>2, <1>3, <1>4, <1>5, <1>6, <1>7, <1>8, <1>9, <1>10 DEF Next

LEMMA WindowBehaves ==
  Spec => /\ Panes!Spec /\ Layout!Spec /\ Editor!Spec /\ Work!Spec /\ Chat!Spec
                /\ Palette!Spec /\ Search!Spec /\ Tree!Spec
<1>1. [Next]_vars => [Panes!Next]_(Panes!vars)
  BY WindowSteps DEF WindowTurn, panesVars, Panes!vars, Panes!mainVars, Panes!windowVars
<1>2. [Next]_vars => [Layout!Next]_(Layout!vars)
  BY WindowSteps DEF WindowTurn, layoutVars, Layout!vars, Layout!layoutVars, Layout!pickVars
<1>3. [Next]_vars => [Editor!Next]_(Editor!vars)
  BY WindowSteps DEF WindowTurn, editorVars, Editor!vars
<1>4. [Next]_vars => [Work!Next]_(Work!vars)
  BY WindowSteps DEF WindowTurn, workVars, Work!vars, Work!store, Work!reads, Work!pane
<1>5. [Next]_vars => [Chat!Next]_(Chat!vars)
  BY WindowSteps DEF WindowTurn, chatVars, Chat!vars, Chat!world, Chat!composer, Chat!picker
<1>6. [Next]_vars => [Palette!Next]_(Palette!vars)
  BY WindowSteps DEF WindowTurn, paletteVars, Palette!vars, Palette!worldVars, Palette!palette
<1>7. [Next]_vars => [Search!Next]_(Search!vars)
  BY WindowSteps DEF WindowTurn, searchVars, Search!vars
<1>8. [Next]_vars => [Tree!Next]_(Tree!vars)
  BY WindowSteps DEF WindowTurn, treeVars, Tree!vars
<1> QED BY <1>1, <1>2, <1>3, <1>4, <1>5, <1>6, <1>7, <1>8, PTL
        DEF Spec, Init, Panes!Spec, Layout!Spec, Editor!Spec, Work!Spec, Chat!Spec, Palette!Spec,
            Search!Spec, Tree!Spec

\* However launches, resumes, adoptions, exits, reloads and late answers of calls cross,
\* no two panes show one session, the terminal region names an open pane, and a bound
\* pane shows what its session wrote since it was opened, once and in order, but for the
\* chunks it reports as dropped, which are more than the cap together with those it kept.
THEOREM PanesStayFaithful == Spec => []PanesAreFaithful
<1>1. (Panes!SessionsAssumption => Panes!PanesAreFaithful) => PanesAreFaithful
  BY WindowAssumption DEF PanesAreFaithful
<1> QED BY <1>1, WindowBehaves, FaithfulPanes, PTL

\* However detection, new lists, reloads and gestures regroup the tree, the row of the
\* chat shown can be seen in it while the section of all projects is open, unless the user
\* closed a node since it was revealed or its workspace was archived.
THEOREM SelectedStaysVisible == Spec => []SelectedIsVisible
<1>1. (Tree!SidebarAssumption => Tree!SelectedIsVisible) => SelectedIsVisible
  BY WindowAssumption DEF SelectedIsVisible
<1> QED BY <1>1, WindowBehaves, SeenRows, PTL

\* In whatever order the loads and the searches are answered, the palette offers targets
\* of the command it shows, and the panel hits of the draft it shows.
THEOREM LateAnswersStayOut == Spec => []LateAnswersAreDropped
<1>1. (Search!PanelAssumption => LateAnswersAreDropped) => LateAnswersAreDropped
  BY WindowAssumption
<1> QED BY <1>1, WindowBehaves, LateAnswers, PTL

\* Whatever is typed, picked and restored, and however late lists and failures arrive, a
\* pick replaces the mention alone, the files are the workspace's and a prompt goes to a
\* session of its chat.
THEOREM ComposerStaysTrue == Spec => []ComposerIsTrue
<1>1. (Chat!ChatPaneAssumption => ComposerIsTrue) => ComposerIsTrue
  BY WindowAssumption
<1> QED BY <1>1, WindowBehaves, TrueComposer, PTL

\* Whatever agents write between two reads of a refresh, a work pane at rest shows what is
\* stored, and a tab without the unsaved mark shows a text that was on disk.
THEOREM ShownStaysCurrent == Spec => []ShownIsCurrent
BY WindowBehaves, CurrentPanes, PTL

=============================================================================
