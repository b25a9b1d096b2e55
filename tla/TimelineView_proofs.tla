------------------------- MODULE TimelineView_proofs -------------------------
(***************************************************************************)
(* Proofs about TimelineView, for any sessions, log and number of fetches. *)
(*                                                                         *)
(* The events of a fetch or of a poll go through a recursive function over *)
(* their numbers.  What holds of such a function is shown by induction on  *)
(* the number, which LeastNumber gives for sets of numbers: MergedIn says  *)
(* that whatever adding an event preserves, merging a list establishes.    *)
(* On it rest the three properties: types; where the entries of the page,  *)
(* the events under way and the fetches belong (BelongInv); and which text *)
(* an entry has (TextInv).                                                 *)
(***************************************************************************)
EXTENDS TimelineView, SequenceTheorems, WellFoundedInduction, TLAPS

-----------------------------------------------------------------------------
(* Induction over numbers, and the two recursive functions *)

\* Every nonempty set of natural numbers has a least one.
LEMMA LeastNumber ==
  ASSUME NEW S \in SUBSET Nat, S # {}
  PROVE  \E m \in S : \A n \in Nat : n < m => n \notin S
<1> DEFINE Less == {p \in Nat \X Nat : p[1] < p[2]}
<1>1. IsWellFoundedOn(Less, Nat)
  BY NatLessThanWellFounded DEF OpToRel
<1>2. PICK m \in S : \A n \in S : <<n, m>> \notin Less
  BY <1>1, WFMin
<1> QED
  BY <1>2

\* A set that holds 0 and with each number the next holds them all.
LEMMA AllNumbers ==
  ASSUME NEW S, 0 \in S, \A n \in Nat : n \in S => n + 1 \in S
  PROVE  Nat \subseteq S
<1> SUFFICES ASSUME Nat \ S # {} PROVE FALSE
  OBVIOUS
<1>1. PICK m \in Nat \ S : \A n \in Nat : n < m => n \notin Nat \ S
  BY LeastNumber
<1>2. m - 1 \in Nat /\ m - 1 < m /\ m = (m - 1) + 1
  BY <1>1
<1> QED
  BY <1>1, <1>2

\* The functions upTo of MergeEvents and Ascending, as far as n.
MergesTo(g, n, ids) ==
  g = [k \in 0..n |-> IF k = 0 THEN {}
                      ELSE IF k \in ids THEN AddEvent(g[k - 1], Raw(k))
                      ELSE g[k - 1]]

AscendsTo(g, n, ids) ==
  g = [k \in 0..n |-> IF k = 0 THEN <<>>
                      ELSE IF k \in ids THEN Append(g[k - 1], k)
                      ELSE g[k - 1]]

\* There is one: each number has a value that depends on the one before it.
LEMMA MergesExist ==
  ASSUME NEW ids, NEW n \in Nat PROVE \E g : MergesTo(g, n, ids)
<1> DEFINE S == {k \in Nat : \E g : MergesTo(g, k, ids)}
<1>1. 0 \in S
  <2> DEFINE z == [k \in 0..0 |-> {}]
  <2>1. z = [k \in 0..0 |-> IF k = 0 THEN {}
                            ELSE IF k \in ids THEN AddEvent(z[k - 1], Raw(k))
                            ELSE z[k - 1]]
    OBVIOUS
  <2> QED
    BY <2>1 DEF MergesTo
<1>2. ASSUME NEW m \in Nat, m \in S PROVE m + 1 \in S
  <2>1. PICK g : MergesTo(g, m, ids)
    BY <1>2
  <2> DEFINE last == IF m + 1 \in ids THEN AddEvent(g[m], Raw(m + 1)) ELSE g[m]
             h == [k \in 0..(m + 1) |-> IF k = m + 1 THEN last ELSE g[k]]
  <2>2. h[m + 1] = last /\ \A k \in 0..m : h[k] = g[k]
    OBVIOUS
  <2>3. g[0] = {} /\ \A k \in 1..m :
          g[k] = IF k \in ids THEN AddEvent(g[k - 1], Raw(k)) ELSE g[k - 1]
    <3>1. \A k \in 0..m : g[k] = IF k = 0 THEN {}
                                 ELSE IF k \in ids THEN AddEvent(g[k - 1], Raw(k))
                                 ELSE g[k - 1]
      BY <2>1, Zenon DEF MergesTo
    <3>2. 0 \in 0..m /\ \A k \in 1..m : k \in 0..m /\ k # 0
      OBVIOUS
    <3> QED
      BY <3>1, <3>2, Zenon
  <2> HIDE DEF h
  <2>4. \A k \in 0..(m + 1) :
          h[k] = IF k = 0 THEN {}
                 ELSE IF k \in ids THEN AddEvent(h[k - 1], Raw(k)) ELSE h[k - 1]
    <3> TAKE k \in 0..(m + 1)
    <3>1. CASE k = 0
      BY <3>1, <2>2, <2>3
    <3>2. CASE k \in 1..m
      <4>1. h[k] = g[k] /\ h[k - 1] = g[k - 1]
        BY <3>2, <2>2
      <4> QED
        BY <4>1, <2>3, <3>2
    <3>3. CASE k = m + 1
      BY <3>3, <2>2
    <3> QED
      BY <3>1, <3>2, <3>3
  <2>5. h = [k \in 0..(m + 1) |-> h[k]]
    BY DEF h
  <2>6. MergesTo(h, m + 1, ids)
    BY <2>4, <2>5 DEF MergesTo
  <2> QED
    BY <2>6
<1> HIDE DEF S
<1>3. Nat \subseteq S
  BY <1>1, <1>2, AllNumbers
<1> QED
  BY <1>3 DEF S
\* The same of Ascending.
LEMMA AscendsExist ==
  ASSUME NEW ids, NEW n \in Nat PROVE \E g : AscendsTo(g, n, ids)
<1> DEFINE S == {k \in Nat : \E g : AscendsTo(g, k, ids)}
<1>1. 0 \in S
  <2> DEFINE z == [k \in 0..0 |-> <<>>]
  <2>1. z = [k \in 0..0 |-> IF k = 0 THEN <<>>
                            ELSE IF k \in ids THEN Append(z[k - 1], k)
                            ELSE z[k - 1]]
    OBVIOUS
  <2> QED
    BY <2>1 DEF AscendsTo
<1>2. ASSUME NEW m \in Nat, m \in S PROVE m + 1 \in S
  <2>1. PICK g : AscendsTo(g, m, ids)
    BY <1>2
  <2> DEFINE last == IF m + 1 \in ids THEN Append(g[m], m + 1) ELSE g[m]
             h == [k \in 0..(m + 1) |-> IF k = m + 1 THEN last ELSE g[k]]
  <2>2. h[m + 1] = last /\ \A k \in 0..m : h[k] = g[k]
    OBVIOUS
  <2>3. g[0] = <<>> /\ \A k \in 1..m :
          g[k] = IF k \in ids THEN Append(g[k - 1], k) ELSE g[k - 1]
    <3>1. \A k \in 0..m : g[k] = IF k = 0 THEN <<>>
                                 ELSE IF k \in ids THEN Append(g[k - 1], k)
                                 ELSE g[k - 1]
      BY <2>1, Zenon DEF AscendsTo
    <3>2. 0 \in 0..m /\ \A k \in 1..m : k \in 0..m /\ k # 0
      OBVIOUS
    <3> QED
      BY <3>1, <3>2, Zenon
  <2> HIDE DEF h
  <2>4. \A k \in 0..(m + 1) :
          h[k] = IF k = 0 THEN <<>>
                 ELSE IF k \in ids THEN Append(h[k - 1], k) ELSE h[k - 1]
    <3> TAKE k \in 0..(m + 1)
    <3>1. CASE k = 0
      BY <3>1, <2>2, <2>3
    <3>2. CASE k \in 1..m
      <4>1. h[k] = g[k] /\ h[k - 1] = g[k - 1]
        BY <3>2, <2>2
      <4> QED
        BY <4>1, <2>3, <3>2
    <3>3. CASE k = m + 1
      BY <3>3, <2>2
    <3> QED
      BY <3>1, <3>2, <3>3
  <2>5. h = [k \in 0..(m + 1) |-> h[k]]
    BY DEF h
  <2>6. AscendsTo(h, m + 1, ids)
    BY <2>4, <2>5 DEF AscendsTo
  <2> QED
    BY <2>6
<1> HIDE DEF S
<1>3. Nat \subseteq S
  BY <1>1, <1>2, AllNumbers
<1> QED
  BY <1>3 DEF S

\* Whatever holds of no entries and is preserved when one of the events is
\* added holds of what mergeAcpEvents makes of them all.
LEMMA MergedIn ==
  ASSUME NEW ids, NEW Good, {} \in Good,
         \A es \in Good : \A n \in Ids \cap ids : AddEvent(es, Raw(n)) \in Good
  PROVE  MergeEvents(ids) \in Good
<1>1. Len(Log) \in Nat
  BY LogAssumption
<1> DEFINE f == CHOOSE g : MergesTo(g, Len(Log), ids)
<1>2. MergeEvents(ids) = f[Len(Log)]
  BY DEF MergeEvents, MergesTo
<1>3. MergesTo(f, Len(Log), ids)
  BY <1>1, MergesExist
<1> HIDE DEF f
<1>4. \A k \in 0..Len(Log) :
        f[k] = IF k = 0 THEN {}
               ELSE IF k \in ids THEN AddEvent(f[k - 1], Raw(k)) ELSE f[k - 1]
  BY <1>3, Zenon DEF MergesTo
<1> DEFINE S == {k \in Nat : k <= Len(Log) => f[k] \in Good}
<1>5. 0 \in S
  <2>1. 0 \in 0..Len(Log)
    BY <1>1
  <2> QED
    BY <1>4, <2>1
<1>6. ASSUME NEW k \in Nat, k \in S PROVE k + 1 \in S
  <2> SUFFICES ASSUME k + 1 <= Len(Log) PROVE f[k + 1] \in Good
    OBVIOUS
  <2>1. k + 1 \in 0..Len(Log) /\ k + 1 # 0 /\ (k + 1) - 1 = k /\ k + 1 \in Ids /\ k <= Len(Log)
    BY <1>1 DEF Ids
  <2>2. f[k + 1] = IF k + 1 \in ids THEN AddEvent(f[k], Raw(k + 1)) ELSE f[k]
    BY <1>4, <2>1
  <2>3. f[k] \in Good
    BY <1>6, <2>1
  <2> QED
    BY <2>1, <2>2, <2>3
<1> HIDE DEF S
<1>7. Nat \subseteq S
  BY <1>5, <1>6, AllNumbers
<1> QED
  BY <1>1, <1>2, <1>7 DEF S

\* The answer to a poll is a sequence of the events asked for, and has some if
\* there are any.
LEMMA AscendingIn ==
  ASSUME NEW ids \in SUBSET Ids
  PROVE  Ascending(ids) \in Seq(ids) /\ (ids # {} => Ascending(ids) # <<>>)
<1>1. Len(Log) \in Nat
  BY LogAssumption
<1> DEFINE f == CHOOSE g : AscendsTo(g, Len(Log), ids)
<1>2. Ascending(ids) = f[Len(Log)]
  BY DEF Ascending, AscendsTo
<1>3. AscendsTo(f, Len(Log), ids)
  BY <1>1, AscendsExist
<1> HIDE DEF f
<1>4. \A k \in 0..Len(Log) :
        f[k] = IF k = 0 THEN <<>>
               ELSE IF k \in ids THEN Append(f[k - 1], k) ELSE f[k - 1]
  BY <1>3, Zenon DEF AscendsTo
<1> DEFINE Fine(k) == f[k] \in Seq(ids) /\ \A m \in ids : m <= k => f[k] # <<>>
           S == {k \in Nat : k <= Len(Log) => Fine(k)}
<1>5. 0 \in S
  <2>1. 0 \in 0..Len(Log) /\ \A m \in ids : ~ (m <= 0)
    BY <1>1 DEF Ids
  <2> QED
    BY <1>4, <2>1, EmptySeq
<1>6. ASSUME NEW k \in Nat, k \in S PROVE k + 1 \in S
  <2> SUFFICES ASSUME k + 1 <= Len(Log) PROVE Fine(k + 1)
    OBVIOUS
  <2>1. k + 1 \in 0..Len(Log) /\ k + 1 # 0 /\ (k + 1) - 1 = k /\ k <= Len(Log)
    BY <1>1
  <2>2. f[k + 1] = IF k + 1 \in ids THEN Append(f[k], k + 1) ELSE f[k]
    BY <1>4, <2>1
  <2>3. Fine(k)
    BY <1>6, <2>1
  <2>4. CASE k + 1 \in ids
    <3>1. Append(f[k], k + 1) \in Seq(ids) /\ Append(f[k], k + 1) # <<>>
      BY <2>3, <2>4, AppendProperties
    <3> QED
      BY <3>1, <2>2, <2>4
  <2>5. CASE k + 1 \notin ids
    <3>1. \A m \in ids : m <= k + 1 => m <= k
      BY <2>5 DEF Ids
    <3> QED
      BY <3>1, <2>2, <2>3, <2>5
  <2> QED
    BY <2>4, <2>5
<1> HIDE DEF S
<1>7. Nat \subseteq S
  BY <1>5, <1>6, AllNumbers
<1>8. Fine(Len(Log))
  BY <1>1, <1>7 DEF S
<1>9. \A m \in ids : m <= Len(Log)
  BY DEF Ids
<1> QED
  BY <1>2, <1>8, <1>9

-----------------------------------------------------------------------------
(* Entries *)

\* One entry for each merge id.
OneEach(es) == \A x, y \in es : MergeId(x) = MergeId(y) => x = y

\* Every entry is that of an event of the log, but for its text.
Recorded == {x \in Entries : /\ x.session = Log[x.seq].session
                             /\ x.family = Log[x.seq].family
                             /\ x.message = Log[x.seq].message}

Pages == {es \in SUBSET Recorded : OneEach(es)}

\* The event as it comes is an entry.
LEMMA RawRecorded ==
  ASSUME NEW n \in Ids PROVE Raw(n) \in Recorded
BY LogAssumption DEF Raw, Recorded, Entries

\* Two texts, or one of them, are a text.
LEMMA JoinTextsType ==
  ASSUME NEW s \in Seq(STRING), NEW t \in Seq(STRING), NEW b \in BOOLEAN
  PROVE  JoinTexts(s, t, b) \in Seq(STRING)
BY ConcatProperties DEF JoinTexts

\* An entry and an event of the same merge id have an entry of that id.
LEMMA MergeIntoType ==
  ASSUME NEW x \in Recorded, NEW e \in Recorded, MergeId(x) = MergeId(e)
  PROVE  /\ MergeInto(x, e) \in Recorded
         /\ MergeId(MergeInto(x, e)) = MergeId(e)
         /\ MergeInto(x, e).session \in {x.session, e.session}
<1>1. PICK t \in Seq(STRING) :
        MergeInto(x, e) = [x EXCEPT !.text = t] \/ MergeInto(x, e) = [e EXCEPT !.text = t]
  <2>1. x.seq \in Nat /\ e.seq \in Nat /\ x.text \in Seq(STRING) /\ e.text \in Seq(STRING)
    BY DEF Recorded, Entries, Ids
  <2>2. /\ JoinTexts(x.text, e.text, FALSE) \in Seq(STRING)
        /\ JoinTexts(e.text, x.text, TRUE) \in Seq(STRING)
    BY <2>1, JoinTextsType
  <2>3. CASE x.seq = e.seq
    BY <2>1, <2>3 DEF MergeInto
  <2>4. CASE x.seq < e.seq
    BY <2>1, <2>2, <2>4 DEF MergeInto
  <2>5. CASE e.seq < x.seq
    BY <2>1, <2>2, <2>5 DEF MergeInto
  <2> QED
    BY <2>1, <2>3, <2>4, <2>5
<1>2. ASSUME NEW y \in Recorded
      PROVE  /\ [y EXCEPT !.text = t] \in Recorded
             /\ MergeId([y EXCEPT !.text = t]) = MergeId(y)
             /\ [y EXCEPT !.text = t].session = y.session
  BY DEF Recorded, Entries, MergeId
<1> QED
  BY <1>1, <1>2

\* Adding an event: it takes the place of the entry that has its merge id.
LEMMA AddEventShape ==
  ASSUME NEW es \in Pages, NEW n \in Ids
  PROVE  \/ /\ \A x \in es : MergeId(x) # MergeId(Raw(n))
            /\ AddEvent(es, Raw(n)) = es \cup {Raw(n)}
         \/ \E x \in es : /\ MergeId(x) = MergeId(Raw(n))
                          /\ AddEvent(es, Raw(n)) = (es \ {x}) \cup {MergeInto(x, Raw(n))}
<1> DEFINE same == {x \in es : MergeId(x) = MergeId(Raw(n))}
<1>1. AddEvent(es, Raw(n)) =
        (es \ same) \cup (IF same = {} THEN {Raw(n)} ELSE {MergeInto(x, Raw(n)) : x \in same})
  BY DEF AddEvent
<1>2. CASE same = {}
  BY <1>1, <1>2
<1>3. CASE same # {}
  <2>1. PICK x \in es : x \in same
    BY <1>3
  <2>2. same = {x}
    BY <2>1 DEF Pages, OneEach
  <2> HIDE DEF same
  <2>3. {MergeInto(y, Raw(n)) : y \in same} = {MergeInto(x, Raw(n))}
    BY <2>2
  <2>4. AddEvent(es, Raw(n)) = (es \ {x}) \cup {MergeInto(x, Raw(n))}
    BY <1>1, <1>3, <2>2, <2>3
  <2>5. MergeId(x) = MergeId(Raw(n))
    BY <2>1 DEF same
  <2> QED
    BY <2>4, <2>5
<1> QED
  BY <1>2, <1>3

\* ... and the page stays one.
LEMMA AddEventType ==
  ASSUME NEW es \in Pages, NEW n \in Ids
  PROVE  AddEvent(es, Raw(n)) \in Pages
<1>1. Raw(n) \in Recorded /\ es \subseteq Recorded /\ OneEach(es)
  BY RawRecorded DEF Pages
<1>2. CASE /\ \A x \in es : MergeId(x) # MergeId(Raw(n))
           /\ AddEvent(es, Raw(n)) = es \cup {Raw(n)}
  BY <1>1, <1>2 DEF Pages, OneEach
<1>3. ASSUME NEW x \in es, MergeId(x) = MergeId(Raw(n)),
             AddEvent(es, Raw(n)) = (es \ {x}) \cup {MergeInto(x, Raw(n))}
      PROVE  AddEvent(es, Raw(n)) \in Pages
  <2> DEFINE z == MergeInto(x, Raw(n))
  <2>1. z \in Recorded /\ MergeId(z) = MergeId(x)
    BY <1>1, <1>3, MergeIntoType
  <2> HIDE DEF z
  <2>2. OneEach((es \ {x}) \cup {z})
    BY <1>1, <2>1 DEF OneEach
  <2> QED
    BY <1>1, <1>3, <2>1, <2>2 DEF Pages, z
<1> QED
  BY <1>2, <1>3, AddEventShape

LEMMA MergeEventsType ==
  ASSUME NEW ids PROVE MergeEvents(ids) \in Pages
<1>1. {} \in Pages
  BY DEF Pages, OneEach
<1> QED
  BY <1>1, AddEventType, MergedIn

-----------------------------------------------------------------------------
(* Types *)

FetchRecords == [phase : {"none", "issued", "answered"}, owner : {"hook", "user"},
                 session : Sessions \cup {NoSession}, ids : SUBSET Ids]

\* TypeOK, and that the entries of the page were events.
TypeInv ==
  /\ inserted \in 0..Len(Log)
  /\ committed \subseteq 1..inserted
  /\ active \in Sessions \cup {NoSession}
  /\ page \in Pages
  /\ conn \in {"off", "open", "backoff"}
  /\ sent \in 0..Len(Log)
  /\ wire \in Seq(Ids)
  /\ fetch \in [Fetches -> FetchRecords]

LEMMA TypeInvImplies == TypeInv => TypeOK
BY DEF TypeInv, TypeOK, Pages, OneEach, Recorded, FetchRecords

\* The events that can be read are events.
LEMMA VisibleType ==
  ASSUME TypeInv, NEW s, NEW a PROVE Visible(s, a) \in SUBSET Ids
<1>1. committed \subseteq Ids
  <2>1. inserted \in Nat /\ inserted <= Len(Log) /\ Len(Log) \in Nat
    BY LogAssumption DEF TypeInv
  <2> QED
    BY <2>1 DEF TypeInv, Ids
<1> QED
  BY <1>1 DEF Visible

\* A new request leaves the others alone.
LEMMA WithFetchType ==
  ASSUME NEW q \in [Fetches -> FetchRecords], NEW s \in Sessions \cup {NoSession},
         NEW o \in {"hook", "user"}
  PROVE  /\ WithFetch(q, s, o) \in [Fetches -> FetchRecords]
         /\ \A f \in Fetches :
              \/ WithFetch(q, s, o)[f] = q[f]
              \/ WithFetch(q, s, o)[f] =
                   [phase |-> "issued", owner |-> o, session |-> s, ids |-> {}]
BY DEF WithFetch, FetchRecords

\* The cleanup of an effect leaves no request of the hook.
LEMMA DiscardType ==
  ASSUME NEW q \in [Fetches -> FetchRecords]
  PROVE  /\ DiscardHookFetches(q) \in [Fetches -> FetchRecords]
         /\ \A f \in Fetches :
              \/ DiscardHookFetches(q)[f] = NoFetch
              \/ DiscardHookFetches(q)[f] = q[f] /\ q[f].owner # "hook"
BY DEF DiscardHookFetches, FetchRecords, NoFetch

\* What a cycle of the stream sends.
LEMMA PollType ==
  ASSUME TypeInv, Poll
  PROVE  \E new \in Seq(Visible(active, sent)) :
           wire' = wire \o new /\ new # <<>> /\ sent' \in Visible(active, sent)
<1> DEFINE new == Ascending(Visible(active, sent))
<1>1. new \in Seq(Visible(active, sent)) /\ new # <<>>
  BY VisibleType, AscendingIn DEF Poll
<1>2. wire' = wire \o new /\ sent' = new[Len(new)]
  BY DEF Poll
<1> HIDE DEF new
<1>3. Len(new) \in 1..Len(new) /\ new[Len(new)] \in Visible(active, sent)
  BY <1>1, EmptySeq, LenProperties, ElementOfSeq
<1> QED
  BY <1>1, <1>2, <1>3

\* The events on their way, after the first has been received.
LEMMA WireType ==
  ASSUME TypeInv, wire # <<>>
  PROVE  /\ Head(wire) \in Ids /\ Tail(wire) \in Seq(Ids)
         /\ Len(wire) \in Nat \ {0} /\ Len(Tail(wire)) = Len(wire) - 1
         /\ \A i \in 1..Len(Tail(wire)) : i + 1 \in 1..Len(wire) /\ Tail(wire)[i] = wire[i + 1]
         /\ Head(wire) = wire[1]
BY HeadTailProperties, LenProperties, EmptySeq DEF TypeInv

LEMMA TypeInit == Init => TypeInv
BY LogAssumption
DEF Init, TypeInv, Pages, OneEach, NoFetch, FetchRecords

LEMMA TypeNext == TypeInv /\ [Next]_vars => TypeInv'
<1> SUFFICES ASSUME TypeInv, [Next]_vars PROVE TypeInv'
  OBVIOUS
<1> USE DEF TypeInv
<1>0. Len(Log) \in Nat /\ active \in Sessions \cup {NoSession} /\ Ids = 1..Len(Log)
  BY LogAssumption DEF Ids
<1>1. CASE Insert
  BY <1>0, <1>1 DEF Insert, streamVars
<1>2. CASE \E n \in Ids : Commit(n)
  BY <1>0, <1>2 DEF Commit, streamVars
<1>3. CASE Poll
  <2>1. PICK new \in Seq(Visible(active, sent)) :
          wire' = wire \o new /\ sent' \in Visible(active, sent)
    BY <1>3, PollType
  <2>2. Visible(active, sent) \in SUBSET Ids
    BY VisibleType
  <2>3. new \in Seq(Ids) /\ sent' \in Ids
    BY <2>1, <2>2, SeqMonotonic
  <2>4. wire' \in Seq(Ids)
    BY <2>1, <2>3, ConcatProperties
  <2>5. UNCHANGED <<logVars, active, page, conn, fetch>>
    BY <1>3 DEF Poll
  <2> QED
    BY <1>0, <2>3, <2>4, <2>5 DEF logVars
<1>4. CASE \E s \in Sessions \cup {NoSession} : SwitchSession(s)
  <2>1. PICK s \in Sessions \cup {NoSession} : SwitchSession(s)
    BY <1>4
  <2>2. /\ UNCHANGED logVars /\ active' = s /\ sent' = 0 /\ wire' = <<>>
        /\ \/ page' = {} /\ conn' = "off" /\ fetch' = DiscardHookFetches(fetch)
           \/ /\ page' = page /\ conn' = "open"
              /\ fetch' = WithFetch(DiscardHookFetches(fetch), s, "hook")
    BY <2>1, Zenon DEF SwitchSession
  <2>3. fetch' \in [Fetches -> FetchRecords]
    <3>1. DiscardHookFetches(fetch) \in [Fetches -> FetchRecords]
      BY DiscardType
    <3>2. WithFetch(DiscardHookFetches(fetch), s, "hook") \in [Fetches -> FetchRecords]
      BY <3>1, WithFetchType
    <3> QED
      BY <2>2, <3>1, <3>2
  <2>4. page' \in Pages
    BY <2>2 DEF Pages, OneEach
  <2> QED
    BY <1>0, <2>2, <2>3, <2>4, EmptySeq DEF logVars
<1>5. CASE ReceiveEvent
  <2>1. wire # <<>> /\ wire' = Tail(wire) /\ page' = AddEvent(page, Raw(Head(wire)))
        /\ fetch' \in {fetch, WithFetch(fetch, active, "hook")}
        /\ UNCHANGED <<logVars, active, conn, sent>>
    BY <1>5 DEF ReceiveEvent
  <2>2. page' \in Pages /\ wire' \in Seq(Ids)
    BY <2>1, WireType, AddEventType
  <2>3. fetch' \in [Fetches -> FetchRecords]
    BY <2>1, WithFetchType
  <2> QED
    BY <1>0, <2>1, <2>2, <2>3 DEF logVars
<1>6. CASE StreamEnds
  <2>1. fetch' \in [Fetches -> FetchRecords]
    BY <1>6, WithFetchType DEF StreamEnds
  <2> QED
    BY <1>0, <1>6, <2>1, EmptySeq DEF StreamEnds, logVars
<1>7. CASE Reconnect
  BY <1>0, <1>7 DEF Reconnect, logVars
<1>8. CASE Refresh
  <2>1. fetch' \in [Fetches -> FetchRecords]
    BY <1>8, WithFetchType DEF Refresh
  <2> QED
    BY <1>0, <1>8, <2>1 DEF Refresh, logVars, streamVars
<1>9. CASE \E f \in Fetches : AnswerFetch(f)
  <2>1. PICK f \in Fetches : AnswerFetch(f)
    BY <1>9
  <2>2. Visible(fetch[f].session, 0) \in SUBSET Ids
    BY VisibleType
  <2>3. fetch' = [fetch EXCEPT ![f].phase = "answered", ![f].ids = Visible(fetch[f].session, 0)]
        /\ UNCHANGED <<logVars, active, page, streamVars>>
    BY <2>1 DEF AnswerFetch
  <2>4. fetch' \in [Fetches -> FetchRecords]
    BY <2>2, <2>3 DEF FetchRecords
  <2> QED
    BY <1>0, <2>3, <2>4 DEF logVars, streamVars
<1>10. CASE \E f \in Fetches : ApplyFetch(f)
  <2>1. PICK f \in Fetches : ApplyFetch(f)
    BY <1>10
  <2>2. page' \in Pages
    BY <2>1, MergeEventsType DEF ApplyFetch
  <2>3. fetch' \in [Fetches -> FetchRecords]
    BY <2>1 DEF ApplyFetch, NoFetch, FetchRecords
  <2> QED
    BY <1>0, <2>1, <2>2, <2>3 DEF ApplyFetch, logVars, streamVars
<1>11. CASE \E f \in Fetches : FailFetch(f)
  <2>1. PICK f \in Fetches : FailFetch(f)
    BY <1>11
  <2>2. fetch' \in [Fetches -> FetchRecords]
    BY <2>1 DEF FailFetch, NoFetch, FetchRecords
  <2> QED
    BY <1>0, <2>1, <2>2 DEF FailFetch, logVars, streamVars
<1>12. CASE UNCHANGED vars
  BY <1>0, <1>12 DEF vars, logVars, streamVars
<1> QED
  BY <1>1, <1>2, <1>3, <1>4, <1>5, <1>6, <1>7, <1>8, <1>9, <1>10, <1>11, <1>12 DEF Next

\* The events, the stream, the fetches and the page have their types, and the
\* page has one entry for each message and each other event.
THEOREM TypesCorrect == Spec => []TypeOK
<1>1. Spec => []TypeInv
  BY TypeInit, TypeNext, PTL DEF Spec
<1> QED
  BY <1>1, TypeInvImplies, PTL

-----------------------------------------------------------------------------
(* Sessions *)

\* What is on its way belongs to the session shown: the events of the stream and
\* the fetches of the effects, which are discarded when it changes; and every
\* fetch brings the events of its own session.
BelongInv ==
  /\ \A i \in 1..Len(wire) : Log[wire[i]].session = active
  /\ \A f \in Fetches : fetch[f].phase # "none" /\ fetch[f].owner = "hook"
                          => fetch[f].session = active
  /\ \A f \in Fetches : \A n \in fetch[f].ids : Log[n].session = fetch[f].session

\* A message id is used in one session only.  The ids of the runtimes contain
\* that of the session or come from the conversation.
MessagesApart ==
  \A m, n \in Ids :
    Log[m].family = "message" /\ Log[n].family = "message"
      /\ Log[m].message = Log[n].message /\ Log[n].message # NoMessage
      => Log[m].session = Log[n].session

LEMMA BelongInit == Init => BelongInv
BY EmptySeq DEF Init, BelongInv, NoFetch

\* The conjuncts about fetches, when they change.
LEMMA FetchesBelong ==
  ASSUME TypeInv, BelongInv, fetch' \in [Fetches -> FetchRecords],
         \A f \in Fetches :
           \/ active' = active /\ fetch'[f] = fetch[f]
           \/ fetch[f].owner # "hook" /\ fetch'[f] = fetch[f]
           \/ fetch'[f] = NoFetch
           \/ /\ fetch'[f].session = active'
              /\ \A n \in fetch'[f].ids : Log[n].session = fetch'[f].session
           \/ /\ active' = active /\ fetch'[f].owner = fetch[f].owner
              /\ fetch[f].phase # "none" /\ fetch'[f].session = fetch[f].session
              /\ \A n \in fetch'[f].ids : Log[n].session = fetch'[f].session
  PROVE  /\ \A f \in Fetches : fetch'[f].phase # "none" /\ fetch'[f].owner = "hook"
                                 => fetch'[f].session = active'
         /\ \A f \in Fetches : \A n \in fetch'[f].ids : Log[n].session = fetch'[f].session
<1>1. NoFetch.phase = "none" /\ NoFetch.ids = {}
  BY DEF NoFetch
<1> QED
  BY <1>1 DEF BelongInv

LEMMA BelongNext == TypeInv /\ TypeInv' /\ BelongInv /\ [Next]_vars => BelongInv'
<1> SUFFICES ASSUME TypeInv, TypeInv', BelongInv, [Next]_vars PROVE BelongInv'
  OBVIOUS
<1>a. fetch \in [Fetches -> FetchRecords] /\ fetch' \in [Fetches -> FetchRecords]
  BY DEF TypeInv
<1>b. SUFFICES /\ \A i \in 1..Len(wire') : Log[wire'[i]].session = active'
               /\ \A f \in Fetches :
                    \/ active' = active /\ fetch'[f] = fetch[f]
                    \/ fetch[f].owner # "hook" /\ fetch'[f] = fetch[f]
                    \/ fetch'[f] = NoFetch
                    \/ /\ fetch'[f].session = active'
                       /\ \A n \in fetch'[f].ids : Log[n].session = fetch'[f].session
                    \/ /\ active' = active /\ fetch'[f].owner = fetch[f].owner
                       /\ fetch[f].phase # "none" /\ fetch'[f].session = fetch[f].session
                       /\ \A n \in fetch'[f].ids : Log[n].session = fetch'[f].session
  BY <1>a, FetchesBelong DEF BelongInv
<1>c. ASSUME NEW q \in [Fetches -> FetchRecords], NEW s \in Sessions \cup {NoSession},
             NEW o \in {"hook", "user"}, fetch' = WithFetch(q, s, o), active' = s
      PROVE  \A f \in Fetches :
               \/ fetch'[f] = q[f]
               \/ /\ fetch'[f].session = active'
                  /\ \A n \in fetch'[f].ids : Log[n].session = fetch'[f].session
  <2>1. \A f \in Fetches :
          \/ WithFetch(q, s, o)[f] = q[f]
          \/ WithFetch(q, s, o)[f] = [phase |-> "issued", owner |-> o, session |-> s, ids |-> {}]
    BY WithFetchType
  <2> QED
    BY <1>c, <2>1
<1>d. \A i \in 1..Len(wire) : Log[wire[i]].session = active
  BY DEF BelongInv
<1>e. active \in Sessions \cup {NoSession}
  BY DEF TypeInv
<1>1. CASE Insert
  BY <1>1, <1>d DEF Insert, streamVars
<1>2. CASE \E n \in Ids : Commit(n)
  BY <1>2, <1>d DEF Commit, streamVars
<1>3. CASE Poll
  <2>1. PICK new \in Seq(Visible(active, sent)) : wire' = wire \o new
    BY <1>3, PollType
  <2>2. UNCHANGED <<active, fetch>>
    BY <1>3 DEF Poll
  <2>3. \A n \in Visible(active, sent) : Log[n].session = active
    BY DEF Visible
  <2>4. wire \in Seq(Ids) /\ new \in Seq(Ids)
    BY VisibleType, SeqMonotonic DEF TypeInv
  <2>5. /\ Len(wire) \in Nat /\ Len(new) \in Nat /\ Len(wire') = Len(wire) + Len(new)
        /\ \A i \in 1..Len(wire') :
             wire'[i] = IF i <= Len(wire) THEN wire[i] ELSE new[i - Len(wire)]
    BY <2>1, <2>4, ConcatProperties, LenProperties
  <2>6. \A i \in 1..Len(new) : new[i] \in Visible(active, sent)
    BY ElementOfSeq
  <2>7. ASSUME NEW i \in 1..Len(wire') PROVE Log[wire'[i]].session = active
    <3>1. CASE i <= Len(wire)
      BY <3>1, <2>5, <1>d
    <3>2. CASE ~ (i <= Len(wire))
      <4>1. i - Len(wire) \in 1..Len(new)
        BY <3>2, <2>5
      <4> QED
        BY <4>1, <3>2, <2>3, <2>5, <2>6
    <3> QED
      BY <3>1, <3>2
  <2> QED
    BY <2>2, <2>7
<1>4. CASE \E s \in Sessions \cup {NoSession} : SwitchSession(s)
  <2>1. PICK s \in Sessions \cup {NoSession} : SwitchSession(s)
    BY <1>4
  <2>2. /\ active' = s /\ wire' = <<>>
        /\ \/ fetch' = DiscardHookFetches(fetch)
           \/ fetch' = WithFetch(DiscardHookFetches(fetch), s, "hook")
    BY <2>1, Zenon DEF SwitchSession
  <2>3. /\ DiscardHookFetches(fetch) \in [Fetches -> FetchRecords]
        /\ \A f \in Fetches :
             \/ DiscardHookFetches(fetch)[f] = NoFetch
             \/ DiscardHookFetches(fetch)[f] = fetch[f] /\ fetch[f].owner # "hook"
    BY <1>a, DiscardType
  <2>4. \A f \in Fetches :
          \/ fetch'[f] = DiscardHookFetches(fetch)[f]
          \/ /\ fetch'[f].session = active'
             /\ \A n \in fetch'[f].ids : Log[n].session = fetch'[f].session
    BY <2>2, <2>3, <1>c
  <2>5. \A i \in 1..Len(wire') : FALSE
    BY <2>2, EmptySeq
  <2> QED
    BY <2>3, <2>4, <2>5
<1>5. CASE ReceiveEvent
  <2>1. /\ wire # <<>> /\ wire' = Tail(wire) /\ active' = active
        /\ fetch' = fetch \/ fetch' = WithFetch(fetch, active, "hook")
    BY <1>5, Zenon DEF ReceiveEvent
  <2>2. \A i \in 1..Len(wire') : Log[wire'[i]].session = active'
    BY <2>1, <1>d, WireType
  <2> QED
    BY <2>1, <2>2, <1>a, <1>c, <1>e
<1>6. CASE StreamEnds
  <2>1. wire' = <<>> /\ active' = active /\ fetch' = WithFetch(fetch, active, "hook")
    BY <1>6 DEF StreamEnds
  <2>2. \A i \in 1..Len(wire') : FALSE
    BY <2>1, EmptySeq
  <2> QED
    BY <2>1, <2>2, <1>a, <1>c, <1>e
<1>7. CASE Reconnect
  BY <1>7, <1>d DEF Reconnect
<1>8. CASE Refresh
  <2>1. wire' = wire /\ active' = active /\ fetch' = WithFetch(fetch, active, "user")
    BY <1>8 DEF Refresh, streamVars
  <2> QED
    BY <2>1, <1>a, <1>c, <1>d, <1>e
<1>9. CASE \E f \in Fetches : AnswerFetch(f)
  <2>1. PICK f \in Fetches : AnswerFetch(f)
    BY <1>9
  <2>2. /\ fetch[f].phase = "issued" /\ wire' = wire /\ active' = active
        /\ fetch' = [fetch EXCEPT ![f].phase = "answered",
                                  ![f].ids = Visible(fetch[f].session, 0)]
    BY <2>1 DEF AnswerFetch, streamVars
  <2>3. /\ \A g \in Fetches \ {f} : fetch'[g] = fetch[g]
        /\ fetch'[f].owner = fetch[f].owner /\ fetch'[f].session = fetch[f].session
        /\ fetch'[f].ids = Visible(fetch[f].session, 0)
    BY <2>2, <1>a DEF FetchRecords
  <2>4. \A n \in Visible(fetch[f].session, 0) : Log[n].session = fetch[f].session
    BY DEF Visible
  <2> QED
    BY <2>2, <2>3, <2>4, <1>d
<1>10. CASE \E f \in Fetches : ApplyFetch(f)
  BY <1>10, <1>a, <1>d DEF ApplyFetch, streamVars
<1>11. CASE \E f \in Fetches : FailFetch(f)
  BY <1>11, <1>a, <1>d DEF FailFetch, streamVars
<1>12. CASE UNCHANGED vars
  BY <1>12, <1>d DEF vars, streamVars
<1> QED
  BY <1>1, <1>2, <1>3, <1>4, <1>5, <1>6, <1>7, <1>8, <1>9, <1>10, <1>11, <1>12 DEF Next

\* Entries of the same merge id are of one session.
LEMMA SameIdSameSession ==
  ASSUME MessagesApart, NEW x \in Recorded, NEW n \in Ids, MergeId(x) = MergeId(Raw(n))
  PROVE  x.session = Log[n].session
<1>1. /\ x.seq \in Ids /\ x.session = Log[x.seq].session
      /\ x.family = Log[x.seq].family /\ x.message = Log[x.seq].message
  BY DEF Recorded, Entries
<1>2. \/ /\ x.family = "message" /\ Log[n].family = "message"
         /\ x.message = Log[n].message /\ x.message # NoMessage
      \/ x.seq = n
  BY DEF MergeId, Raw
<1> QED
  BY <1>1, <1>2 DEF MessagesApart

\* Events of a session add entries of that session only.
LEMMA AddedEntries ==
  ASSUME MessagesApart, NEW es \in Pages, NEW n \in Ids, NEW x \in AddEvent(es, Raw(n)),
         x \notin es
  PROVE  x.session = Log[n].session
<1>1. Raw(n) \in Recorded /\ Raw(n).session = Log[n].session /\ es \subseteq Recorded
  BY RawRecorded DEF Raw, Pages
<1>2. CASE AddEvent(es, Raw(n)) = es \cup {Raw(n)}
  BY <1>1, <1>2
<1>3. ASSUME NEW y \in es, MergeId(y) = MergeId(Raw(n)),
             AddEvent(es, Raw(n)) = (es \ {y}) \cup {MergeInto(y, Raw(n))}
      PROVE  x.session = Log[n].session
  <2>1. x = MergeInto(y, Raw(n))
    BY <1>3
  <2> QED
    BY <2>1, <1>1, <1>3, MergeIntoType, SameIdSameSession
<1> QED
  BY <1>2, <1>3, AddEventShape

\* The answer of a fetch has entries of its session only.
LEMMA MergedEntries ==
  ASSUME MessagesApart, NEW ids, NEW s, \A n \in Ids \cap ids : Log[n].session = s
  PROVE  \A x \in MergeEvents(ids) : x.session = s
<1> DEFINE Good == {es \in Pages : \A x \in es : x.session = s}
<1>1. {} \in Good
  BY DEF Pages, OneEach
<1>2. ASSUME NEW es \in Good, NEW n \in Ids \cap ids PROVE AddEvent(es, Raw(n)) \in Good
  BY AddEventType, AddedEntries
<1> HIDE DEF Good
<1>3. MergeEvents(ids) \in Good
  BY <1>1, <1>2, MergedIn
<1> QED
  BY <1>3 DEF Good

\* A step that keeps the session shown and applies no answer to refreshTimeline
\* adds no entry of another session.
LEMMA GhostNext ==
  ASSUME TypeInv, BelongInv, MessagesApart, [Next]_vars, active' = active, ~UserFetchArrives
  PROVE  Foreign' \subseteq Foreign
<1> SUFFICES ASSUME NEW x \in page', x \notin page PROVE x.session = active
  BY DEF Foreign
<1>1. CASE ReceiveEvent
  <2>1. wire # <<>> /\ page' = AddEvent(page, Raw(Head(wire)))
    BY <1>1 DEF ReceiveEvent
  <2>2. Head(wire) \in Ids /\ Head(wire) = wire[1] /\ 1 \in 1..Len(wire)
    BY <2>1, WireType
  <2>3. Log[Head(wire)].session = active
    BY <2>2 DEF BelongInv
  <2> QED
    BY <2>1, <2>2, <2>3, AddedEntries DEF TypeInv
<1>2. ASSUME NEW f \in Fetches, ApplyFetch(f) PROVE x.session = active
  <2>1. fetch \in [Fetches -> FetchRecords]
    BY DEF TypeInv
  <2>2. /\ fetch[f].phase = "answered" /\ page' = MergeEvents(fetch[f].ids)
        /\ fetch'[f].phase = "none"
    BY <1>2, <2>1 DEF ApplyFetch, NoFetch
  <2>3. fetch[f].owner = "hook"
    BY <2>1, <2>2 DEF UserFetchArrives, FetchRecords
  <2>4. fetch[f].session = active /\ \A n \in fetch[f].ids : Log[n].session = fetch[f].session
    BY <2>2, <2>3 DEF BelongInv
  <2> QED
    BY <2>2, <2>4, MergedEntries
<1>3. CASE \E s \in Sessions \cup {NoSession} : SwitchSession(s)
  BY <1>3 DEF SwitchSession
<1>4. CASE page' = page
  BY <1>4
<1> QED
  BY <1>1, <1>2, <1>3, <1>4
  DEF Next, vars, Insert, Commit, Poll, StreamEnds, Reconnect, Refresh, AnswerFetch, FailFetch

\* While a session is shown no entry of another comes onto the page: the stream
\* and the fetches of its effects bring its own events, and none of them merges
\* with an entry of another session, provided message ids are not shared.
THEOREM NoGhostsAppear == MessagesApart => (Spec => NoGhosts)
<1> SUFFICES ASSUME MessagesApart PROVE Spec => NoGhosts
  OBVIOUS
<1>1. TypeInv /\ BelongInv /\ [Next]_vars
        => [Foreign' \subseteq Foreign \/ active' # active \/ UserFetchArrives]_vars
  BY GhostNext
<1> QED
  BY <1>1, TypeInit, TypeNext, BelongInit, BelongNext, PTL DEF Spec, NoGhosts

-----------------------------------------------------------------------------
(* Texts *)

\* The events of a message that have a text have the same one: the message is
\* not streamed in chunks.
OneText ==
  \A m, n \in Ids :
    MergeId(Raw(m)) = MergeId(Raw(n)) /\ Log[m].text # <<>> /\ Log[n].text # <<>>
      => Log[m].text = Log[n].text

\* The text of an entry is that of an event of its merge id, if it has one.
TextFrom(x) ==
  x.text = <<>> \/ \E c \in Ids : MergeId(Raw(c)) = MergeId(x) /\ Log[c].text = x.text

TextInv == \A x \in page : TextFrom(x)

\* A text includes the empty one and itself; the empty one includes no other.
LEMMA IncludesFacts ==
  ASSUME NEW s \in Seq(STRING)
  PROVE  /\ Includes(s, <<>>) /\ Includes(s, s)
         /\ Includes(<<>>, s) => s = <<>>
<1>1. Len(s) \in Nat /\ Len(<<>>) = 0 /\ (Len(s) = 0 => s = <<>>)
  BY LenProperties, EmptySeq
<1>2. SubSeq(s, 1, 0) = <<>>
  BY SubSeqEmpty
<1>3. SubSeq(s, 1, Len(s)) = s
  BY SubSeqFull
<1>4. Includes(s, <<>>)
  <2>1. 0 \in 0..Len(s) /\ 0 + Len(<<>>) <= Len(s) /\ SubSeq(s, 0 + 1, 0 + Len(<<>>)) = <<>>
    BY <1>1, <1>2
  <2> QED
    BY <2>1 DEF Includes
<1>5. Includes(s, s)
  <2>1. 0 \in 0..Len(s) /\ 0 + Len(s) <= Len(s) /\ SubSeq(s, 0 + 1, 0 + Len(s)) = s
    BY <1>1, <1>3
  <2> QED
    BY <2>1 DEF Includes
<1>6. Includes(<<>>, s) => s = <<>>
  BY <1>1 DEF Includes
<1> QED
  BY <1>4, <1>5, <1>6

\* Joining adds nothing to what is there once.
LEMMA JoinOneText ==
  ASSUME NEW t \in Seq(STRING), NEW old \in {<<>>, t}, NEW new \in {<<>>, t}, NEW b \in BOOLEAN
  PROVE  JoinTexts(old, new, b) \in {<<>>, t}
<1>1. old \in Seq(STRING) /\ new \in Seq(STRING)
  BY EmptySeq
<1>2. CASE Includes(old, new)
  BY <1>2 DEF JoinTexts
<1>3. CASE ~Includes(old, new)
  <2>1. new # <<>> /\ new # old
    BY <1>1, <1>3, IncludesFacts
  <2>2. old = <<>> /\ old \o new = t
    BY <1>1, <2>1, ConcatEmptySeq
  <2> QED
    BY <2>2 DEF JoinTexts
<1> QED
  BY <1>2, <1>3

\* The merged entry has a text of an event, too.
LEMMA MergeIntoText ==
  ASSUME OneText, NEW x \in Recorded, TextFrom(x), NEW n \in Ids, MergeId(x) = MergeId(Raw(n))
  PROVE  TextFrom(MergeInto(x, Raw(n)))
<1> DEFINE e == Raw(n)
           z == MergeInto(x, e)
           t == IF x.text = <<>> THEN e.text ELSE x.text
<1>1. /\ e \in Recorded /\ e.text = Log[n].text /\ e.text \in Seq(STRING)
      /\ x.text \in Seq(STRING) /\ x.seq \in Nat /\ e.seq \in Nat
  BY RawRecorded DEF Raw, Recorded, Entries, Ids
<1>2. MergeId(z) = MergeId(e)
  BY <1>1, MergeIntoType
<1>3. t \in Seq(STRING) /\ x.text \in {<<>>, t} /\ e.text \in {<<>>, t}
  BY <1>1 DEF TextFrom, OneText
<1>4. t = <<>> \/ \E c \in Ids : MergeId(Raw(c)) = MergeId(e) /\ Log[c].text = t
  BY <1>1 DEF TextFrom
<1> HIDE DEF t
<1>5. z.text \in {<<>>, t}
  <2>1. /\ JoinTexts(x.text, e.text, FALSE) \in {<<>>, t}
        /\ JoinTexts(e.text, x.text, TRUE) \in {<<>>, t}
    BY <1>3, JoinOneText
  <2>2. \/ z = [x EXCEPT !.text = IF e.text = <<>> THEN @ ELSE e.text]
        \/ z = [e EXCEPT !.text = JoinTexts(x.text, e.text, FALSE)]
        \/ z = [x EXCEPT !.text = JoinTexts(e.text, x.text, TRUE)]
    BY DEF MergeInto
  <2>3. /\ \A v : [x EXCEPT !.text = v].text = v
        /\ \A v : [e EXCEPT !.text = v].text = v
    BY <1>1 DEF Recorded, Entries
  <2> QED
    BY <1>3, <2>1, <2>2, <2>3
<1> QED
  BY <1>2, <1>4, <1>5 DEF TextFrom

LEMMA AddEventText ==
  ASSUME OneText, NEW es \in Pages, NEW n \in Ids, \A x \in es : TextFrom(x)
  PROVE  \A x \in AddEvent(es, Raw(n)) : TextFrom(x)
<1>1. es \subseteq Recorded /\ TextFrom(Raw(n))
  BY DEF Pages, TextFrom, Raw
<1> QED
  BY <1>1, AddEventShape, MergeIntoText

LEMMA MergeEventsText ==
  ASSUME OneText, NEW ids PROVE \A x \in MergeEvents(ids) : TextFrom(x)
<1> DEFINE Good == {es \in Pages : \A x \in es : TextFrom(x)}
<1>1. {} \in Good
  BY DEF Pages, OneEach
<1>2. ASSUME NEW es \in Good, NEW n \in Ids \cap ids PROVE AddEvent(es, Raw(n)) \in Good
  BY AddEventType, AddEventText
<1> HIDE DEF Good
<1>3. MergeEvents(ids) \in Good
  BY <1>1, <1>2, MergedIn
<1> QED
  BY <1>3 DEF Good

LEMMA TextInit == Init => TextInv
BY DEF Init, TextInv

LEMMA TextNext == OneText /\ TypeInv /\ TextInv /\ [Next]_vars => TextInv'
<1> SUFFICES ASSUME OneText, TypeInv, TextInv, [Next]_vars PROVE \A x \in page' : TextFrom(x)
  BY DEF TextInv, TextFrom
<1>1. CASE ReceiveEvent
  <2>1. wire # <<>> /\ page' = AddEvent(page, Raw(Head(wire)))
    BY <1>1 DEF ReceiveEvent
  <2> QED
    BY <2>1, WireType, AddEventText DEF TypeInv, TextInv
<1>2. CASE \E f \in Fetches : ApplyFetch(f)
  BY <1>2, MergeEventsText DEF ApplyFetch
<1>3. CASE \E s \in Sessions \cup {NoSession} : SwitchSession(s)
  BY <1>3 DEF SwitchSession, TextInv
<1>4. CASE page' = page
  BY <1>4 DEF TextInv
<1> QED
  BY <1>1, <1>2, <1>3, <1>4
  DEF Next, vars, Insert, Commit, Poll, StreamEnds, Reconnect, Refresh, AnswerFetch, FailFetch

\* An event whose text an entry includes leaves the text of the entry alone.
LEMMA MergeKeepsText ==
  ASSUME OneText, NEW x \in Recorded, TextFrom(x), NEW n \in Ids,
         MergeId(x) = MergeId(Raw(n)), Includes(x.text, Log[n].text)
  PROVE  MergeInto(x, Raw(n)).text = x.text
<1> DEFINE e == Raw(n)
<1>1. /\ e \in Recorded /\ e.text = Log[n].text /\ e.text \in Seq(STRING)
      /\ x.text \in Seq(STRING) /\ x.seq \in Nat /\ e.seq \in Nat
  BY RawRecorded DEF Raw, Recorded, Entries, Ids
<1>2. \A v : [x EXCEPT !.text = v].text = v /\ [e EXCEPT !.text = v].text = v
  BY <1>1 DEF Recorded, Entries
<1> HIDE DEF e
<1>3. CASE x.seq = e.seq
  <2>1. MergeInto(x, e).text = IF e.text = <<>> THEN x.text ELSE e.text
    BY <1>2, <1>3 DEF MergeInto
  <2>2. e.text # <<>> => x.text # <<>>
    BY <1>1, IncludesFacts
  <2>3. e.text # <<>> => x.text = e.text
    BY <1>1, <2>2 DEF TextFrom, OneText
  <2> QED
    BY <2>1, <2>3 DEF e
<1>4. CASE x.seq < e.seq
  <2>1. MergeInto(x, e).text = JoinTexts(x.text, e.text, FALSE)
    <3>1. x.seq # e.seq
      BY <1>1, <1>4
    <3>2. MergeInto(x, e) = [e EXCEPT !.text = JoinTexts(x.text, e.text, FALSE)]
      BY <3>1, <1>4, Zenon DEF MergeInto
    <3> QED
      BY <3>2, <1>2, Zenon
  <2> QED
    BY <1>1, <2>1 DEF JoinTexts, e
<1>5. CASE e.seq < x.seq
  <2>1. MergeInto(x, e).text = JoinTexts(e.text, x.text, TRUE)
    <3>1. x.seq # e.seq /\ ~ (x.seq < e.seq)
      BY <1>1, <1>5
    <3>2. MergeInto(x, e) = [x EXCEPT !.text = JoinTexts(e.text, x.text, TRUE)]
      BY <3>1, Zenon DEF MergeInto
    <3> QED
      BY <3>2, <1>2, Zenon
  <2> QED
    BY <1>1, <2>1 DEF JoinTexts, e
<1> QED
  BY <1>1, <1>3, <1>4, <1>5

\* The one action that takes the first event off the wire and nothing else.
LEMMA ReceiveNext ==
  ASSUME OneText, TypeInv, TextInv, [Next]_vars, NEW x \in page,
         <<active, conn>>' = <<active, conn>>, wire # <<>>, wire' = Tail(wire),
         MergeId(x) = MergeId(Raw(Head(wire))), Includes(x.text, Log[Head(wire)].text)
  PROVE  \E y \in page' : MergeId(y) = MergeId(x) /\ y.text = x.text
<1>1. /\ Len(wire) \in Nat \ {0} /\ Len(wire') = Len(wire) - 1
      /\ Head(wire) \in Ids /\ wire \in Seq(Ids)
  BY WireType DEF TypeInv
<1>2. CASE ReceiveEvent
  <2>1. page' = AddEvent(page, Raw(Head(wire)))
    BY <1>2 DEF ReceiveEvent
  <2>2. page \in Pages /\ page \subseteq Recorded /\ OneEach(page) /\ TextFrom(x)
    BY DEF TypeInv, Pages, TextInv
  <2>3. page' = (page \ {x}) \cup {MergeInto(x, Raw(Head(wire)))}
    BY <1>1, <2>1, <2>2, AddEventShape DEF OneEach
  <2>4. MergeId(MergeInto(x, Raw(Head(wire)))) = MergeId(x)
    BY <1>1, <2>2, MergeIntoType, RawRecorded
  <2>5. MergeInto(x, Raw(Head(wire))).text = x.text
    BY <1>1, <2>2, MergeKeepsText
  <2> QED
    BY <2>3, <2>4, <2>5
<1>3. CASE Poll
  <2>1. PICK new \in Seq(Visible(active, sent)) : wire' = wire \o new
    BY <1>3, PollType
  <2>2. new \in Seq(Ids)
    BY VisibleType, SeqMonotonic
  <2>3. Len(wire') = Len(wire) + Len(new) /\ Len(new) \in Nat
    BY <1>1, <2>1, <2>2, ConcatProperties, LenProperties
  <2> QED
    BY <1>1, <2>3
<1>4. CASE wire' = wire
  BY <1>1, <1>4
<1>5. CASE \E s \in Sessions \cup {NoSession} : SwitchSession(s)
  BY <1>5 DEF SwitchSession
<1>6. CASE StreamEnds
  BY <1>6 DEF StreamEnds
<1> QED
  BY <1>2, <1>3, <1>4, <1>5, <1>6
  DEF Next, vars, streamVars, Insert, Commit, Reconnect, Refresh, AnswerFetch, ApplyFetch, FailFetch

\* An event that the page receives again changes no text that includes its own,
\* as long as no message is streamed in chunks.
THEOREM TextsAreKept == OneText => (Spec => ReceiveKeepsText)
<1> SUFFICES ASSUME OneText PROVE Spec => ReceiveKeepsText
  OBVIOUS
<1>1. TypeInv /\ TextInv /\ [Next]_vars
        => [\A x \in page :
              /\ <<active, conn>>' = <<active, conn>> /\ wire # <<>> /\ wire' = Tail(wire)
              /\ MergeId(x) = MergeId(Raw(Head(wire)))
              /\ Includes(x.text, Log[Head(wire)].text)
              => \E y \in page' : MergeId(y) = MergeId(x) /\ y.text = x.text]_vars
  BY ReceiveNext
<1>2. TypeInv /\ TextInv /\ [Next]_vars => TextInv'
  BY TextNext
<1> QED
  BY <1>1, <1>2, TypeInit, TypeNext, TextInit, PTL DEF Spec, ReceiveKeepsText

=============================================================================
