----------------------- MODULE TurnSessionRefines_proofs -----------------------
(* What the files of a session hold is a conversation: the proof that        *)
(* TurnSession implements Conversation, and that an answer that is done is   *)
(* whole.  Both rest on the order of the notices: the chunks under way for   *)
(* the answer that runs continue it one by one.                              *)
EXTENDS TurnSession_proofs

\* A chunk of the answer to c.
Of(notice, c) == notice.kind = "chunk" /\ notice.call = c

\* In q, the chunk number k of the answer to c, not after place i.
Before(q, i, c, k) == \E j \in 1 .. i : Of(q[j], c) /\ q[j].n = k

\* The chunks in q continue an answer to c that has l of the s chunks that Go has sent,
\* and its end comes after all of them.
InLine(q, c, l, s) ==
    /\ \A i \in 1 .. Len(q) : Of(q[i], c) =>
        l < q[i].n /\ q[i].n <= s /\ \A k \in l + 1 .. q[i].n : Before(q, i, c, k)
    /\ \A i, j \in 1 .. Len(q) :
        i < j /\ Of(q[i], c) /\ Of(q[j], c) => q[i].n < q[j].n
    /\ \A i \in 1 .. Len(q) :
        q[i].kind = "closed" /\ q[i].call = c /\ q[i].status = "done" =>
            \A k \in l + 1 .. s : Before(q, i, c, k)

\* None of them is lost.
Complete(q, c, l, s) == \A k \in l + 1 .. s : Before(q, Len(q), c, k)

\* No end of the answer to c is under way.
Unended(q, c) == \A i \in 1 .. Len(q) : ~(q[i].kind = "closed" /\ q[i].call = c)

----------------------------------------------------------------------------
(* Queues of notices.                                                      *)

LEMMA NoticeShape ==
    ASSUME NEW x \in Notice
    PROVE  /\ x.call \in Call /\ x.kind \in {"chunk", "closed"}
           /\ x.kind = "chunk" => x.n \in 1 .. MaxChunks
           /\ x.kind = "closed" => x.status \in Final
BY DEF Notice

LEMMA Appended ==
    ASSUME NEW q \in Seq(Notice), NEW x \in Notice
    PROVE  /\ Len(q) \in Nat /\ Len(Append(q, x)) = Len(q) + 1
           /\ \A i \in 1 .. Len(q) : Append(q, x)[i] = q[i] /\ q[i] \in Notice
           /\ Append(q, x)[Len(q) + 1] = x
OBVIOUS

LEMMA ChunkAppended ==
    ASSUME NEW q \in Seq(Notice), NEW x \in Notice, NEW c \in Call, NEW l \in Nat, NEW s \in Nat,
           l <= s, InLine(q, c, l, s), Complete(q, c, l, s), Unended(q, c), Of(x, c), x.n = s + 1
    PROVE  InLine(Append(q, x), c, l, s + 1) /\ Complete(Append(q, x), c, l, s + 1)
<1> DEFINE p == Append(q, x)
           z == Len(q)
<1>1. /\ z \in Nat /\ Len(p) = z + 1
      /\ \A i \in 1 .. z : p[i] = q[i] /\ q[i] \in Notice
      /\ p[z + 1] = x
  BY Appended
<1> HIDE DEF p
<1>2. \A i \in 1 .. z, k \in Nat : Before(q, i, c, k) => Before(p, i, c, k)
  BY <1>1 DEF Before
<1>3. \A k \in l + 1 .. s + 1 : Before(p, z + 1, c, k)
  <2> SUFFICES ASSUME NEW k \in l + 1 .. s + 1 PROVE \E j \in 1 .. z + 1 : Of(p[j], c) /\ p[j].n = k
    BY DEF Before
  <2>1. CASE k = s + 1
    BY <1>1, <2>1
  <2>2. CASE k # s + 1
    <3>1. k \in l + 1 .. s
      BY <2>2
    <3>2. PICK j \in 1 .. z : Of(q[j], c) /\ q[j].n = k
      BY <3>1 DEF Complete, Before
    <3> QED
      BY <1>1, <3>2
  <2> QED
    BY <2>1, <2>2
<1>4. ASSUME NEW i \in 1 .. z + 1, Of(p[i], c)
      PROVE  l < p[i].n /\ p[i].n <= s + 1 /\ \A k \in l + 1 .. p[i].n : Before(p, i, c, k)
  <2>1. CASE i = z + 1
    BY <1>1, <1>3, <2>1
  <2>2. CASE i # z + 1
    <3>1. i \in 1 .. z /\ p[i] = q[i] /\ q[i].n \in Nat
      BY <1>1, <1>4, <2>2, NoticeShape DEF Of
    <3>2. l < q[i].n /\ q[i].n <= s /\ \A k \in l + 1 .. q[i].n : Before(q, i, c, k)
      BY <1>4, <3>1 DEF InLine
    <3> QED
      BY <1>2, <3>1, <3>2
  <2> QED
    BY <2>1, <2>2
<1>5. ASSUME NEW i \in 1 .. z + 1, NEW j \in 1 .. z + 1, i < j, Of(p[i], c), Of(p[j], c)
      PROVE  p[i].n < p[j].n
  <2>1. i \in 1 .. z /\ p[i] = q[i] /\ q[i].n \in Nat
    BY <1>1, <1>5, NoticeShape DEF Of
  <2>2. CASE j = z + 1
    BY <1>1, <1>5, <2>1, <2>2 DEF InLine
  <2>3. CASE j # z + 1
    BY <1>1, <1>5, <2>1, <2>3 DEF InLine
  <2> QED
    BY <2>2, <2>3
<1>6. ASSUME NEW i \in 1 .. z + 1, p[i].kind = "closed", p[i].call = c
      PROVE  FALSE
  BY <1>1, <1>6 DEF Unended, Of
<1>7. InLine(p, c, l, s + 1)
  BY <1>1, <1>4, <1>5, <1>6 DEF InLine
<1>8. Complete(p, c, l, s + 1)
  BY <1>1, <1>3 DEF Complete
<1> QED
  BY <1>7, <1>8 DEF p

\* Anything else may follow, the end of the answer when the line is complete.
LEMMA OtherAppended ==
    ASSUME NEW q \in Seq(Notice), NEW x \in Notice, NEW c \in Call, NEW l \in Nat, NEW s \in Nat,
           InLine(q, c, l, s), ~Of(x, c),
           x.call # c \/ Complete(q, c, l, s)
    PROVE  /\ InLine(Append(q, x), c, l, s)
           /\ Complete(q, c, l, s) => Complete(Append(q, x), c, l, s)
<1> DEFINE p == Append(q, x)
           z == Len(q)
<1>1. /\ z \in Nat /\ Len(p) = z + 1
      /\ \A i \in 1 .. z : p[i] = q[i] /\ q[i] \in Notice
      /\ p[z + 1] = x
  BY Appended
<1> HIDE DEF p
<1>2. \A i \in 1 .. z, k \in Nat : Before(q, i, c, k) => Before(p, i, c, k)
  BY <1>1 DEF Before
<1>3. \A k \in Nat : Before(q, z, c, k) => Before(p, z + 1, c, k)
  BY <1>1 DEF Before
<1>4. ASSUME NEW i \in 1 .. z + 1, Of(p[i], c)
      PROVE  l < p[i].n /\ p[i].n <= s /\ \A k \in l + 1 .. p[i].n : Before(p, i, c, k)
  <2>1. i \in 1 .. z /\ p[i] = q[i] /\ q[i].n \in Nat
    BY <1>1, <1>4, NoticeShape DEF Of
  <2>2. l < q[i].n /\ q[i].n <= s /\ \A k \in l + 1 .. q[i].n : Before(q, i, c, k)
    BY <1>4, <2>1 DEF InLine
  <2> QED
    BY <1>2, <2>1, <2>2
<1>5. ASSUME NEW i \in 1 .. z + 1, NEW j \in 1 .. z + 1, i < j, Of(p[i], c), Of(p[j], c)
      PROVE  p[i].n < p[j].n
  <2>1. i \in 1 .. z /\ j \in 1 .. z
    BY <1>1, <1>5
  <2> QED
    BY <1>1, <1>5, <2>1 DEF InLine
<1>6. ASSUME NEW i \in 1 .. z + 1, p[i].kind = "closed", p[i].call = c, p[i].status = "done"
      PROVE  \A k \in l + 1 .. s : Before(p, i, c, k)
  <2>1. CASE i = z + 1
    BY <1>1, <1>3, <1>6, <2>1 DEF Complete
  <2>2. CASE i # z + 1
    <3>1. i \in 1 .. z /\ p[i] = q[i]
      BY <1>1, <2>2
    <3>2. \A k \in l + 1 .. s : Before(q, i, c, k)
      BY <1>6, <3>1 DEF InLine
    <3> QED
      BY <1>2, <3>1, <3>2
  <2> QED
    BY <2>1, <2>2
<1>7. Complete(q, c, l, s) => Complete(p, c, l, s)
  BY <1>1, <1>3 DEF Complete
<1>8. InLine(p, c, l, s)
  BY <1>1, <1>4, <1>5, <1>6 DEF InLine
<1> QED
  BY <1>7, <1>8 DEF p

LEMMA Taken ==
    ASSUME NEW q \in Seq(Notice), q # <<>>
    PROVE  /\ Len(q) \in Nat \ {0} /\ Head(q) = q[1] /\ q[1] \in Notice
           /\ Len(Tail(q)) = Len(q) - 1
           /\ \A i \in 1 .. Len(q) - 1 : Tail(q)[i] = q[i + 1] /\ q[i + 1] \in Notice
OBVIOUS

LEMMA OtherTaken ==
    ASSUME NEW q \in Seq(Notice), q # <<>>, NEW c \in Call, NEW l \in Nat, NEW s \in Nat,
           ~Of(Head(q), c), InLine(q, c, l, s)
    PROVE  /\ InLine(Tail(q), c, l, s)
           /\ Complete(q, c, l, s) => Complete(Tail(q), c, l, s)
<1> DEFINE p == Tail(q)
           z == Len(q)
<1>1. /\ z \in Nat \ {0} /\ Len(p) = z - 1
      /\ \A i \in 1 .. z - 1 : p[i] = q[i + 1] /\ q[i + 1] \in Notice /\ i + 1 \in 1 .. z
      /\ ~Of(q[1], c)
  BY Taken
<1> HIDE DEF p
<1>2. ASSUME NEW i \in 0 .. z - 1, NEW k \in Nat, Before(q, i + 1, c, k)
      PROVE  Before(p, i, c, k)
  <2>1. PICK j \in 1 .. i + 1 : Of(q[j], c) /\ q[j].n = k
    BY <1>2 DEF Before
  <2>2. j - 1 \in 1 .. i /\ p[j - 1] = q[j]
    <3>1. j # 1
      BY <1>1, <2>1
    <3>2. j - 1 \in 1 .. i /\ j - 1 \in 1 .. z - 1 /\ (j - 1) + 1 = j
      BY <1>1, <3>1
    <3> QED
      BY <1>1, <3>2
  <2> QED
    BY <2>1, <2>2 DEF Before
<1>3. ASSUME NEW i \in 1 .. z - 1, Of(p[i], c)
      PROVE  l < p[i].n /\ p[i].n <= s /\ \A k \in l + 1 .. p[i].n : Before(p, i, c, k)
  <2>1. l < q[i + 1].n /\ q[i + 1].n <= s /\ \A k \in l + 1 .. q[i + 1].n : Before(q, i + 1, c, k)
    BY <1>1, <1>3 DEF InLine
  <2> QED
    BY <1>1, <1>2, <2>1
<1>4. ASSUME NEW i \in 1 .. z - 1, NEW j \in 1 .. z - 1, i < j, Of(p[i], c), Of(p[j], c)
      PROVE  p[i].n < p[j].n
  <2>1. /\ i + 1 \in 1 .. z /\ j + 1 \in 1 .. z /\ i + 1 < j + 1
        /\ p[i] = q[i + 1] /\ p[j] = q[j + 1]
    BY <1>1, <1>4
  <2> QED
    BY <1>4, <2>1 DEF InLine
<1>5. ASSUME NEW i \in 1 .. z - 1, p[i].kind = "closed", p[i].call = c, p[i].status = "done"
      PROVE  \A k \in l + 1 .. s : Before(p, i, c, k)
  <2>1. \A k \in l + 1 .. s : Before(q, i + 1, c, k)
    BY <1>1, <1>5 DEF InLine
  <2> QED
    BY <1>2, <2>1
<1>6. InLine(p, c, l, s)
  BY <1>1, <1>3, <1>4, <1>5 DEF InLine
<1>7. ASSUME Complete(q, c, l, s)
      PROVE  Complete(p, c, l, s)
  <2> SUFFICES ASSUME NEW k \in l + 1 .. s PROVE Before(p, z - 1, c, k)
    BY <1>1 DEF Complete
  <2>1. Before(q, (z - 1) + 1, c, k)
    BY <1>1, <1>7 DEF Complete
  <2> QED
    BY <1>1, <1>2, <2>1
<1> QED
  BY <1>6, <1>7 DEF p

\* The line moves on when its first notice is taken: only the next chunk of the answer,
\* or its end when it is whole, can be the first for it.
LEMMA ChunkTaken ==
    ASSUME NEW q \in Seq(Notice), q # <<>>, NEW c \in Call, NEW l \in Nat, NEW s \in Nat,
           Of(Head(q), c), InLine(q, c, l, s)
    PROVE  /\ Head(q).n = l + 1 /\ l + 1 <= s
           /\ InLine(Tail(q), c, l + 1, s)
           /\ Complete(q, c, l, s) => Complete(Tail(q), c, l + 1, s)
<1> DEFINE p == Tail(q)
           z == Len(q)
<1>1. /\ z \in Nat \ {0} /\ Len(p) = z - 1
      /\ \A i \in 1 .. z - 1 : p[i] = q[i + 1] /\ q[i + 1] \in Notice /\ i + 1 \in 1 .. z
      /\ Of(q[1], c) /\ Head(q) = q[1] /\ q[1] \in Notice /\ 1 \in 1 .. z
  BY Taken
<1> HIDE DEF p
<1>2. q[1].n = l + 1 /\ l + 1 <= s
  <2>1. l < q[1].n /\ q[1].n <= s /\ q[1].n \in Nat
    BY <1>1, NoticeShape DEF InLine, Of
  <2>2. Before(q, 1, c, l + 1)
    <3>1. l + 1 \in l + 1 .. q[1].n
      BY <2>1
    <3> QED
      BY <1>1, <3>1 DEF InLine
  <2> QED
    BY <2>1, <2>2 DEF Before
<1>3. ASSUME NEW i \in 0 .. z - 1, NEW k \in Nat, k # l + 1, Before(q, i + 1, c, k)
      PROVE  Before(p, i, c, k)
  <2>1. PICK j \in 1 .. i + 1 : Of(q[j], c) /\ q[j].n = k
    BY <1>3 DEF Before
  <2>2. j - 1 \in 1 .. i /\ p[j - 1] = q[j]
    <3>1. j # 1
      BY <1>2, <1>3, <2>1
    <3>2. j - 1 \in 1 .. i /\ j - 1 \in 1 .. z - 1 /\ (j - 1) + 1 = j
      BY <1>1, <3>1
    <3> QED
      BY <1>1, <3>2
  <2> QED
    BY <2>1, <2>2 DEF Before
<1>4. ASSUME NEW i \in 1 .. z - 1, Of(p[i], c)
      PROVE  l + 1 < p[i].n /\ p[i].n <= s /\ \A k \in l + 2 .. p[i].n : Before(p, i, c, k)
  <2>1. p[i] = q[i + 1] /\ i + 1 \in 1 .. z /\ 1 < i + 1
    BY <1>1
  <2>2. /\ q[i + 1].n <= s /\ \A k \in l + 1 .. q[i + 1].n : Before(q, i + 1, c, k)
        /\ q[1].n < q[i + 1].n
    BY <1>1, <1>4, <2>1 DEF InLine
  <2>3. \A k \in l + 2 .. q[i + 1].n : k \in Nat /\ k # l + 1 /\ k \in l + 1 .. q[i + 1].n
    OBVIOUS
  <2> QED
    BY <1>2, <1>3, <2>1, <2>2, <2>3
<1>5. ASSUME NEW i \in 1 .. z - 1, NEW j \in 1 .. z - 1, i < j, Of(p[i], c), Of(p[j], c)
      PROVE  p[i].n < p[j].n
  BY <1>1, <1>5, SMTT(30) DEF InLine
<1>6. \A k \in l + 2 .. s : k \in Nat /\ k # l + 1 /\ k \in l + 1 .. s
  OBVIOUS
<1>7. ASSUME NEW i \in 1 .. z - 1, p[i].kind = "closed", p[i].call = c, p[i].status = "done"
      PROVE  \A k \in l + 2 .. s : Before(p, i, c, k)
  <2>1. \A k \in l + 1 .. s : Before(q, i + 1, c, k)
    BY <1>1, <1>7 DEF InLine
  <2> QED
    BY <1>3, <1>6, <2>1
<1>8. InLine(p, c, l + 1, s)
  <2>1. (l + 1) + 1 = l + 2
    OBVIOUS
  <2> QED
    BY <1>1, <1>4, <1>5, <1>7, <2>1 DEF InLine
<1>9. ASSUME Complete(q, c, l, s)
      PROVE  Complete(p, c, l + 1, s)
  <2> SUFFICES ASSUME NEW k \in (l + 1) + 1 .. s PROVE Before(p, z - 1, c, k)
    BY <1>1 DEF Complete
  <2>1. Before(q, (z - 1) + 1, c, k) /\ k \in Nat /\ k # l + 1
    BY <1>1, <1>9 DEF Complete
  <2> QED
    BY <1>1, <1>3, <2>1
<1> QED
  BY <1>1, <1>2, <1>8, <1>9 DEF p

LEMMA EndTaken ==
    ASSUME NEW q \in Seq(Notice), q # <<>>, NEW c \in Call, NEW l \in Nat, NEW s \in Nat,
           l <= s, InLine(q, c, l, s),
           Head(q).kind = "closed", Head(q).call = c, Head(q).status = "done"
    PROVE  l = s
<1>1. Head(q) = q[1] /\ 1 \in 1 .. Len(q)
  BY Taken
<1>2. \A k \in l + 1 .. s : Before(q, 1, c, k)
  BY <1>1 DEF InLine
<1>3. SUFFICES ASSUME l < s PROVE FALSE
  OBVIOUS
<1>4. Before(q, 1, c, l + 1)
  BY <1>2, <1>3
<1> QED
  BY <1>1, <1>4 DEF Before, Of

\* The first notices of a line are in line.
LEMMA Shortened ==
    ASSUME NEW q \in Seq(Notice), NEW k \in 0 .. Len(q)
    PROVE  /\ Len(SubSeq(q, 1, k)) = k /\ SubSeq(q, 1, k) \in Seq(Notice)
           /\ \A i \in 1 .. k : SubSeq(q, 1, k)[i] = q[i] /\ i \in 1 .. Len(q)
OBVIOUS

LEMMA LineShortened ==
    ASSUME NEW q \in Seq(Notice), NEW e \in 0 .. Len(q), NEW c \in Call,
           NEW l \in Nat, NEW s \in Nat, InLine(q, c, l, s)
    PROVE  InLine(SubSeq(q, 1, e), c, l, s)
<1> DEFINE p == SubSeq(q, 1, e)
<1>1. Len(p) = e /\ e \in Nat /\ \A i \in 1 .. e : p[i] = q[i] /\ i \in 1 .. Len(q)
  BY Shortened
<1> HIDE DEF p
<1>2. \A i \in 1 .. e, k \in Nat : Before(q, i, c, k) => Before(p, i, c, k)
  BY <1>1 DEF Before
<1>3. ASSUME NEW i \in 1 .. e, Of(p[i], c)
      PROVE  l < p[i].n /\ p[i].n <= s /\ \A k \in l + 1 .. p[i].n : Before(p, i, c, k)
  BY <1>1, <1>2, <1>3 DEF InLine
<1>4. ASSUME NEW i \in 1 .. e, p[i].kind = "closed", p[i].call = c, p[i].status = "done"
      PROVE  \A k \in l + 1 .. s : Before(p, i, c, k)
  BY <1>1, <1>2, <1>4 DEF InLine
<1>5. InLine(p, c, l, s)
  BY <1>1, <1>3, <1>4 DEF InLine
<1> QED
  BY <1>5 DEF p

----------------------------------------------------------------------------
(* What Go knows of a turn.                                                *)

\* No notice of c is under way.
Silent(q, c) == \A i \in 1 .. Len(q) : q[i].call # c

\* Go knows nothing of c.
Unstarted(c) == /\ goAt[c] = "none" /\ ~Pending(c, "turn.start")
                /\ sent[c] = 0 /\ Silent(notices, c)

\* A turn that nobody opened is unknown to Go; Go starts it once, sends its chunks after
\* that, and its end at the end.
Begun(c) ==
    /\ ~up \/ messages.answer[c].status = "absent" => Unstarted(c)
    /\ Pending(c, "turn.start") => goAt[c] = "none" /\ messages.answer[c].status # "done"
    /\ goAt[c] \in {"none", "refused"} => sent[c] = 0 /\ Silent(notices, c)
    /\ ~Unended(notices, c) => goAt[c] = "over"
    /\ messages.answer[c].status = "done" /\ goAt[c] # "none" => goAt[c] = "over"

LEMMA SilentTaken ==
    ASSUME NEW q \in Seq(Notice), q # <<>>, NEW c \in Call
    PROVE  /\ Silent(q, c) => Silent(Tail(q), c)
           /\ Unended(q, c) => Unended(Tail(q), c)
<1>1. \A i \in 1 .. Len(Tail(q)) : Tail(q)[i] = q[i + 1] /\ i + 1 \in 1 .. Len(q)
  BY Taken
<1> QED
  BY <1>1 DEF Silent, Unended

LEMMA SilentAppended ==
    ASSUME NEW q \in Seq(Notice), NEW x \in Notice, NEW c \in Call
    PROVE  /\ x.call # c /\ Silent(q, c) => Silent(Append(q, x), c)
           /\ (x.call # c \/ x.kind = "chunk") /\ Unended(q, c) => Unended(Append(q, x), c)
<1>1. \A i \in 1 .. Len(Append(q, x)) : \/ i \in 1 .. Len(q) /\ Append(q, x)[i] = q[i]
                                        \/ Append(q, x)[i] = x
  BY Appended
<1> QED
  BY <1>1 DEF Silent, Unended

LEMMA SilentShortened ==
    ASSUME NEW q \in Seq(Notice), NEW e \in 0 .. Len(q), NEW c \in Call
    PROVE  /\ Silent(q, c) => Silent(SubSeq(q, 1, e), c)
           /\ Unended(q, c) => Unended(SubSeq(q, 1, e), c)
BY Shortened DEF Silent, Unended

LEMMA SilentInLine ==
    ASSUME NEW q \in Seq(Notice), NEW c \in Call, Silent(q, c)
    PROVE  InLine(q, c, 0, 0)
BY DEF Silent, InLine, Of

----------------------------------------------------------------------------
(* How the commands change an answer.                                      *)

LEMMA OpenMoves ==
    ASSUME TypeOK, NEW d \in Call, NEW q \in Query, Open(d, q), NEW c \in Call
    PROVE  /\ c # d => messages'.answer[c] = messages.answer[c]
           /\ messages'.answer[c].text = messages.answer[c].text
           /\ \/ UNCHANGED <<messages, active, requests>>
              \/ /\ messages'.answer[d].status = "running" /\ active' = d
                 /\ requests' \subseteq requests \cup {[method |-> "turn.start", call |-> d, by |-> "send"]}
<1>1. CASE messages' = Opened(d, q)
  <2>1. messages.answer[d] \in Answer /\ messages.answer[c] \in Answer
    BY ShownTyped
  <2>2. messages'.answer = [messages.answer EXCEPT ![d].status = "running"]
    BY <1>1 DEF Opened
  <2>3. /\ messages'.answer[d] = [messages.answer[d] EXCEPT !.status = "running"]
        /\ c # d => messages'.answer[c] = messages.answer[c]
    BY <2>2, ShownTyped
  <2>4. messages'.answer[d].status = "running" /\ messages'.answer[d].text = messages.answer[d].text
    BY <2>1, <2>3 DEF Answer
  <2>5. \/ UNCHANGED <<active, requests>> /\ UNCHANGED messages
        \/ active' = d /\ requests' \subseteq requests \cup {[method |-> "turn.start", call |-> d, by |-> "send"]}
    BY DEF Open, CommitFails, Sent
  <2> QED
    BY <2>3, <2>4, <2>5
<1>2. CASE UNCHANGED <<messages, active, requests>>
  BY <1>2
<1> QED
  BY <1>1, <1>2 DEF Open, Commit, CommitFails

LEMMA CloseMoves ==
    ASSUME TypeOK, NEW d \in Call, NEW how \in Final, Close(d, how), NEW c \in Call
    PROVE  /\ messages'.answer[c].text = messages.answer[c].text
           /\ \/ UNCHANGED <<messages, active>>
              \/ /\ active = d /\ active' = None
                 /\ c # d => messages'.answer[c] = messages.answer[c]
                 /\ messages'.answer[d].status = how
<1>1. CASE messages' = Closed(how) /\ active = d /\ active' = None
  <2>1. messages.answer[d] \in Answer
    BY ShownTyped
  <2>2. messages'.answer = [messages.answer EXCEPT ![d].status = how]
    BY <1>1, Changed DEF Closed, TypeOK
  <2>3. /\ messages'.answer[d] = [messages.answer[d] EXCEPT !.status = how]
        /\ c # d => messages'.answer[c] = messages.answer[c]
    BY <2>2, ShownTyped
  <2>4. messages'.answer[d].status = how /\ messages'.answer[d].text = messages.answer[d].text
    BY <2>1, <2>3 DEF Answer
  <2> QED
    BY <1>1, <2>3, <2>4
<1>2. CASE UNCHANGED <<messages, active>>
  BY <1>2
<1> QED
  BY <1>1, <1>2 DEF Close, Commit, CommitFails, ActiveTurn, ActiveEnds

LEMMA ChunkMoves ==
    ASSUME TypeOK, NEW d \in Call, NEW n \in 1 .. MaxChunks, Chunk(d, n), NEW c \in Call
    PROVE  /\ messages'.answer[c].status = messages.answer[c].status
           /\ c # d \/ active # c => messages'.answer[c] = messages.answer[c]
           /\ active = d /\ errors' = 0 => messages'.answer[d].text = Append(messages.answer[d].text, n)
<1>1. CASE messages' = Grown(n) /\ active = d
  <2>1. messages.answer[d] \in Answer
    BY ShownTyped
  <2>2. messages'.answer = [messages.answer EXCEPT ![d].text = Append(@, n)]
    BY <1>1, Changed DEF Grown, TypeOK
  <2>3. /\ messages'.answer[d] = [messages.answer[d] EXCEPT !.text = Append(@, n)]
        /\ c # d => messages'.answer[c] = messages.answer[c]
    BY <2>2, ShownTyped
  <2>4. /\ messages'.answer[d].status = messages.answer[d].status
        /\ messages'.answer[d].text = Append(messages.answer[d].text, n)
    BY <2>1, <2>3 DEF Answer
  <2> QED
    BY <1>1, <2>3, <2>4
<1>2. CASE UNCHANGED messages /\ (errors' = errors + 1 \/ active # d)
  BY <1>2 DEF TypeOK
<1> QED
  BY <1>1, <1>2 DEF Chunk, Commit, CommitFails, ActiveTurn, Failing

LEMMA SteerMoves ==
    ASSUME TypeOK, NEW q \in Query, Queue(q)
    PROVE  messages'.answer = messages.answer
BY ShownTyped DEF Queue, Commit, CommitFails, Steered

----------------------------------------------------------------------------
(* Go keeps its order: Begun is kept.                                      *)

\* Nothing that Begun(c) speaks of has changed but its answer, which is not done now.
LEMMA BegunKept ==
    ASSUME NEW c \in Call, Begun(c), up' = up, UNCHANGED <<sent, notices>>,
           goAt'[c] = goAt[c],
           Pending(c, "turn.start")' => Pending(c, "turn.start"),
           messages'.answer[c].status \in {"absent", "done"} =>
               messages'.answer[c].status = messages.answer[c].status
    PROVE  Begun(c)'
<1>1. Unstarted(c) => Unstarted(c)'
  BY DEF Unstarted
<1> QED
  BY <1>1 DEF Begun

\* Only requests to cancel are added.
LEMMA CancelsOnly ==
    ASSUME NEW c \in Call, NEW d, NEW who,
           requests' \subseteq requests \cup Sent("turn.cancel", d, who)
    PROVE  Pending(c, "turn.start")' => Pending(c, "turn.start")
BY DEF Pending, Sent

LEMMA CommandBegun ==
    ASSUME Safe, NEW c \in Call, Begun(c),
           (\E d \in Call, q \in Query : Open(d, q)) \/ (\E q \in Query : Queue(q)) \/ Stop \/ Quit
              \/ (\E d \in Call : Sending(d))
    PROVE  Begun(c)'
<1>1. ASSUME NEW d \in Call, NEW q \in Query, Open(d, q)
      PROVE  Begun(c)'
  <2>1. /\ up' = up /\ UNCHANGED <<sent, notices, goAt>> /\ messages.answer[d].status = "absent" /\ up
    BY <1>1 DEF Open, procVars, goVars, Fresh
  <2>2. CASE UNCHANGED <<messages, active, requests>>
    BY <2>1, <2>2, BegunKept DEF Pending
  <2>3. CASE /\ messages'.answer[d].status = "running"
             /\ requests' \subseteq requests \cup {[method |-> "turn.start", call |-> d, by |-> "send"]}
    <3>1. CASE c = d
      <4>1. goAt[c] = "none" /\ sent[c] = 0 /\ Silent(notices, c)
        BY <2>1, <3>1 DEF Begun, Unstarted
      <4>2. Unended(notices, c)
        BY <4>1 DEF Begun
      <4> QED
        BY <2>1, <2>3, <3>1, <4>1, <4>2 DEF Begun
    <3>2. CASE c # d
      <4>1. messages'.answer[c] = messages.answer[c]
        BY <1>1, <3>2, OpenMoves DEF Safe
      <4>2. Pending(c, "turn.start")' => Pending(c, "turn.start")
        BY <2>3, <3>2 DEF Pending
      <4> QED
        BY <2>1, <4>1, <4>2, BegunKept
    <3> QED
      BY <3>1, <3>2
  <2> QED
    BY <1>1, <2>2, <2>3, OpenMoves DEF Safe
<1>2. ASSUME NEW q \in Query, Queue(q)
      PROVE  Begun(c)'
  <2>1. messages'.answer = messages.answer /\ UNCHANGED <<up, requests, goAt, sent, notices>>
    BY <1>2, SteerMoves DEF Safe, Queue, procVars, goVars
  <2> QED
    BY <2>1, BegunKept DEF Pending
<1>3. CASE Stop
  <2>1. /\ UNCHANGED <<messages, up, goAt, sent, notices>>
        /\ requests' \subseteq requests \cup Sent("turn.cancel", active, "stop")
    BY <1>3 DEF Stop, procVars, goVars
  <2> QED
    BY <2>1, BegunKept, CancelsOnly
<1>4. ASSUME NEW d \in Call, SenderAccepted(d) \/ SenderGivesUp(d)
      PROVE  Begun(c)'
  <2>1. /\ UNCHANGED <<messages, up, goAt, sent, notices>>
        /\ requests' \subseteq requests \cup Sent("turn.cancel", d, "send")
    BY <1>4 DEF SenderAccepted, SenderGivesUp, procVars, goVars, sessVars
  <2> QED
    BY <2>1, BegunKept, CancelsOnly
<1>5. ASSUME NEW d \in Call, NEW how \in {"failed", "cancelled"}, Close(d, how),
             UNCHANGED <<up, requests, goAt, sent, notices>>
      PROVE  Begun(c)'
  <2>1. how \in Final
    BY DEF Final
  <2>2. messages'.answer[c].status \in {"absent", "done"} =>
            messages'.answer[c].status = messages.answer[c].status
    BY <1>5, <2>1, CloseMoves DEF Safe
  <2> QED
    BY <1>5, <2>2, BegunKept DEF Pending
<1>6. ASSUME NEW d \in Call, SenderCloses(d)
      PROVE  Begun(c)'
  BY <1>5, <1>6 DEF SenderCloses, procVars, goVars
<1>7. CASE Quit
  <2>1. UNCHANGED <<up, requests, goAt, sent, notices>>
    BY <1>7 DEF Quit, goVars
  <2>2. CASE active = None
    BY <1>7, <2>1, <2>2, BegunKept DEF Quit, Pending
  <2>3. CASE active # None
    BY <1>5, <1>7, <2>1, <2>3 DEF Quit, Safe, TypeOK
  <2> QED
    BY <2>2, <2>3
<1> QED
  BY <1>1, <1>2, <1>3, <1>4, <1>6, <1>7 DEF Sending

LEMMA DeliverBegun ==
    ASSUME Safe, NEW c \in Call, Begun(c), Deliver
    PROVE  Begun(c)'
<1>1. notices \in Seq(Notice) /\ notices # <<>> /\ Head(notices) \in Notice
  BY FirstNotice DEF Deliver, Safe, TypeOK
<1>2. UNCHANGED <<up, requests, goAt, sent>> /\ up /\ notices' = Tail(notices)
  BY DEF Deliver, procVars, goVars
<1>3. /\ Silent(notices, c) => Silent(notices', c)
      /\ Unended(notices, c) => Unended(notices', c)
  BY <1>1, <1>2, SilentTaken
<1>4. /\ messages'.answer[c].status = "absent" => messages.answer[c].status = "absent"
      /\ messages'.answer[c].status = "done" => messages.answer[c].status = "done" \/ ~Unended(notices, c)
  <2>1. CASE Head(notices).kind = "chunk" /\ Chunk(Head(notices).call, Head(notices).n)
    <3>1. Head(notices).call \in Call /\ Head(notices).n \in 1 .. MaxChunks
      BY <1>1, <2>1, NoticeShape
    <3> QED
      BY <2>1, <3>1, ChunkMoves DEF Safe
  <2>2. CASE Head(notices).kind = "closed" /\ Close(Head(notices).call, Head(notices).status)
    <3>1. Head(notices).call \in Call /\ Head(notices).status \in Final
      BY <1>1, <2>2, NoticeShape
    <3>2. Head(notices).call = c => ~Unended(notices, c)
      <4>1. Head(notices) = notices[1] /\ 1 \in 1 .. Len(notices)
        BY <1>1, Taken
      <4> QED
        BY <2>2, <4>1 DEF Unended
    <3>3. messages'.answer[c].status = "absent" => messages.answer[c].status = "absent"
      BY <2>2, <3>1, CloseMoves DEF Safe, Final
    <3>4. Head(notices).call # c => messages'.answer[c].status = messages.answer[c].status
      BY <2>2, <3>1, CloseMoves DEF Safe
    <3> QED
      BY <3>2, <3>3, <3>4
  <2> QED
    BY <2>1, <2>2 DEF Deliver
<1>5. Unstarted(c) => Unstarted(c)'
  BY <1>2, <1>3 DEF Unstarted, Pending
<1>6. Pending(c, "turn.start")' => Pending(c, "turn.start")
  BY <1>2 DEF Pending
<1> QED
  BY <1>2, <1>3, <1>4, <1>5, <1>6 DEF Begun

LEMMA GoBegun ==
    ASSUME Safe, up, NEW c \in Call, Begun(c), Serving \/ \E d \in Call : Turn(d)
    PROVE  Begun(c)'
<1>t. /\ goAt \in [Call -> {"none", "refused", "work", "steer", "over"}]
      /\ sent \in [Call -> 0 .. MaxChunks] /\ notices \in Seq(Notice) /\ requests \subseteq Request
  BY DEF Safe, TypeOK
<1>1. ASSUME NEW r \in requests, GoStarts(r.call)
      PROVE  Begun(c)'
  <2>1. /\ UNCHANGED <<messages, up, sent, notices>> /\ r.call \in Call
        /\ Pending(r.call, "turn.start")
        /\ goAt' = [goAt EXCEPT ![r.call] = "work"] \/ goAt' = [goAt EXCEPT ![r.call] = "refused"]
        /\ requests' = requests \ {[method |-> "turn.start", call |-> r.call, by |-> "send"]}
    BY <1>t, <1>1 DEF GoStarts, procVars, sessVars, Request
  <2>2. CASE c = r.call
    <3>1. /\ goAt[c] = "none" /\ messages.answer[c].status \notin {"done", "absent"}
          /\ sent[c] = 0 /\ Silent(notices, c) /\ Unended(notices, c)
      BY <2>1, <2>2 DEF Begun, Unstarted
    <3>2. ~Pending(c, "turn.start")'
      BY <2>1, <2>2 DEF Pending
    <3> QED
      BY <2>1, <3>1, <3>2 DEF Begun
  <2>3. CASE c # r.call
    <3>1. goAt'[c] = goAt[c]
      BY <1>t, <2>1, <2>3
    <3>2. Pending(c, "turn.start")' => Pending(c, "turn.start")
      BY <2>1 DEF Pending
    <3> QED
      BY <2>1, <3>1, <3>2, BegunKept
  <2> QED
    BY <2>2, <2>3
<1>2. ASSUME NEW r \in requests, GoCancels(r)
      PROVE  Begun(c)'
  <2>1. UNCHANGED <<messages, up, goAt, sent, notices>> /\ requests' \subseteq requests
    BY <1>2 DEF GoCancels, procVars, sessVars
  <2>2. Pending(c, "turn.start")' => Pending(c, "turn.start")
    BY <2>1 DEF Pending
  <2> QED
    BY <2>1, <2>2, BegunKept
\* the turn goes on with what Begun does not tell apart
<1>3. ASSUME NEW d \in Call, goAt[d] \in {"work", "steer"}, goAt'[d] \in {"work", "steer", "over"},
             UNCHANGED <<messages, up, requests>>,
             \A e \in Call : e # d => goAt'[e] = goAt[e] /\ sent'[e] = sent[e],
             \/ notices' = notices
             \/ \E x \in Notice : /\ notices' = Append(notices, x) /\ x.call = d
                                  /\ x.kind = "closed" => goAt'[d] = "over"
      PROVE  Begun(c)'
  <2>1. CASE c = d
    <3>1. /\ goAt[c] \notin {"none", "refused", "over"} /\ messages.answer[c].status \notin {"absent", "done"}
          /\ ~Pending(c, "turn.start") /\ Unended(notices, c)
      BY <1>3, <2>1 DEF Begun, Unstarted
    <3>2. ~Unended(notices, c)' => goAt'[c] = "over"
      <4>1. CASE notices' = notices
        BY <3>1, <4>1 DEF Unended
      <4>2. ASSUME NEW x \in Notice, notices' = Append(notices, x), x.kind = "closed" => goAt'[d] = "over"
            PROVE  ~Unended(notices, c)' => goAt'[c] = "over"
        BY <1>t, <2>1, <3>1, <4>2, SilentAppended, NoticeShape
      <4> QED
        BY <1>3, <4>1, <4>2
    <3>3. ~Pending(c, "turn.start")'
      BY <1>3, <3>1 DEF Pending
    <3> QED
      BY <1>3, <2>1, <3>1, <3>2, <3>3 DEF Begun
  <2>2. CASE c # d
    <3>1. /\ Silent(notices, c) => Silent(notices', c)
          /\ Unended(notices, c) => Unended(notices', c)
      BY <1>t, <1>3, <2>2, SilentAppended
    <3>2. Pending(c, "turn.start")' <=> Pending(c, "turn.start")
      BY <1>3 DEF Pending
    <3>3. goAt'[c] = goAt[c] /\ sent'[c] = sent[c]
      BY <1>3, <2>2
    <3>4. Unstarted(c) => Unstarted(c)'
      BY <3>1, <3>2, <3>3 DEF Unstarted
    <3> QED
      BY <1>3, <3>1, <3>2, <3>3, <3>4 DEF Begun
  <2> QED
    BY <2>1, <2>2
<1>4. ASSUME NEW d \in Call, GoChunk(d)
      PROVE  Begun(c)'
  <2>1. [kind |-> "chunk", call |-> d, n |-> sent[d] + 1] \in Notice
    BY <1>t, <1>4, BoundsAssumption DEF GoChunk, Notice
  <2>2. /\ UNCHANGED <<messages, up, requests, goAt>> /\ goAt[d] = "work"
        /\ \A e \in Call : e # d => sent'[e] = sent[e]
        /\ notices' = Append(notices, [kind |-> "chunk", call |-> d, n |-> sent[d] + 1])
    BY <1>t, <1>4 DEF GoChunk, procVars, sessVars
  <2>3. \E x \in Notice : /\ notices' = Append(notices, x) /\ x.call = d
                          /\ x.kind = "closed" => goAt'[d] = "over"
    BY <2>1, <2>2
  <2> QED
    BY <1>3, <2>2, <2>3
<1>5. ASSUME NEW d \in Call, NEW how \in Final, GoEnds(d, how)
      PROVE  Begun(c)'
  <2>1. [kind |-> "closed", call |-> d, status |-> how] \in Notice
    BY DEF Notice
  <2>2. /\ UNCHANGED <<messages, up, requests, sent>> /\ goAt[d] \in {"work", "steer"} /\ goAt'[d] = "over"
        /\ \A e \in Call : e # d => goAt'[e] = goAt[e]
        /\ notices' = Append(notices, [kind |-> "closed", call |-> d, status |-> how])
    BY <1>t, <1>5 DEF GoEnds, procVars, sessVars
  <2>3. \E x \in Notice : /\ notices' = Append(notices, x) /\ x.call = d
                          /\ x.kind = "closed" => goAt'[d] = "over"
    BY <2>1, <2>2
  <2> QED
    BY <1>3, <2>2, <2>3
<1>6. ASSUME NEW d \in Call, GoSteer(d)
      PROVE  Begun(c)'
  <2>1. /\ UNCHANGED <<messages, up, requests, sent, notices>> /\ goAt[d] = "work" /\ goAt'[d] = "steer"
        /\ \A e \in Call : e # d => goAt'[e] = goAt[e]
    BY <1>t, <1>6 DEF GoSteer, procVars, sessVars
  <2> QED
    BY <1>3, <2>1
<1>7. ASSUME NEW d \in Call, Drain(d)
      PROVE  Begun(c)'
  <2>1. UNCHANGED <<messages, up, requests, sent, notices>>
    BY <1>7 DEF Drain, procVars
  <2>2. CASE goAt[d] = "steer" /\ goAt' = [goAt EXCEPT ![d] = "work"]
    <3>1. goAt'[d] = "work" /\ \A e \in Call : e # d => goAt'[e] = goAt[e]
      BY <1>t, <2>2
    <3> QED
      BY <1>3, <2>1, <2>2, <3>1
  <2>3. CASE goAt' = goAt
    BY <2>1, <2>3, BegunKept DEF Pending
  <2> QED
    BY <1>7, <2>2, <2>3 DEF Drain
<1> QED
  BY <1>1, <1>2, <1>4, <1>5, <1>6, <1>7 DEF Serving, Turn

LEMMA EndingBegun ==
    ASSUME Safe, NEW c \in Call, Begun(c), Disconnect \/ Crash \/ Restart
    PROVE  Begun(c)'
<1>t. /\ goAt \in [Call -> {"none", "refused", "work", "steer", "over"}]
      /\ notices \in Seq(Notice)
  BY DEF Safe, TypeOK
<1>1. CASE Disconnect
  <2>1. PICK e \in 0 .. Len(notices) : notices' = SubSeq(notices, 1, e)
    BY <1>1 DEF Disconnect
  <2>2. /\ Silent(notices, c) => Silent(notices', c)
        /\ Unended(notices, c) => Unended(notices', c)
    BY <1>t, <2>1, SilentShortened
  <2>3. /\ UNCHANGED <<messages, up, sent>> /\ requests' = {} /\ up
        /\ goAt'[c] = IF Live(c) THEN "over" ELSE goAt[c]
    BY <1>1 DEF Disconnect, sessVars
  <2>4. ~Pending(c, "turn.start")'
    BY <2>3 DEF Pending
  <2> QED
    BY <2>2, <2>3, <2>4 DEF Begun, Unstarted, Live
<1>2. CASE Crash
  <2>1. ~up' /\ goAt'[c] = "none" /\ sent'[c] = 0 /\ requests' = {} /\ notices' = <<>>
    BY <1>2 DEF Crash, Each
  <2>2. Silent(notices, c)' /\ Unended(notices, c)' /\ ~Pending(c, "turn.start")'
    BY <2>1 DEF Silent, Unended, Pending
  <2> QED
    BY <2>1, <2>2 DEF Begun, Unstarted
<1>3. CASE Restart
  <2>1. ~up /\ UNCHANGED <<goAt, sent, notices, requests>>
    BY <1>3 DEF Restart, goVars
  <2>2. Unstarted(c) /\ Unended(notices, c)
    BY <2>1 DEF Begun, Unstarted
  <2>3. Unstarted(c)' /\ Unended(notices, c)'
    BY <2>1, <2>2 DEF Unstarted, Pending
  <2> QED
    BY <2>3 DEF Begun, Unstarted
<1> QED
  BY <1>1, <1>2, <1>3

----------------------------------------------------------------------------
(* The answer follows its chunks.                                          *)

Count(n) == [i \in 1 .. n |-> i]

\* The active answer holds the chunks that were delivered, and those under way continue it.
Follows(c) ==
    active = c =>
        /\ Len(messages.answer[c].text) <= sent[c]
        /\ messages.answer[c].text = Count(Len(messages.answer[c].text))
        /\ InLine(notices, c, Len(messages.answer[c].text), sent[c])
        /\ Live(c) => Complete(notices, c, Len(messages.answer[c].text), sent[c])

\* An answer that is done holds all that Go sent.
Whole(c) == messages.answer[c].status = "done" /\ goAt[c] # "none" =>
                messages.answer[c].text = Count(sent[c])

Tracks(c) == Follows(c) /\ Whole(c)

\* Where nothing is written, or it is written at once to both, the disk holds what is shown.
Mirrors == up => replay = messages

\* One answer at most is running on the disk, and an absent one is empty.
Orderly(r) ==
    /\ \A c \in Call : r.answer[c].status = "absent" => r.answer[c].text = <<>>
    /\ \A c, d \in Call :
        r.answer[c].status = "running" /\ r.answer[d].status = "running" => c = d

LEMMA TextLength ==
    ASSUME TypeOK, NEW c \in Call
    PROVE  /\ messages.answer[c].text \in Seq(1 .. MaxChunks) /\ Len(messages.answer[c].text) \in Nat
           /\ sent[c] \in 0 .. MaxChunks /\ sent[c] \in Nat
<1>1. messages.answer[c] \in Answer
  BY ShownTyped
<1>2. messages.answer[c].text \in Seq(1 .. MaxChunks)
  BY <1>1 DEF Answer
<1>3. sent[c] \in 0 .. MaxChunks
  BY DEF TypeOK
<1> QED
  BY <1>2, <1>3, BoundsAssumption

LEMMA CountGrows ==
    ASSUME NEW n \in Nat
    PROVE  Len(Count(n)) = n /\ Append(Count(n), n + 1) = Count(n + 1)
<1>1. Count(n) \in Seq(Nat) /\ Len(Count(n)) = n
  BY DEF Count
<1>2. Append(Count(n), n + 1) \in Seq(Nat) /\ Len(Append(Count(n), n + 1)) = n + 1
  BY <1>1
<1>3. Count(n + 1) \in Seq(Nat) /\ Len(Count(n + 1)) = n + 1
  BY DEF Count
<1>4. ASSUME NEW i \in 1 .. n + 1
      PROVE  Append(Count(n), n + 1)[i] = Count(n + 1)[i]
  BY <1>1 DEF Count
<1>5. Append(Count(n), n + 1) = [i \in 1 .. n + 1 |-> Append(Count(n), n + 1)[i]]
  BY <1>2
<1>6. Count(n + 1) = [i \in 1 .. n + 1 |-> Count(n + 1)[i]]
  BY <1>3
<1>7. Append(Count(n), n + 1) = Count(n + 1)
  BY <1>4, <1>5, <1>6
<1> QED
  BY <1>1, <1>7

\* Nothing that Tracks(c) speaks of has changed, unless the turn ended.
LEMMA TracksKept ==
    ASSUME NEW c \in Call, Tracks(c), UNCHANGED <<sent, notices>>,
           messages'.answer[c].text = messages.answer[c].text,
           active' = c => active = c,
           Live(c)' => Live(c),
           messages'.answer[c].status = "done" /\ goAt'[c] # "none" =>
               messages.answer[c].status = "done" /\ goAt[c] # "none"
    PROVE  Tracks(c)'
<1>1. Follows(c)'
  <2>1. CASE active' = c
    <3>1. /\ Len(messages.answer[c].text) <= sent[c]
          /\ messages.answer[c].text = Count(Len(messages.answer[c].text))
          /\ InLine(notices, c, Len(messages.answer[c].text), sent[c])
          /\ Live(c) => Complete(notices, c, Len(messages.answer[c].text), sent[c])
      BY <2>1 DEF Tracks, Follows
    <3> QED
      BY <3>1 DEF Follows
  <2> QED
    BY <2>1 DEF Follows
<1>2. Whole(c)'
  BY DEF Tracks, Whole
<1> QED
  BY <1>1, <1>2 DEF Tracks

LEMMA CommandTracks ==
    ASSUME Safe, Mirrors, Orderly(replay), NEW c \in Call, Begun(c), Tracks(c),
           (\E d \in Call, q \in Query : Open(d, q)) \/ (\E q \in Query : Queue(q)) \/ Stop \/ Quit
              \/ (\E d \in Call : Sending(d))
    PROVE  Tracks(c)'
<1>n. c # None /\ None \notin Call
  BY BoundsAssumption
<1>1. ASSUME NEW d \in Call, NEW q \in Query, Open(d, q)
      PROVE  Tracks(c)'
  <2>1. /\ UNCHANGED <<sent, notices, goAt>> /\ messages.answer[d].status = "absent" /\ up /\ active = None
    BY <1>1 DEF Open, goVars, Fresh
  <2>2. CASE UNCHANGED <<messages, active, requests>>
    BY <2>1, <2>2, TracksKept DEF Live
  <2>3. CASE messages'.answer[d].status = "running" /\ active' = d
    <3>1. CASE c = d
      <4>1. goAt[c] = "none" /\ sent[c] = 0 /\ Silent(notices, c)
        BY <2>1, <3>1 DEF Begun, Unstarted
      <4>2. messages'.answer[c].text = <<>>
        BY <1>1, <2>1, <3>1, OpenMoves DEF Safe, Mirrors, Orderly
      <4>3. InLine(notices, c, 0, 0)
        BY <4>1, SilentInLine DEF Safe, TypeOK
      <4>4. Follows(c)'
        BY <2>1, <4>1, <4>2, <4>3 DEF Follows, Count, Live
      <4> QED
        BY <2>1, <4>1, <4>4 DEF Tracks, Whole
    <3>2. CASE c # d
      <4>1. messages'.answer[c] = messages.answer[c]
        BY <1>1, <3>2, OpenMoves DEF Safe
      <4> QED
        BY <2>1, <2>3, <3>2, <4>1, TracksKept DEF Live
    <3> QED
      BY <3>1, <3>2
  <2> QED
    BY <1>1, <2>2, <2>3, OpenMoves DEF Safe
<1>2. ASSUME NEW q \in Query, Queue(q)
      PROVE  Tracks(c)'
  <2>1. messages'.answer = messages.answer /\ UNCHANGED <<active, goAt, sent, notices>>
    BY <1>2, SteerMoves DEF Safe, Queue, goVars
  <2> QED
    BY <2>1, TracksKept DEF Live
<1>3. CASE Stop \/ \E d \in Call : SenderAccepted(d) \/ SenderGivesUp(d)
  <2>1. UNCHANGED <<messages, active, goAt, sent, notices>>
    BY <1>3 DEF Stop, SenderAccepted, SenderGivesUp, goVars, sessVars
  <2> QED
    BY <2>1, TracksKept DEF Live
<1>4. ASSUME NEW d \in Call, NEW how \in {"failed", "cancelled"}, Close(d, how),
             UNCHANGED <<goAt, sent, notices>>
      PROVE  Tracks(c)'
  <2>1. how \in Final /\ how # "done"
    BY <1>4 DEF Final
  <2>2. /\ messages'.answer[c].text = messages.answer[c].text
        /\ active' = c => active = c
        /\ messages'.answer[c].status = "done" => messages.answer[c].status = "done"
    BY <1>4, <1>n, <2>1, CloseMoves DEF Safe
  <2> QED
    BY <1>4, <2>2, TracksKept DEF Live
<1>5. ASSUME NEW d \in Call, SenderCloses(d)
      PROVE  Tracks(c)'
  BY <1>4, <1>5 DEF SenderCloses, goVars
<1>6. CASE Quit
  <2>1. UNCHANGED <<goAt, sent, notices>>
    BY <1>6 DEF Quit, goVars
  <2>2. CASE active = None
    BY <1>6, <2>1, <2>2, TracksKept DEF Quit, Live
  <2>3. CASE active # None
    BY <1>4, <1>6, <2>1, <2>3 DEF Quit, Safe, TypeOK
  <2> QED
    BY <2>2, <2>3
<1> QED
  BY <1>1, <1>2, <1>3, <1>5, <1>6 DEF Sending

LEMMA DeliverTracks ==
    ASSUME Safe, NEW c \in Call, Begun(c), Tracks(c), Deliver, errors' = 0
    PROVE  Tracks(c)'
<1> DEFINE l == Len(messages.answer[c].text)
<1>n. c # None
  BY BoundsAssumption
<1>1. notices \in Seq(Notice) /\ notices # <<>> /\ Head(notices) \in Notice
  BY FirstNotice DEF Deliver, Safe, TypeOK
<1>2. UNCHANGED <<goAt, sent>> /\ up /\ notices' = Tail(notices)
  BY DEF Deliver, goVars
<1>3. l \in Nat /\ sent[c] \in Nat
  BY TextLength DEF Safe
<1>4. CASE Head(notices).kind = "chunk" /\ Chunk(Head(notices).call, Head(notices).n) /\ UNCHANGED active
  <2>1. Head(notices).call \in Call /\ Head(notices).n \in 1 .. MaxChunks
    BY <1>1, <1>4, NoticeShape
  <2>2. messages'.answer[c].status = messages.answer[c].status
    BY <1>4, <2>1, ChunkMoves DEF Safe
  <2>3. CASE active # c
    <3>1. messages'.answer[c] = messages.answer[c]
      BY <1>4, <2>1, <2>3, ChunkMoves DEF Safe
    <3> QED
      BY <1>2, <1>4, <2>3, <3>1 DEF Tracks, Follows, Whole
  <2>4. CASE active = c /\ Head(notices).call # c
    <3>1. messages'.answer[c] = messages.answer[c]
      BY <1>4, <2>1, <2>4, ChunkMoves DEF Safe
    <3>2. /\ InLine(Tail(notices), c, l, sent[c])
          /\ Live(c) => Complete(Tail(notices), c, l, sent[c])
      BY <1>1, <1>3, <2>4, OtherTaken DEF Tracks, Follows, Of
    <3>3. l <= sent[c] /\ messages.answer[c].text = Count(l)
      BY <2>4 DEF Tracks, Follows
    <3>4. Follows(c)'
      BY <1>2, <3>1, <3>2, <3>3 DEF Follows, Live
    <3> QED
      BY <1>2, <3>1, <3>4 DEF Tracks, Whole
  <2>5. CASE active = c /\ Head(notices).call = c
    <3>1. Of(Head(notices), c)
      BY <1>4, <2>5 DEF Of
    <3>2. InLine(notices, c, l, sent[c]) /\ messages.answer[c].text = Count(l)
          /\ (Live(c) => Complete(notices, c, l, sent[c]))
      BY <2>5 DEF Tracks, Follows
    <3>3. /\ Head(notices).n = l + 1 /\ l + 1 <= sent[c]
          /\ InLine(Tail(notices), c, l + 1, sent[c])
          /\ Live(c) => Complete(Tail(notices), c, l + 1, sent[c])
      BY <1>1, <1>3, <3>1, <3>2, ChunkTaken
    <3>4. messages'.answer[c].text = Append(Count(l), l + 1)
      <4>1. messages'.answer[c].text = Append(messages.answer[c].text, Head(notices).n)
        BY <1>4, <2>1, <2>5, ChunkMoves DEF Safe
      <4> QED
        BY <3>2, <3>3, <4>1
    <3>5. messages'.answer[c].text = Count(l + 1) /\ Len(messages'.answer[c].text) = l + 1
      <4> HIDE DEF l
      <4>1. Append(Count(l), l + 1) = Count(l + 1)
        BY <1>3, CountGrows
      <4>2. l + 1 \in Nat
        BY <1>3
      <4>3. Len(Count(l + 1)) = l + 1
        BY <4>2, CountGrows
      <4> QED
        BY <3>4, <4>1, <4>3
    <3>6. Follows(c)'
      BY <1>2, <3>3, <3>5 DEF Follows, Live
    <3>7. messages.answer[c].status = "running"
      BY <1>2, <2>5 DEF Safe, OneRunning
    <3> QED
      BY <2>2, <3>6, <3>7 DEF Tracks, Whole
  <2> QED
    BY <2>3, <2>4, <2>5
<1>5. CASE Head(notices).kind = "closed" /\ Close(Head(notices).call, Head(notices).status)
  <2>1. Head(notices).call \in Call /\ Head(notices).status \in Final
    BY <1>1, <1>5, NoticeShape
  <2>2. messages'.answer[c].text = messages.answer[c].text
    BY <1>5, <2>1, CloseMoves DEF Safe
  <2>3. active' = c => active = c
    BY <1>5, <1>n, <2>1, CloseMoves DEF Safe
  <2>4. Follows(c)'
    <3>1. CASE active = c
      <4>1. /\ InLine(Tail(notices), c, l, sent[c])
            /\ Live(c) => Complete(Tail(notices), c, l, sent[c])
        BY <1>1, <1>3, <1>5, <3>1, OtherTaken DEF Tracks, Follows, Of
      <4>2. l <= sent[c] /\ messages.answer[c].text = Count(l)
        BY <3>1 DEF Tracks, Follows
      <4> QED
        BY <1>2, <2>2, <4>1, <4>2 DEF Follows, Live
    <3>2. CASE active # c
      BY <2>3, <3>2 DEF Follows
    <3> QED
      BY <3>1, <3>2
  <2>5. ASSUME messages'.answer[c].status = "done", messages.answer[c].status # "done"
        PROVE  messages.answer[c].text = Count(sent[c])
    <3>1. Head(notices).call = c /\ active = c /\ Head(notices).status = "done"
      BY <1>5, <2>1, <2>5, CloseMoves DEF Safe
    <3>2. l = sent[c] /\ messages.answer[c].text = Count(l)
      BY <1>1, <1>3, <1>5, <3>1, EndTaken DEF Tracks, Follows
    <3> QED
      BY <3>2
  <2>6. Whole(c)'
    BY <1>2, <2>2, <2>5 DEF Tracks, Whole
  <2> QED
    BY <2>4, <2>6 DEF Tracks
<1> QED
  BY <1>4, <1>5 DEF Deliver

LEMMA GoTracks ==
    ASSUME Safe, up, NEW c \in Call, Begun(c), Tracks(c), Serving \/ \E d \in Call : Turn(d)
    PROVE  Tracks(c)'
<1> DEFINE l == Len(messages.answer[c].text)
<1>t. /\ goAt \in [Call -> {"none", "refused", "work", "steer", "over"}]
      /\ sent \in [Call -> 0 .. MaxChunks] /\ notices \in Seq(Notice) /\ requests \subseteq Request
      /\ l \in Nat /\ sent[c] \in Nat
  BY TextLength DEF Safe, TypeOK
<1>1. ASSUME NEW r \in requests, GoStarts(r.call)
      PROVE  Tracks(c)'
  <2>1. /\ UNCHANGED <<messages, active, sent, notices>> /\ r.call \in Call
        /\ Pending(r.call, "turn.start")
        /\ goAt' = [goAt EXCEPT ![r.call] = "work"] \/ goAt' = [goAt EXCEPT ![r.call] = "refused"]
    BY <1>t, <1>1 DEF GoStarts, sessVars, Request
  <2>2. CASE c = r.call
    <3>1. messages.answer[c].status # "done" /\ sent[c] = 0
      BY <2>1, <2>2 DEF Begun
    <3>2. Follows(c)'
      <4>1. \A s : s = 0 => Complete(notices, c, l, s)
        BY <1>t DEF Complete
      <4> QED
        BY <2>1, <3>1, <4>1 DEF Tracks, Follows
    <3> QED
      BY <2>1, <3>1, <3>2 DEF Tracks, Whole
  <2>3. CASE c # r.call
    <3>1. goAt'[c] = goAt[c]
      BY <1>t, <2>1, <2>3
    <3> QED
      BY <2>1, <3>1, TracksKept DEF Live
  <2> QED
    BY <2>2, <2>3
<1>2. ASSUME NEW r \in requests, GoCancels(r)
      PROVE  Tracks(c)'
  <2>1. UNCHANGED <<messages, active, goAt, sent, notices>>
    BY <1>2 DEF GoCancels, sessVars
  <2> QED
    BY <2>1, TracksKept DEF Live
<1>3. ASSUME NEW d \in Call, GoChunk(d)
      PROVE  Tracks(c)'
  <2> DEFINE x == [kind |-> "chunk", call |-> d, n |-> sent[d] + 1]
  <2>1. x \in Notice
    BY <1>t, <1>3, BoundsAssumption DEF GoChunk, Notice
  <2>2. /\ UNCHANGED <<messages, active, goAt>> /\ goAt[d] = "work" /\ notices' = Append(notices, x)
        /\ sent' = [sent EXCEPT ![d] = @ + 1]
    BY <1>3 DEF GoChunk, sessVars
  <2>3. CASE c = d
    <3>1. Unended(notices, c) /\ messages.answer[c].status # "done"
      BY <2>2, <2>3 DEF Begun
    <3>2. Of(x, c) /\ x.n = sent[c] + 1 /\ sent'[c] = sent[c] + 1
      BY <1>t, <2>2, <2>3 DEF Of
    <3>3. CASE active = c
      <4>1. /\ l <= sent[c] /\ messages.answer[c].text = Count(l)
            /\ InLine(notices, c, l, sent[c]) /\ Complete(notices, c, l, sent[c])
        BY <2>2, <2>3, <3>3 DEF Tracks, Follows, Live
      <4>2. InLine(notices', c, l, sent[c] + 1) /\ Complete(notices', c, l, sent[c] + 1)
        BY <1>t, <2>1, <2>2, <3>1, <3>2, <4>1, ChunkAppended
      <4>3. l <= sent[c] + 1
        BY <1>t, <4>1
      <4>4. Follows(c)'
        BY <2>2, <3>2, <4>1, <4>2, <4>3 DEF Follows
      <4> QED
        BY <2>2, <3>1, <4>4 DEF Tracks, Whole
    <3>4. CASE active # c
      BY <2>2, <3>1, <3>4 DEF Tracks, Follows, Whole
    <3> QED
      BY <3>3, <3>4
  <2>4. CASE c # d
    <3>1. sent'[c] = sent[c]
      BY <1>t, <2>2, <2>4
    <3>2. CASE active = c
      <4>1. /\ l <= sent[c] /\ messages.answer[c].text = Count(l) /\ InLine(notices, c, l, sent[c])
            /\ Live(c) => Complete(notices, c, l, sent[c])
        BY <3>2 DEF Tracks, Follows
      <4>2. ~Of(x, c) /\ x.call # c
        BY <2>4 DEF Of
      <4>3. InLine(notices', c, l, sent[c]) /\ (Live(c) => Complete(notices', c, l, sent[c]))
        BY <1>t, <2>1, <2>2, <4>1, <4>2, OtherAppended
      <4>4. Follows(c)'
        BY <2>2, <3>1, <4>1, <4>3 DEF Follows, Live
      <4> QED
        BY <2>2, <3>1, <4>4 DEF Tracks, Whole
    <3>3. CASE active # c
      BY <2>2, <3>1, <3>3 DEF Tracks, Follows, Whole
    <3> QED
      BY <3>2, <3>3
  <2> QED
    BY <2>3, <2>4
<1>4. ASSUME NEW d \in Call, NEW how \in Final, GoEnds(d, how)
      PROVE  Tracks(c)'
  <2> DEFINE x == [kind |-> "closed", call |-> d, status |-> how]
  <2>1. x \in Notice /\ ~Of(x, c)
    BY DEF Notice, Of
  <2>2. /\ UNCHANGED <<messages, active, sent>> /\ Live(d) /\ goAt[d] # "none"
        /\ goAt' = [goAt EXCEPT ![d] = "over"] /\ notices' = Append(notices, x)
    BY <1>4 DEF GoEnds, sessVars, Live
  <2>3. (Live(c)' => Live(c)) /\ (goAt'[c] # "none" => goAt[c] # "none")
    BY <1>t, <2>2 DEF Live
  <2>4. CASE active = c
    <3>1. /\ l <= sent[c] /\ messages.answer[c].text = Count(l) /\ InLine(notices, c, l, sent[c])
          /\ Live(c) => Complete(notices, c, l, sent[c])
      BY <2>4 DEF Tracks, Follows
    <3>2. x.call # c \/ Complete(notices, c, l, sent[c])
      BY <2>2, <3>1
    <3>3. InLine(notices', c, l, sent[c]) /\ (Live(c) => Complete(notices', c, l, sent[c]))
      BY <1>t, <2>1, <2>2, <3>1, <3>2, OtherAppended
    <3>4. Follows(c)'
      BY <2>2, <2>3, <3>1, <3>3 DEF Follows
    <3> QED
      BY <2>2, <2>3, <3>4 DEF Tracks, Whole
  <2>5. CASE active # c
    BY <2>2, <2>3, <2>5 DEF Tracks, Follows, Whole
  <2> QED
    BY <2>4, <2>5
<1>5. ASSUME NEW d \in Call, GoSteer(d) \/ Drain(d)
      PROVE  Tracks(c)'
  <2>1. /\ UNCHANGED <<messages, active, sent, notices>>
        /\ \/ goAt' = goAt
           \/ /\ Live(d) /\ goAt[d] # "none"
              /\ goAt' = [goAt EXCEPT ![d] = "steer"] \/ goAt' = [goAt EXCEPT ![d] = "work"]
    BY <1>5 DEF GoSteer, Drain, Live, sessVars
  <2>2. (Live(c)' => Live(c)) /\ (goAt'[c] # "none" => goAt[c] # "none")
    BY <1>t, <2>1 DEF Live
  <2> QED
    BY <2>1, <2>2, TracksKept
<1> QED
  BY <1>1, <1>2, <1>3, <1>4, <1>5 DEF Serving, Turn

LEMMA EndingTracks ==
    ASSUME Safe, NEW c \in Call, Begun(c), Tracks(c), Disconnect \/ Crash \/ Restart
    PROVE  Tracks(c)'
<1> DEFINE l == Len(messages.answer[c].text)
<1>n. c # None
  BY BoundsAssumption
<1>1. CASE Disconnect
  <2>1. notices \in Seq(Notice) /\ l \in Nat /\ sent[c] \in Nat
    BY TextLength DEF Safe, TypeOK
  <2>2. PICK e \in 0 .. Len(notices) : notices' = SubSeq(notices, 1, e)
    BY <1>1 DEF Disconnect
  <2>3. /\ UNCHANGED <<messages, active, sent>>
        /\ goAt'[c] = IF Live(c) THEN "over" ELSE goAt[c]
    BY <1>1 DEF Disconnect, sessVars
  <2>4. ~Live(c)' /\ (goAt'[c] # "none" => goAt[c] # "none")
    BY <2>3 DEF Live
  <2>5. Follows(c)'
    <3>1. CASE active = c
      <4>1. l <= sent[c] /\ messages.answer[c].text = Count(l) /\ InLine(notices, c, l, sent[c])
        BY <3>1 DEF Tracks, Follows
      <4>2. InLine(notices', c, l, sent[c])
        BY <2>1, <2>2, <4>1, LineShortened
      <4> QED
        BY <2>3, <2>4, <4>1, <4>2 DEF Follows
    <3> QED
      BY <2>3, <3>1 DEF Follows
  <2> QED
    BY <2>3, <2>4, <2>5 DEF Tracks, Whole
<1>2. CASE Crash
  <2>1. active' = None /\ goAt'[c] = "none"
    BY <1>2 DEF Crash, Each
  <2> QED
    BY <1>n, <2>1 DEF Tracks, Follows, Whole
<1>3. CASE Restart
  <2>1. active' = None /\ ~up /\ goAt' = goAt
    BY <1>3 DEF Restart, goVars, Safe, DownIsIdle
  <2>2. goAt[c] = "none"
    BY <2>1 DEF Begun, Unstarted
  <2> QED
    BY <1>n, <2>1, <2>2 DEF Tracks, Follows, Whole
<1> QED
  BY <1>1, <1>2, <1>3

----------------------------------------------------------------------------
(* What is written is the next state of the conversation.                  *)

\* The messages that a commit under way may be writing.
Talks(m) ==
    \/ active = None /\ \E c \in Call, q \in Query : Fresh(c) /\ m = Opened(c, q)
    \/ /\ active \in Call
       /\ \/ \E q \in Query : m = Steered(q)
          \/ \E how \in Final : m = Closed(how)
          \/ notices # <<>> /\ Of(Head(notices), active) /\ m = Grown(Head(notices).n)

LEMMA UpTalks ==
    ASSUME Safe, Up, errors' = 0
    PROVE  \/ UNCHANGED <<messages, replay>>
           \/ up /\ \E m : Talks(m) /\ messages' = m /\ replay' = m
<1>e. errors \in Nat
  BY BoundsAssumption DEF Safe, TypeOK
<1>1. ASSUME NEW m, Commit(m) \/ CommitFails(m)
      PROVE  messages' = m /\ replay' = m
  BY <1>e, <1>1 DEF Commit, CommitFails, Recorded, Failing
<1>2. ASSUME NEW c \in Call, NEW how \in Final, Close(c, how), up
      PROVE  \/ UNCHANGED <<messages, replay>>
             \/ up /\ \E m : Talks(m) /\ messages' = m /\ replay' = m
  <2>1. CASE active = c
    BY <1>1, <1>2, <2>1 DEF Close, ActiveTurn, Talks
  <2>2. CASE active # c
    BY <1>2, <2>2 DEF Close, ActiveTurn, diskVars
  <2> QED
    BY <2>1, <2>2
<1>3. ASSUME NEW c \in Call, NEW q \in Query, Open(c, q)
      PROVE  up /\ \E m : Talks(m) /\ messages' = m /\ replay' = m
  BY <1>1, <1>3 DEF Open, Talks
<1>4. ASSUME NEW q \in Query, Queue(q)
      PROVE  up /\ \E m : Talks(m) /\ messages' = m /\ replay' = m
  <2>1. active \in Call
    BY <1>4 DEF Queue, Safe, TypeOK
  <2> QED
    BY <1>1, <1>4, <2>1 DEF Queue, Talks
<1>5. CASE Deliver
  <2>1. notices # <<>> /\ Head(notices) \in Notice /\ up
    BY <1>5, FirstNotice DEF Deliver, Safe
  <2>2. CASE Head(notices).kind = "chunk" /\ Chunk(Head(notices).call, Head(notices).n)
    <3>1. Head(notices).call \in Call
      BY <2>1, NoticeShape
    <3>2. CASE active = Head(notices).call
      BY <1>1, <2>1, <2>2, <3>1, <3>2 DEF Chunk, ActiveTurn, Talks, Of
    <3>3. CASE active # Head(notices).call
      BY <2>2, <3>3 DEF Chunk, ActiveTurn, diskVars
    <3> QED
      BY <3>2, <3>3
  <2>3. CASE Head(notices).kind = "closed" /\ Close(Head(notices).call, Head(notices).status)
    BY <1>2, <2>1, <2>3, NoticeShape
  <2> QED
    BY <1>5, <2>2, <2>3 DEF Deliver
<1>6. ASSUME NEW c \in Call, SenderCloses(c)
      PROVE  \/ UNCHANGED <<messages, replay>>
             \/ up /\ \E m : Talks(m) /\ messages' = m /\ replay' = m
  BY <1>2, <1>6 DEF SenderCloses, Final
<1>7. CASE Quit
  <2>1. CASE active = None
    BY <1>7, <2>1 DEF Quit, diskVars
  <2>2. CASE active # None
    BY <1>2, <1>7, <2>2 DEF Quit, Final, Safe, TypeOK
  <2> QED
    BY <2>1, <2>2
<1>8. CASE Stop \/ Disconnect \/ (\E c \in Call : SenderAccepted(c) \/ SenderGivesUp(c))
  BY <1>8 DEF Stop, Disconnect, SenderAccepted, SenderGivesUp, sessVars, diskVars
<1>9. CASE Serving \/ \E c \in Call : Turn(c)
  BY <1>9 DEF Serving, GoStarts, GoCancels, Turn, GoChunk, GoSteer, Drain, GoEnds, sessVars, diskVars
<1> QED
  BY <1>3, <1>4, <1>5, <1>6, <1>7, <1>8, <1>9 DEF Up, Command, Sending

LEMMA UnderWayTalks ==
    ASSUME Safe, NEW m \in UnderWay
    PROVE  Talks(m)
<1>1. CASE active = None
  BY <1>1 DEF UnderWay, Talks
<1>2. CASE active # None
  <2>1. active \in Call /\ notices \in Seq(Notice)
    BY <1>2 DEF Safe, TypeOK
  <2>2. \/ \E q \in Query : m = Steered(q)
        \/ m = Closed("failed") \/ m = Closed("cancelled")
        \/ \E i \in DOMAIN notices :
               /\ i = 1 /\ notices[i].call = active
               /\ m = IF notices[i].kind = "chunk" THEN Grown(notices[i].n) ELSE Closed(notices[i].status)
    BY <1>2 DEF UnderWay
  <2>3. CASE \E i \in DOMAIN notices :
               /\ i = 1 /\ notices[i].call = active
               /\ m = IF notices[i].kind = "chunk" THEN Grown(notices[i].n) ELSE Closed(notices[i].status)
    <3>1. notices # <<>> /\ Head(notices) = notices[1] /\ notices[1] \in Notice
      BY <2>1, <2>3
    <3> QED
      BY <2>1, <2>3, <3>1, NoticeShape DEF Talks, Of
  <2>4. "failed" \in Final /\ "cancelled" \in Final
    BY DEF Final
  <2> QED
    BY <2>1, <2>2, <2>3, <2>4 DEF Talks
<1> QED
  BY <1>1, <1>2

LEMMA TalkAdvances ==
    ASSUME Safe, up, Mirrors, Orderly(replay), \A c \in Call : Tracks(c),
           NEW m, Talks(m), replay' = m
    PROVE  Durable!Next /\ Orderly(replay')
<1>1. /\ messages = replay /\ TypeOK /\ OneRunning /\ None \notin Call
      /\ replay.answer \in [Call -> Answer]
      /\ \A c \in Call : replay.answer[c] \in Answer
  BY ShownTyped, BoundsAssumption DEF Safe, Mirrors
<1>2. \A c \in Call : replay.answer[c].status = "running" <=> active = c
  BY <1>1 DEF OneRunning
<1>3. ASSUME NEW c \in Call, NEW q \in Query, active = None, Fresh(c), m = Opened(c, q)
      PROVE  Durable!Next /\ Orderly(replay')
  <2>1. /\ replay'.answer = [replay.answer EXCEPT ![c].status = "running"]
        /\ replay'.asked = replay.asked \cup {<<q, c>>}
    BY <1>1, <1>3 DEF Opened
  <2>2. replay.answer[c].status = "absent" /\ \A d \in Call : replay.answer[d].status # "running"
    BY <1>1, <1>2, <1>3 DEF Fresh
  <2>3. Durable!Open(c, q)
    BY <2>1, <2>2 DEF Durable!Open, Durable!Answering
  <2>4. \A d \in Call : d # c => replay'.answer[d] = replay.answer[d]
    BY <1>1, <2>1
  <2>5. replay'.answer[c].status = "running"
    BY <1>1, <2>1 DEF Answer
  <2>6. Orderly(replay')
    BY <2>2, <2>4, <2>5 DEF Orderly
  <2> QED
    BY <2>3, <2>6 DEF Durable!Next
<1>4. ASSUME NEW q \in Query, active \in Call, m = Steered(q)
      PROVE  Durable!Next /\ Orderly(replay')
  <2>1. replay'.answer = replay.answer /\ replay'.asked = replay.asked \cup {<<q, active>>}
    BY <1>1, <1>4, Changed DEF Steered, TypeOK
  <2>2. Durable!Steer(active, q)
    BY <1>2, <1>4, <2>1 DEF Durable!Steer, Durable!Answering
  <2> QED
    BY <1>4, <2>1, <2>2 DEF Durable!Next, Orderly
<1>5. ASSUME NEW how \in Final, active \in Call, m = Closed(how)
      PROVE  Durable!Next /\ Orderly(replay')
  <2>1. /\ replay'.answer = [replay.answer EXCEPT ![active].status = how]
        /\ replay'.asked = replay.asked
    BY <1>1, <1>5, Changed DEF Closed, TypeOK
  <2>2. Durable!Close(active, how)
    BY <1>2, <1>5, <2>1 DEF Durable!Close, Durable!Answering
  <2>3. how \in Durable!Final /\ how # "running" /\ how # "absent"
    BY DEF Durable!Final, Final
  <2>4. /\ \A d \in Call : d # active => replay'.answer[d] = replay.answer[d]
        /\ replay'.answer[active].status = how
    BY <1>1, <1>5, <2>1 DEF Answer
  <2>5. Orderly(replay')
    BY <2>3, <2>4 DEF Orderly
  <2> QED
    BY <1>5, <2>2, <2>3, <2>5 DEF Durable!Next
<1>6. ASSUME active \in Call, notices # <<>>, Of(Head(notices), active), m = Grown(Head(notices).n)
      PROVE  Durable!Next /\ Orderly(replay')
  <2> DEFINE l == Len(replay.answer[active].text)
  <2>1. /\ replay'.answer = [replay.answer EXCEPT ![active].text = Append(@, Head(notices).n)]
        /\ replay'.asked = replay.asked
    BY <1>1, <1>6, Changed DEF Grown, TypeOK
  <2>2. Head(notices).n = l + 1
    <3>1. notices \in Seq(Notice) /\ l \in Nat /\ sent[active] \in Nat
      BY <1>1, <1>6, TextLength DEF TypeOK
    <3>2. InLine(notices, active, l, sent[active])
      BY <1>1, <1>6 DEF Tracks, Follows
    <3> QED
      BY <1>6, <3>1, <3>2, ChunkTaken
  <2>3. Durable!Grow(active)
    BY <1>2, <1>6, <2>1, <2>2 DEF Durable!Grow, Durable!Answering
  <2>4. /\ \A d \in Call : d # active => replay'.answer[d] = replay.answer[d]
        /\ replay'.answer[active].status = replay.answer[active].status
    BY <1>1, <1>6, <2>1 DEF Answer
  <2>5. Orderly(replay')
    BY <1>2, <1>6, <2>4 DEF Orderly
  <2> QED
    BY <1>6, <2>3, <2>5 DEF Durable!Next
<1> QED
  BY <1>3, <1>4, <1>5, <1>6 DEF Talks

\* The start of the process cancels the answer that ran.
LEMMA RestartAdvances ==
    ASSUME Safe, Orderly(replay), Restart
    PROVE  [Durable!Next]_(Durable!talk) /\ Orderly(replay')
<1>1. /\ replay.answer \in [Call -> Answer]
      /\ \A c \in Call : replay.answer[c] \in Answer
      /\ replay' = [answer |-> Reload(replay.answer), asked |-> replay.asked]
      /\ replay = [answer |-> replay.answer, asked |-> replay.asked]
  BY ShownTyped, Changed DEF Safe, Restart, TypeOK
<1>2. \A c \in Call : Reload(replay.answer)[c] =
          IF replay.answer[c].status = "running" THEN [replay.answer[c] EXCEPT !.status = "cancelled"]
          ELSE replay.answer[c]
  BY DEF Reload
<1>3. CASE \A c \in Call : replay.answer[c].status # "running"
  <2>1. Reload(replay.answer) = replay.answer
    BY <1>1, <1>3 DEF Reload
  <2> QED
    BY <1>1, <2>1 DEF Durable!talk
<1>4. ASSUME NEW c \in Call, replay.answer[c].status = "running"
      PROVE  Durable!Next /\ Orderly(replay')
  <2>1. \A d \in Call : d # c => replay.answer[d].status # "running"
    BY <1>4 DEF Orderly
  <2>2. Reload(replay.answer) = [replay.answer EXCEPT ![c].status = "cancelled"]
    <3>1. Reload(replay.answer) = [d \in Call |-> IF d = c THEN [replay.answer[c] EXCEPT !.status = "cancelled"]
                                                  ELSE replay.answer[d]]
      BY <1>2, <1>4, <2>1 DEF Reload
    <3> QED
      BY <1>1, <3>1
  <2>3. Durable!Close(c, "cancelled")
    BY <1>1, <1>4, <2>2 DEF Durable!Close, Durable!Answering
  <2>4. /\ \A d \in Call : d # c => replay'.answer[d] = replay.answer[d]
        /\ replay'.answer[c].status = "cancelled"
    BY <1>1, <1>2, <1>4, <2>1 DEF Answer
  <2>5. Orderly(replay')
    BY <2>1, <2>4 DEF Orderly
  <2> QED
    BY <2>3, <2>5 DEF Durable!Next, Durable!Final
<1> QED
  BY <1>3, <1>4

LEMMA CrashAdvances ==
    ASSUME Safe, Mirrors, Orderly(replay), \A c \in Call : Tracks(c), Crash
    PROVE  [Durable!Next]_(Durable!talk) /\ Orderly(replay')
<1>1. up /\ (replay' = replay \/ \E m \in UnderWay : replay' = m)
  BY DEF Crash, PartlyRecorded, Recorded, diskVars
<1>2. CASE replay' = replay
  BY <1>2 DEF Durable!talk
<1>3. CASE \E m \in UnderWay : replay' = m
  BY <1>1, <1>3, UnderWayTalks, TalkAdvances
<1> QED
  BY <1>1, <1>2, <1>3

----------------------------------------------------------------------------
(* The invariant, and what follows.                                        *)

Sound == /\ Safe
         /\ \A c \in Call : Begun(c)
         /\ errors = 0 => Mirrors /\ Orderly(replay) /\ \A c \in Call : Tracks(c)

LEMMA ErrorsGrow ==
    ASSUME Safe, [Next]_vars, errors' = 0
    PROVE  errors = 0
<1>1. errors \in Nat
  BY BoundsAssumption DEF Safe, TypeOK
<1>2. CASE Up
  <2>1. DiskStep
    BY <1>2, UpIsDiskStep DEF Safe
  <2> QED
    BY <1>1, <2>1 DEF DiskStep, Commit, CommitFails, Failing
<1>3. CASE Crash \/ Restart \/ UNCHANGED vars
  BY <1>3 DEF Crash, Restart, vars
<1> QED
  BY <1>2, <1>3, NextSplits

LEMMA StepIsUp ==
    ASSUME Up
    PROVE  \/ (\E d \in Call, q \in Query : Open(d, q)) \/ (\E q \in Query : Queue(q)) \/ Stop \/ Quit
                  \/ (\E d \in Call : Sending(d))
           \/ Deliver
           \/ up /\ (Serving \/ \E d \in Call : Turn(d))
           \/ Disconnect
BY DEF Up, Command

LEMMA StepBegun ==
    ASSUME Safe, [Next]_vars, NEW c \in Call, Begun(c)
    PROVE  Begun(c)'
<1>1. CASE Up
  BY <1>1, StepIsUp, CommandBegun, DeliverBegun, GoBegun, EndingBegun
<1>2. CASE Crash \/ Restart
  BY <1>2, EndingBegun
<1>3. CASE UNCHANGED vars
  <2>1. UNCHANGED <<messages, up, requests, goAt, sent, notices>>
    BY <1>3 DEF vars, sessVars, procVars, goVars
  <2> QED
    BY <2>1, BegunKept DEF Pending
<1> QED
  BY <1>1, <1>2, <1>3, NextSplits

LEMMA StepTracks ==
    ASSUME Safe, [Next]_vars, Mirrors, Orderly(replay), errors' = 0,
           NEW c \in Call, Begun(c), Tracks(c)
    PROVE  Tracks(c)'
<1>1. CASE Up
  BY <1>1, StepIsUp, CommandTracks, DeliverTracks, GoTracks, EndingTracks
<1>2. CASE Crash \/ Restart
  BY <1>2, EndingTracks
<1>3. CASE UNCHANGED vars
  <2>1. UNCHANGED <<messages, active, goAt, sent, notices>>
    BY <1>3 DEF vars, sessVars, goVars
  <2> QED
    BY <2>1, TracksKept DEF Live
<1> QED
  BY <1>1, <1>2, <1>3, NextSplits

\* The step that the disk sees is one of the conversation.
LEMMA StepAdvances ==
    ASSUME Sound, [Next]_vars, errors' = 0
    PROVE  [Durable!Next]_(Durable!talk) /\ Mirrors' /\ Orderly(replay')
<1>1. Safe /\ Mirrors /\ Orderly(replay) /\ \A c \in Call : Tracks(c)
  BY ErrorsGrow DEF Sound
<1>2. CASE Up
  <2>1. up /\ Mirrors'
    <3>1. up
      BY <1>2 DEF Up, Command, Open, Queue, Stop, Deliver, Sending, SenderAccepted, SenderGivesUp,
           SenderCloses, Disconnect, Quit
    <3>2. replay' = messages'
      BY <1>1, <1>2, <3>1, UpTalks DEF Mirrors
    <3> QED
      BY <3>1, <3>2 DEF Mirrors
  <2>2. CASE UNCHANGED <<messages, replay>>
    BY <1>1, <2>1, <2>2 DEF Durable!talk
  <2>3. CASE \E m : Talks(m) /\ messages' = m /\ replay' = m
    BY <1>1, <2>1, <2>3, TalkAdvances
  <2> QED
    BY <1>1, <1>2, <2>2, <2>3, UpTalks
<1>3. CASE Crash
  <2>1. Mirrors'
    BY <1>3 DEF Crash, Mirrors
  <2> QED
    BY <1>1, <1>3, <2>1, CrashAdvances
<1>4. CASE Restart
  <2>1. Mirrors'
    BY <1>4 DEF Restart, Mirrors
  <2> QED
    BY <1>1, <1>4, <2>1, RestartAdvances
<1>5. CASE UNCHANGED vars
  <2>1. UNCHANGED <<messages, replay, up>>
    BY <1>5 DEF vars, sessVars, diskVars, procVars
  <2> QED
    BY <1>1, <2>1 DEF Mirrors, Durable!talk
<1> QED
  BY <1>2, <1>3, <1>4, <1>5, NextSplits

LEMMA SoundHolds == Spec => []Sound
<1>1. Init => Sound
  <2> SUFFICES ASSUME Init PROVE Sound
    OBVIOUS
  <2>1. Safe
    BY InitSafe
  <2>2. /\ notices = <<>> /\ requests = {} /\ active = None /\ None \notin Call /\ replay = messages
        /\ \A c \in Call : /\ goAt[c] = "none" /\ sent[c] = 0
                           /\ messages.answer[c] = [status |-> "absent", text |-> <<>>]
    BY BoundsAssumption DEF Init, Each, Nothing
  <2>3. \A c \in Call : Silent(notices, c) /\ Unended(notices, c) /\ ~Pending(c, "turn.start")
    BY <2>2 DEF Silent, Unended, Pending
  <2>4. \A c \in Call : Begun(c)
    BY <2>2, <2>3 DEF Begun, Unstarted
  <2>5. \A c \in Call : Tracks(c)
    BY <2>2 DEF Tracks, Follows, Whole
  <2>6. Mirrors /\ Orderly(replay)
    BY <2>2 DEF Mirrors, Orderly
  <2> QED
    BY <2>1, <2>4, <2>5, <2>6 DEF Sound
<1>2. Sound /\ [Next]_vars => Sound'
  <2> SUFFICES ASSUME Sound, [Next]_vars PROVE Sound'
    OBVIOUS
  <2>1. Safe' /\ \A c \in Call : Begun(c)'
    BY StepKeepsSafe, StepBegun DEF Sound
  <2>2. ASSUME errors' = 0
        PROVE  Mirrors' /\ Orderly(replay') /\ \A c \in Call : Tracks(c)'
    <3>1. errors = 0
      BY <2>2, ErrorsGrow DEF Sound
    <3> QED
      BY <2>2, <3>1, StepAdvances, StepTracks DEF Sound
  <2> QED
    BY <2>1, <2>2 DEF Sound
<1> QED
  BY <1>1, <1>2, PTL DEF Spec

\* An answer that is done holds every chunk that Go sent for it, in their order
\* (chunk, close and shutdown of src/src/sess.rs over the listener of src/src/ipc.rs).
THEOREM SessionWhole == Spec => []AnswerWhole
<1>1. Sound => AnswerWhole
  BY DEF Sound, Tracks, Whole, Count, AnswerWhole
<1> QED
  BY <1>1, SoundHolds, PTL

\* What is on disk is a conversation, over crashes in the middle of a commit, as long as
\* no write fails in a process that goes on (src/src/sess.rs and src/src/store.rs).
THEOREM SessionImplements == ASSUME MaxErrors = 0 PROVE Spec => KeepsConversation
<1>1. Init => Durable!Init
  BY DEF Init, Nothing, Each, Durable!Init
<1>2. Sound /\ Sound' /\ [Next]_vars => [Durable!Next]_(Durable!talk)
  <2> SUFFICES ASSUME Sound, Sound', [Next]_vars PROVE [Durable!Next]_(Durable!talk)
    OBVIOUS
  <2>1. errors' = 0
    BY DEF Sound, Safe, TypeOK
  <2> QED
    BY <2>1, StepAdvances
<1>3. Spec => []Sound
  BY SoundHolds
<1> QED
  BY <1>1, <1>2, <1>3, PTL DEF Spec, KeepsConversation, Durable!Spec
=============================================================================
